--------------------------- MODULE WsClientProofs ---------------------------
(***************************************************************************)
(* Proofs about WsClient: the inductive invariant IInv, the safety         *)
(* properties that follow from it, and that with one thread Stop is final. *)
(***************************************************************************)
EXTENDS WsClient, TLAPS

USE DEF Coroutines, Writers, Enqueue, Dequeued, Cleared

-----------------------------------------------------------------------------
(* The operators the turns are built from *)

\* A new Connection is none of those the client still refers to.
LEMMA NewConnFresh ==
  ASSUME conn \in Conns, outer \in Conns \cup {NoConn},
         loc \in [Coroutines -> Conns \cup {NoConn}]
  PROVE  /\ NewConn \in Conns
         /\ NewConn # conn /\ NewConn # outer
         /\ \A k \in Coroutines : NewConn # loc[k]
<1>1. \E d \in Conns : d # conn /\ d # outer /\ \A k \in Coroutines : d # loc[k]
  BY AllocatorAssumption
<1>2. \E d \in Conns : d \notin Referred
  BY <1>1 DEF Referred
<1>3. NewConn \in Conns /\ NewConn \notin Referred
  BY <1>2 DEF NewConn
<1> QED
  BY <1>3 DEF Referred

\* What a turn takes from the strand, and what it leaves there, are handlers.
LEMMA TurnTakes ==
  ASSUME TypeOK, strand # <<>>
  PROVE  Head(strand) \in Handlers /\ Rest \in Seq(Handlers)
BY DEF TypeOK, Rest

LEMMA OneElementSeq ==
  ASSUME NEW S, NEW x \in S
  PROVE  <<x>> \in Seq(S)
OBVIOUS

\* Handlers aborted by the close of a socket are handlers.
LEMMA AbortsAreHandlers ==
  ASSUME NEW c
  PROVE  Aborts(c) \in Seq(Handlers)
<1>1. ASSUME NEW k \in Coroutines PROVE Abort(k, c) \in Seq(Handlers)
  <2>1. Ready(k, FALSE) \in Handlers
    BY DEF Ready, Handlers
  <2>2. <<Ready(k, FALSE)>> \in Seq(Handlers)
    BY <2>1, OneElementSeq
  <2>3. CASE OnSocket(k) /\ loc[k] = c /\ Open(c)
    BY <2>2, <2>3 DEF Abort
  <2>4. CASE ~(OnSocket(k) /\ loc[k] = c /\ Open(c))
    <3>1. Abort(k, c) = <<>>
      BY <2>4 DEF Abort
    <3> QED
      BY <3>1
  <2> QED
    BY <2>3, <2>4
<1> QED
  BY <1>1 DEF Aborts

\* What an assignment to the status leaves: a Stop may undo it, or be undone by it.
LEMMA StateEffect ==
  ASSUME TypeOK, NEW s, State(s)
  PROVE  /\ status' \in {s, "Closed"} /\ (status = "Closed" => status' = "Closed")
         /\ stopped' \in {stopped, TRUE}
BY DEF State, StopAmid, SetState

\* A turn that only looks at the status leaves it, unless Stop comes.
LEMMA LookEffect ==
  ASSUME Look
  PROVE  status' \in {status, "Closed"} /\ stopped' \in {stopped, TRUE}
BY DEF Look, StopAmid

\* Where HandleRead is after the head of its loop.
LEMMA ReadLoopEffect ==
  ASSUME ReadLoop
  PROVE  \/ status' = "Closed" /\ Await("HandleRead", "done", NoConn)
         \/ /\ status' = "Connected" /\ link'[conn'] # "closed"
            /\ Await("HandleRead", "read", conn')
         \/ Await("HandleRead", "poll", conn')
BY DEF ReadLoop

\* Close ends Disconnected (or Closed, after Stop) on a fresh closed connection.
LEMMA CloseEffect ==
  ASSUME TypeOK, NEW rest \in Seq(Handlers), Close(rest)
  PROVE  /\ status' \in {"Disconnected", "Closed"} /\ stopped' \in BOOLEAN
         /\ queue' = <<>>
         /\ link' = [link EXCEPT ![conn] = "closed"]
         /\ conn' \in Conns /\ conn' # conn /\ conn' # outer
         /\ \A k \in Coroutines : conn' # loc[k]
         /\ idle' = FALSE
         /\ strand' \in Seq(Handlers)
<1>1. NewConn \in Conns /\ NewConn # conn /\ NewConn # outer /\ \A k \in Coroutines : NewConn # loc[k]
  BY NewConnFresh DEF TypeOK
<1>2. Aborts(conn) \in Seq(Handlers)
  BY AbortsAreHandlers
<1>3. rest \o Aborts(conn) \in Seq(Handlers)
  BY <1>2
<1> QED
  BY <1>1, <1>3, StateEffect DEF Close, ForceClosed, TypeOK

\* What Close assigns is well typed.
LEMMA CloseTyped ==
  ASSUME TypeOK, NEW rest \in Seq(Handlers), Close(rest)
  PROVE  /\ status' \in Status /\ stopped' \in BOOLEAN
         /\ queue' \in Seq(Msgs) /\ conn' \in Conns
         /\ link' \in [Conns -> {"closed", "tcp", "ws"}]
         /\ idle' \in BOOLEAN /\ strand' \in Seq(Handlers)
<1>1. status' \in Status
  BY CloseEffect DEF Status
<1>2. link' \in [Conns -> {"closed", "tcp", "ws"}]
  BY CloseEffect DEF TypeOK
<1>3. queue' \in Seq(Msgs)
  <2>1. <<>> \in Seq(Msgs)
    OBVIOUS
  <2> QED
    BY <2>1, CloseEffect
<1> QED
  BY <1>1, <1>2, <1>3, CloseEffect

\* UseNext stays within the book.
LEMMA UseNextInBook ==
  ASSUME NEW i \in Index
  PROVE  UseNext(i) \in Index
BY BookAssumption DEF Index, UseNext

\* Appending a handler keeps the strand a sequence of handlers.
LEMMA BecomesTyped ==
  ASSUME TypeOK, NEW k \in Coroutines, NEW ok \in BOOLEAN, Becomes(k, ok)
  PROVE  strand' \in Seq(Handlers)
<1>1. Ready(k, ok) \in Handlers
  BY DEF Ready, Handlers
<1> QED
  BY <1>1 DEF TypeOK, Becomes

\* Posting a message keeps the strand a sequence of handlers.
LEMMA PostedTyped ==
  ASSUME TypeOK, NEW m \in Msgs
  PROVE  Append(strand, Posted(m)) \in Seq(Handlers)
<1>1. Posted(m) \in Handlers
  BY DEF Posted, Handlers
<1> QED
  BY <1>1 DEF TypeOK

\* Where each coroutine may await.
LEMMA LabelsOf ==
  /\ Labels["HandleRead"] = {"start", "backoff", "poll", "read", "done"} \cup Stages
  /\ Labels["Monitor"] = {"start", "sleep", "ping", "done"}
  /\ \A w \in Writers : Labels[w] = {"idle", "write"}
BY DEF Labels

\* A coroutine that awaits where it may leaves pc and loc well typed.
LEMMA AwaitTyped ==
  ASSUME TypeOK, NEW k \in Coroutines, NEW label \in Labels[k],
         NEW c \in Conns \cup {NoConn}, Await(k, label, c)
  PROVE  /\ pc' \in [Coroutines -> Places] /\ \A j \in Coroutines : pc'[j] \in Labels[j]
         /\ loc' \in [Coroutines -> Conns \cup {NoConn}]
<1>1. label \in Places
  <2>1. CASE k = "HandleRead"
    BY <2>1, LabelsOf DEF Places
  <2>2. CASE k = "Monitor"
    BY <2>2, LabelsOf DEF Places
  <2>3. CASE k \in Writers
    BY <2>3, LabelsOf DEF Places
  <2> QED
    BY <2>1, <2>2, <2>3
<1>2. pc \in [Coroutines -> Places] /\ \A j \in Coroutines : pc[j] \in Labels[j]
  BY DEF TypeOK
<1>3. pc' = [pc EXCEPT ![k] = label] /\ loc' = [loc EXCEPT ![k] = c]
  BY DEF Await
<1>4. loc' \in [Coroutines -> Conns \cup {NoConn}]
  BY <1>3 DEF TypeOK
<1> QED
  BY <1>1, <1>2, <1>3, <1>4

\* The head of HandleRead's loop is well typed.
LEMMA ReadLoopTyped ==
  ASSUME TypeOK, ReadLoop, conn' \in Conns
  PROVE  /\ pc' \in [Coroutines -> Places] /\ \A k \in Coroutines : pc'[k] \in Labels[k]
         /\ loc' \in [Coroutines -> Conns \cup {NoConn}]
<1>1. {"done", "read", "poll"} \subseteq Labels["HandleRead"]
  BY LabelsOf
<1>2. \E label \in {"done", "read", "poll"}, c \in Conns \cup {NoConn} :
        Await("HandleRead", label, c)
  BY ReadLoopEffect
<1> QED
  BY <1>1, <1>2, AwaitTyped

\* Connect, or the return from it, is well typed.
LEMMA ConnectTyped ==
  ASSUME TypeOK, NEW o \in Conns \cup {NoConn}, ConnectOrReturn(o), conn' = conn
  PROVE  /\ status' \in Status /\ stopped' \in BOOLEAN
         /\ queue' \in Seq(Msgs) /\ index' \in Index /\ idle' \in BOOLEAN
         /\ pc' \in [Coroutines -> Places] /\ \A k \in Coroutines : pc'[k] \in Labels[k]
         /\ loc' \in [Coroutines -> Conns \cup {NoConn}] /\ outer' \in Conns \cup {NoConn}
<1>1. CASE Connectable(status)
  <2>1. UseNext(index) \in Index
    BY UseNextInBook DEF TypeOK
  <2>2. StartAttempt /\ outer' = o
    BY <1>1 DEF ConnectOrReturn
  <2>3. Await("HandleRead", "resolve", conn)
    BY <2>2 DEF StartAttempt
  <2>4. "resolve" \in Labels["HandleRead"]
    BY LabelsOf DEF Stages
  <2>5. conn \in Conns
    BY DEF TypeOK
  <2>6. status' \in Status /\ stopped' \in BOOLEAN
    BY <2>2, StateEffect DEF TypeOK, StartAttempt, Status
  <2> QED
    BY <2>1, <2>2, <2>3, <2>4, <2>5, <2>6, AwaitTyped DEF TypeOK, StartAttempt
<1>2. CASE ~Connectable(status)
  <2>1. ReadLoop /\ StampOnRead /\ outer' = NoConn /\ UNCHANGED <<status, stopped, queue, index>>
    BY <1>2 DEF ConnectOrReturn
  <2> QED
    BY <2>1, ReadLoopTyped DEF TypeOK, StampOnRead
<1> QED
  BY <1>1, <1>2

\* The sockets that the end of the locals closes are closed, the others as they were.
LEMMA ReleasedTyped ==
  ASSUME TypeOK, NEW S
  PROVE  /\ Released(S) \in [Conns -> {"closed", "tcp", "ws"}]
         /\ \A c \in Conns :
              /\ Released(S)[c] # "closed" => Open(c)
              /\ c \in S /\ c # conn => Released(S)[c] = "closed"
BY DEF TypeOK, Released, Open

\* Bringing a handler to the front of the strand keeps it a sequence of handlers.
LEMMA OvertakesTyped ==
  ASSUME TypeOK, Overtakes
  PROVE  strand' \in Seq(Handlers)
<1>1. PICK i \in 2 .. Len(strand) :
        strand' = <<strand[i]>> \o SubSeq(strand, 1, i - 1) \o SubSeq(strand, i + 1, Len(strand))
  BY DEF Overtakes
<1>2. strand \in Seq(Handlers) /\ strand[i] \in Handlers
  BY <1>1 DEF TypeOK
<1>3. <<strand[i]>> \in Seq(Handlers)
  BY <1>2, OneElementSeq
<1>4. SubSeq(strand, 1, i - 1) \in Seq(Handlers) /\ SubSeq(strand, i + 1, Len(strand)) \in Seq(Handlers)
  BY <1>2
<1> QED
  BY <1>1, <1>3, <1>4

\* The head of HandleWrite's loop is well typed.
LEMMA WriteLoopTyped ==
  ASSUME TypeOK, NEW w \in Writers, NEW q \in Seq(Msgs), WriteLoop(w, q)
  PROVE  /\ queue' \in Seq(Msgs) /\ writing' \in BOOLEAN
         /\ pc' \in [Coroutines -> Places] /\ \A k \in Coroutines : pc'[k] \in Labels[k]
         /\ loc' \in [Coroutines -> Conns \cup {NoConn}]
<1>1. {"idle", "write"} \subseteq Labels[w]
  BY LabelsOf
<1>2. \E label \in {"idle", "write"}, c \in Conns \cup {NoConn} : Await(w, label, c)
  BY DEF TypeOK, WriteLoop
<1>3. q # <<>> => Tail(q) \in Seq(Msgs)
  OBVIOUS
<1>4. queue' \in {q, Tail(q)} /\ (queue' = Tail(q) => q # <<>> \/ Tail(q) = q)
      /\ writing' \in BOOLEAN
  BY DEF WriteLoop
<1> QED
  BY <1>1, <1>2, <1>3, <1>4, AwaitTyped

\* Monitor's judgement is well typed.
LEMMA JudgeTyped ==
  ASSUME TypeOK, strand # <<>>, NEW c, NEW late \in BOOLEAN, Judge(c, late),
         UNCHANGED <<writing, index, outer, caller>>
  PROVE  TypeOK'
<1>1. Rest \in Seq(Handlers)
  BY TurnTakes
<1>2. /\ pc' \in [Coroutines -> Places] /\ \A k \in Coroutines : pc'[k] \in Labels[k]
      /\ loc' \in [Coroutines -> Conns \cup {NoConn}]
      /\ expired' \in BOOLEAN
  <2>1. {"done", "sleep"} \subseteq Labels["Monitor"]
    BY LabelsOf
  <2>2. \E label \in {"done", "sleep"} : Await("Monitor", label, NoConn)
    BY DEF Judge
  <2> QED
    BY <2>1, <2>2, AwaitTyped DEF Judge
<1>3. CASE MustClose(c, late)
  <2>1. Close(Rest) /\ reconnect' = FALSE
    BY <1>3 DEF Judge
  <2> QED
    BY <1>1, <1>2, <2>1, CloseTyped DEF TypeOK
<1>4. CASE ~MustClose(c, late)
  <2>1. strand' = Rest /\ Look /\ UNCHANGED <<reconnect, queue, conn, idle, link>>
    BY <1>4 DEF Judge
  <2>2. status' \in Status /\ stopped' \in BOOLEAN
    BY <2>1, LookEffect DEF TypeOK, Status
  <2> QED
    BY <1>1, <1>2, <2>1, <2>2 DEF TypeOK
<1> QED
  BY <1>3, <1>4

-----------------------------------------------------------------------------
(* Type correctness *)

\* Every step of the client keeps its state well typed.
LEMMA TypeStep == TypeOK /\ [Next]_vars => TypeOK'
<1>. SUFFICES ASSUME TypeOK, [Next]_vars PROVE TypeOK'
  OBVIOUS
<1>. USE DEF Turn
<1>1. CASE HandleReadStart
  <2>1. Rest \in Seq(Handlers)
    BY <1>1, TurnTakes DEF HandleReadStart
  <2>2. ConnectOrReturn(NoConn)
    BY <1>1 DEF HandleReadStart
  <2> QED
    BY <1>1, <2>1, <2>2, ConnectTyped DEF TypeOK, HandleReadStart
<1>2. CASE Polled
  <2>1. Rest \in Seq(Handlers) /\ conn' = conn
    BY <1>2, TurnTakes DEF Polled
  <2>2. CASE status = "Disconnected"
    <3>1. ConnectOrReturn(loc["HandleRead"]) /\ loc["HandleRead"] \in Conns \cup {NoConn}
      BY <1>2, <2>2 DEF Polled, TypeOK
    <3> QED
      BY <1>2, <2>1, <3>1, ConnectTyped DEF TypeOK, Polled
  <2>3. CASE status # "Disconnected"
    <3>1. Look /\ ReadLoop /\ StampOnRead /\ UNCHANGED <<queue, index, outer>>
      BY <1>2, <2>3 DEF Polled
    <3>2. status' \in Status /\ stopped' \in BOOLEAN
      BY <3>1, LookEffect DEF TypeOK, Status
    <3> QED
      BY <1>2, <2>1, <3>1, <3>2, ReadLoopTyped DEF TypeOK, Polled, StampOnRead
  <2> QED
    BY <2>2, <2>3
<1>3. CASE Resolved
  <2>1. Rest \in Seq(Handlers) /\ "connect" \in Labels["HandleRead"]
    BY <1>3, TurnTakes, LabelsOf DEF Resolved, Stages
  <2>2. loc["HandleRead"] \in Conns \cup {NoConn}
    BY DEF TypeOK
  <2> QED
    BY <1>3, <2>1, <2>2, AwaitTyped DEF TypeOK, Resolved
<1>4. CASE Accepted
  <2>1. Rest \in Seq(Handlers) /\ "ssl" \in Labels["HandleRead"]
    BY <1>4, TurnTakes, LabelsOf DEF Accepted, Stages
  <2>2. loc["HandleRead"] \in Conns \cup {NoConn}
    BY DEF TypeOK
  <2> QED
    BY <1>4, <2>1, <2>2, AwaitTyped DEF TypeOK, Accepted
<1>5. CASE Secured
  <2>1. Rest \in Seq(Handlers) /\ "handshake" \in Labels["HandleRead"]
    BY <1>5, TurnTakes, LabelsOf DEF Secured, Stages
  <2>2. loc["HandleRead"] \in Conns \cup {NoConn}
    BY DEF TypeOK
  <2> QED
    BY <1>5, <2>1, <2>2, AwaitTyped DEF TypeOK, Secured
<1>6. CASE AttemptFails
  <2>1. Rest \in Seq(Handlers) /\ "backoff" \in Labels["HandleRead"]
    BY <1>6, TurnTakes, LabelsOf DEF AttemptFails
  <2>2. loc["HandleRead"] \in Conns \cup {NoConn}
    BY DEF TypeOK
  <2>3. Close(Rest)
    BY <1>6 DEF AttemptFails
  <2> QED
    BY <1>6, <2>1, <2>2, <2>3, AwaitTyped, CloseTyped DEF TypeOK, AttemptFails
<1>7. CASE Established
  <2>1. Rest \in Seq(Handlers)
    BY <1>7, TurnTakes DEF Established
  <2>2. status' \in Status /\ stopped' \in BOOLEAN
    BY <1>7, StateEffect DEF TypeOK, Established, Status
  <2>3. conn' \in Conns
    BY <1>7 DEF TypeOK, Established
  <2>4. link' \in [Conns -> {"closed", "tcp", "ws"}]
    <3>1. Released({loc["HandleRead"], outer}) \in [Conns -> {"closed", "tcp", "ws"}]
      BY ReleasedTyped
    <3> QED
      BY <1>7, <3>1 DEF Established
  <2> QED
    BY <1>7, <2>1, <2>2, <2>3, <2>4, ReadLoopTyped DEF TypeOK, Established, StampOnRead
<1>8. CASE BackedOff
  <2>1. Rest \in Seq(Handlers)
    BY <1>8, TurnTakes DEF BackedOff
  <2>2. ConnectOrReturn(outer) /\ outer \in Conns \cup {NoConn}
    BY <1>8 DEF BackedOff, TypeOK
  <2>3. link' \in [Conns -> {"closed", "tcp", "ws"}]
    BY <1>8, ReleasedTyped DEF BackedOff
  <2> QED
    BY <1>8, <2>1, <2>2, <2>3, ConnectTyped DEF TypeOK, BackedOff
<1>9. CASE ReadDone
  <2>1. Rest \in Seq(Handlers) /\ conn' \in Conns
    BY <1>9, TurnTakes DEF ReadDone, TypeOK
  <2>2. status' \in Status /\ stopped' \in BOOLEAN
    BY <1>9, LookEffect DEF TypeOK, Status, ReadDone
  <2> QED
    BY <1>9, <2>1, <2>2, ReadLoopTyped DEF TypeOK, ReadDone, StampOnRead
<1>10. CASE ReadFails
  <2>1. Rest \in Seq(Handlers)
    BY <1>10, TurnTakes DEF ReadFails
  <2>2. Close(Rest)
    BY <1>10 DEF ReadFails
  <2> QED
    BY <1>10, <2>1, <2>2, ReadLoopTyped, CloseTyped DEF TypeOK, ReadFails
<1>11. CASE MonitorStart
  <2>1. Rest \in Seq(Handlers) /\ {"sleep", "done"} \subseteq Labels["Monitor"]
    BY <1>11, TurnTakes, LabelsOf DEF MonitorStart
  <2>2. \E label \in {"sleep", "done"} : Await("Monitor", label, NoConn)
    BY <1>11 DEF MonitorStart
  <2> QED
    BY <1>11, <2>1, <2>2, AwaitTyped DEF TypeOK, MonitorStart
<1>12. CASE MonitorWakes
  <2>1. CASE status = "Connected" /\ link[conn] = "ws"
    <3>1. Rest \in Seq(Handlers) /\ "ping" \in Labels["Monitor"]
      BY <1>12, TurnTakes, LabelsOf DEF MonitorWakes
    <3>2. Await("Monitor", "ping", conn)
      BY <1>12, <2>1 DEF MonitorWakes
    <3> QED
      BY <1>12, <2>1, <3>1, <3>2, AwaitTyped DEF TypeOK, MonitorWakes
  <2>2. CASE ~(status = "Connected" /\ link[conn] = "ws")
    <3>1. Judge(conn, idle) /\ conn \in Conns /\ idle \in BOOLEAN
      BY <1>12, <2>2 DEF TypeOK, MonitorWakes
    <3> QED
      BY <1>12, <3>1, JudgeTyped DEF MonitorWakes
  <2> QED
    BY <2>1, <2>2
<1>13. CASE Pinged
  <2>1. expired \in BOOLEAN
    BY DEF TypeOK
  <2> QED
    BY <1>13, <2>1, JudgeTyped DEF Pinged
<1>14. CASE RunPosted
  <2>1. Rest \in Seq(Handlers) /\ Head(strand).msg \in Msgs
    <3>1. Head(strand) \in Handlers /\ Head(strand).co = "post"
      BY <1>14, TurnTakes DEF RunPosted
    <3> QED
      BY <1>14, <3>1, TurnTakes DEF RunPosted, Handlers
  <2>2. Append(queue, Head(strand).msg) \in Seq(Msgs)
    BY <2>1 DEF TypeOK
  <2>3. CASE writing
    BY <1>14, <2>1, <2>2, <2>3 DEF TypeOK, RunPosted
  <2>4. CASE ~writing
    <3>1. \E w \in Writers : WriteLoop(w, Append(queue, Head(strand).msg))
      BY <1>14, <2>4 DEF RunPosted
    <3> QED
      BY <1>14, <2>1, <2>2, <3>1, WriteLoopTyped DEF TypeOK, RunPosted
  <2> QED
    BY <2>3, <2>4
<1>15. ASSUME NEW w \in Writers, Wrote(w) PROVE TypeOK'
  <2>1. Rest \in Seq(Handlers) /\ WriteLoop(w, queue) /\ queue \in Seq(Msgs)
    BY <1>15, TurnTakes DEF TypeOK, Wrote
  <2> QED
    BY <1>15, <2>1, WriteLoopTyped DEF TypeOK, Wrote
<1>16. ASSUME NEW w \in Writers, WriteFails(w) PROVE TypeOK'
  <2>1. Rest \in Seq(Handlers) /\ Close(Rest) /\ "idle" \in Labels[w]
    BY <1>16, TurnTakes, LabelsOf DEF WriteFails
  <2>2. Await(w, "idle", NoConn)
    BY <1>16 DEF WriteFails
  <2> QED
    BY <1>16, <2>1, <2>2, AwaitTyped, CloseTyped DEF TypeOK, WriteFails
<1>17. ASSUME NEW k \in Coroutines, TimerFires(k) PROVE TypeOK'
  BY <1>17, BecomesTyped DEF TypeOK, TimerFires
<1>18. ASSUME NEW k \in Coroutines, OperationSucceeds(k) PROVE TypeOK'
  BY <1>18, BecomesTyped DEF TypeOK, OperationSucceeds
<1>19. ASSUME NEW k \in Coroutines, OperationFails(k) PROVE TypeOK'
  <2>1. strand' \in Seq(Handlers)
    BY <1>19, BecomesTyped DEF OperationFails
  <2>2. link' \in [Conns -> {"closed", "tcp", "ws"}]
    BY <1>19 DEF TypeOK, OperationFails
  <2> QED
    BY <1>19, <2>1, <2>2 DEF TypeOK, OperationFails
<1>20. CASE ResolverAnswers
  BY <1>20, BecomesTyped DEF TypeOK, ResolverAnswers
<1>21. CASE Expire \/ Pong \/ Reconnect
  BY <1>21 DEF TypeOK, Expire, Pong, Reconnect
<1>22. ASSUME NEW m \in Msgs, Write(m) PROVE TypeOK'
  BY <1>22, PostedTyped DEF TypeOK, Write
<1>23. CASE WritePosts
  <2>1. caller \in Msgs
    BY <1>23 DEF TypeOK, WritePosts
  <2> QED
    BY <1>23, <2>1, PostedTyped DEF TypeOK, WritePosts
<1>24. CASE Stop
  BY <1>24 DEF TypeOK, Stop, SetState, Status
<1>25. CASE Overtakes
  BY <1>25, OvertakesTyped DEF TypeOK, Overtakes
<1>26. CASE UNCHANGED vars
  BY <1>26 DEF TypeOK, vars
<1> QED
  BY <1>1, <1>2, <1>3, <1>4, <1>5, <1>6, <1>7, <1>8, <1>9, <1>10, <1>11, <1>12, <1>13,
     <1>14, <1>15, <1>16, <1>17, <1>18, <1>19, <1>20, <1>21, <1>22, <1>23, <1>24, <1>25, <1>26
     DEF Next, HandlerTurn, IoContext, Application, Finished

-----------------------------------------------------------------------------
(* The inductive invariant *)

\* What an Await changes, coroutine by coroutine.
LEMMA AwaitEffect ==
  ASSUME TypeOK, NEW k \in Coroutines, NEW label, NEW c, Await(k, label, c)
  PROVE  /\ pc'[k] = label /\ loc'[k] = c
         /\ \A j \in Coroutines \ {k} : pc'[j] = pc[j] /\ loc'[j] = loc[j]
BY DEF TypeOK, Await

\* HandleRead back at the head of its loop with connection_ untouched.
LEMMA ReadLoopKeeps ==
  ASSUME IInv, TypeOK', ReadLoop, ~Attempting,
         status' \in {status, "Closed"}, outer' \in {outer, NoConn},
         UNCHANGED <<conn, link, writing>>
  PROVE  IInv'
<1>1. \/ status' = "Closed" /\ Await("HandleRead", "done", NoConn)
      \/ Await("HandleRead", "read", conn)
      \/ Await("HandleRead", "poll", conn)
  BY ReadLoopEffect
<1>2. Holds'
  BY <1>1, AwaitEffect, NoneAssumption DEF IInv, TypeOK, Holds, Stages
<1>3. ConnectingOwned' /\ ConnectedIsRead'
  BY <1>1, AwaitEffect DEF IInv, ConnectingOwned, ConnectedIsRead, Attempting, Stages
<1>4. OnlyTrackedOpen'
  BY <1>1 DEF IInv, OnlyTrackedOpen, Open
<1>5. PingOfSession'
  BY <1>1, AwaitEffect DEF IInv, PingOfSession, Attempting, Stages, Open
<1>6. OneWriter'
  BY <1>1, AwaitEffect DEF IInv, OneWriter, Writing
<1>7. NeverDisconnecting'
  BY DEF IInv, NeverDisconnecting
<1> QED
  BY <1>2, <1>3, <1>4, <1>5, <1>6, <1>7 DEF IInv

\* HandleRead takes connection_ for a new attempt, having let go of the last one.
LEMMA StartAttemptKeeps ==
  ASSUME IInv, TypeOK', StartAttempt, Connectable(status), UNCHANGED <<conn, writing>>,
         pc["HandleRead"] \in {"start", "poll", "backoff"},
         \/ link' = link /\ ~Attempting
         \/ link' = Released({loc["HandleRead"]} \ {outer}) /\ outer' = outer
  PROVE  IInv'
<1>1. status' \in {"Connecting", "Closed"} /\ status \notin {"Connected", "Closed"}
  BY StateEffect DEF StartAttempt, Connectable, IInv
<1>2. Await("HandleRead", "resolve", conn)
  BY DEF StartAttempt
<1>3. \A c \in Conns : Open(c)' => Open(c) /\ c \in {conn, outer'}
  BY ReleasedTyped DEF IInv, OnlyTrackedOpen, Open
<1>4. Holds'
  BY <1>2, AwaitEffect DEF IInv, TypeOK, Holds, Attempting, Stages
<1>5. ConnectingOwned' /\ ConnectedIsRead' /\ NeverDisconnecting'
  BY <1>1, <1>2, AwaitEffect DEF IInv, ConnectingOwned, ConnectedIsRead, NeverDisconnecting, Stages
<1>6. OnlyTrackedOpen'
  BY <1>2, <1>3, AwaitEffect DEF IInv, OnlyTrackedOpen, Attempting, Stages
<1>7. PingOfSession'
  <2>1. pc["Monitor"] = "ping" => loc["Monitor"] # conn /\ loc["Monitor"] \in Conns
    BY <1>1 DEF IInv, PingOfSession, Holds
  <2>2. pc'["Monitor"] = pc["Monitor"] /\ loc'["Monitor"] = loc["Monitor"] /\ loc'["HandleRead"] = conn
    BY <1>2, AwaitEffect DEF IInv
  <2> QED
    BY <1>3, <2>1, <2>2 DEF IInv, PingOfSession
<1>8. OneWriter'
  BY <1>2, AwaitEffect DEF IInv, OneWriter, Writing
<1> QED
  BY <1>4, <1>5, <1>6, <1>7, <1>8 DEF IInv

\* A coroutine closes the session: connection_ is fresh and closed afterwards.
LEMMA CloseKeeps ==
  ASSUME IInv, TypeOK', NEW rest \in Seq(Handlers), Close(rest), NEW k \in Coroutines,
         NEW label, NEW c, Await(k, label, c),
         \/ k = "HandleRead" /\ pc[k] = "read" /\ <<label, c>> \in {<<"poll", conn'>>, <<"done", NoConn>>}
         \/ k = "HandleRead" /\ pc[k] \in Stages /\ label = "backoff" /\ c = loc[k]
         \/ k = "Monitor" /\ label \in {"sleep", "done"} /\ c = NoConn
         \/ k \in Writers /\ pc[k] = "write" /\ label = "idle" /\ c = NoConn,
         \/ k \notin Writers /\ UNCHANGED writing
         \/ k \in Writers /\ pc[k] = "write" /\ writing' = FALSE,
         UNCHANGED outer
  PROVE  IInv'
<1>1. status' \in {"Closed", "Disconnected"}
  BY CloseEffect DEF IInv
<1>2. \A d \in Conns : Open(d)' <=> Open(d) /\ d # conn
  BY CloseEffect DEF IInv, TypeOK, Open
<1>3. conn' # conn /\ \A j \in Coroutines : conn' # loc[j]
  BY CloseEffect DEF IInv
<1>4. pc'[k] = label /\ loc'[k] = c /\ \A j \in Coroutines \ {k} : pc'[j] = pc[j] /\ loc'[j] = loc[j]
  BY AwaitEffect DEF IInv
<1>5. Holds'
  <2>1. conn' \in Conns
    BY CloseEffect DEF IInv
  <2> QED
    BY <1>4, <2>1, NoneAssumption DEF IInv, TypeOK, Holds, Attempting, Stages
<1>6. ConnectingOwned' /\ ConnectedIsRead' /\ NeverDisconnecting'
  BY <1>1 DEF ConnectingOwned, ConnectedIsRead, NeverDisconnecting
<1>7. OnlyTrackedOpen'
  BY <1>2, <1>4 DEF IInv, OnlyTrackedOpen, Attempting, Stages
<1>8. PingOfSession'
  BY <1>1, <1>2, <1>3, <1>4 DEF IInv, PingOfSession, Attempting, Stages, Holds
<1>9. OneWriter'
  BY <1>4 DEF IInv, OneWriter, Writing
<1> QED
  BY <1>5, <1>6, <1>7, <1>8, <1>9 DEF IInv

\* Monitor at the end of its round.
LEMMA JudgeKeeps ==
  ASSUME IInv, TypeOK', strand # <<>>, NEW c, NEW late, Judge(c, late), UNCHANGED <<writing, outer>>
  PROVE  IInv'
<1>1. \E label \in {"sleep", "done"} : Await("Monitor", label, NoConn)
  BY DEF Judge
<1>2. CASE MustClose(c, late)
  <2>1. Close(Rest) /\ Rest \in Seq(Handlers)
    BY <1>2, TurnTakes DEF IInv, Judge
  <2> QED
    BY <1>1, <2>1, CloseKeeps
<1>3. CASE ~MustClose(c, late)
  <2>1. status' \in {status, "Closed"} /\ UNCHANGED <<conn, link>>
    BY <1>3, LookEffect DEF Judge
  <2>2. /\ pc'["Monitor"] \in {"sleep", "done"} /\ loc'["Monitor"] = NoConn
        /\ \A j \in Coroutines \ {"Monitor"} : pc'[j] = pc[j] /\ loc'[j] = loc[j]
    BY <1>1, AwaitEffect DEF IInv
  <2>3. Holds'
    BY <2>2, NoneAssumption DEF IInv, Holds, Attempting, Stages
  <2>4. ConnectingOwned' /\ ConnectedIsRead' /\ OnlyTrackedOpen'
    BY <2>1, <2>2 DEF IInv, ConnectingOwned, ConnectedIsRead, OnlyTrackedOpen, Attempting, Open
  <2>5. PingOfSession' /\ OneWriter'
    BY <2>2 DEF IInv, PingOfSession, OneWriter, Writing
  <2> QED
    BY <2>1, <2>3, <2>4, <2>5 DEF IInv, NeverDisconnecting
<1> QED
  BY <1>2, <1>3

\* HandleWrite at the head of its loop, with no other HandleWrite at work.
LEMMA WriteLoopKeeps ==
  ASSUME IInv, TypeOK', NEW w \in Writers, NEW q, WriteLoop(w, q),
         UNCHANGED <<status, conn, link, outer>>,
         \A v \in Writers \ {w} : ~Writing(v)
  PROVE  IInv'
<1>1. \/ Await(w, "write", conn) /\ writing' = TRUE
      \/ Await(w, "idle", NoConn) /\ writing' = FALSE
  BY DEF WriteLoop
<1>2. Holds'
  BY <1>1, AwaitEffect, NoneAssumption DEF IInv, TypeOK, Holds, Attempting, Stages
<1>3. /\ pc'["HandleRead"] = pc["HandleRead"] /\ loc'["HandleRead"] = loc["HandleRead"]
      /\ pc'["Monitor"] = pc["Monitor"] /\ loc'["Monitor"] = loc["Monitor"]
  BY <1>1, AwaitEffect DEF IInv
<1>4. ConnectingOwned' /\ ConnectedIsRead' /\ OnlyTrackedOpen' /\ PingOfSession'
  BY <1>3 DEF IInv, ConnectingOwned, ConnectedIsRead, OnlyTrackedOpen, PingOfSession, Attempting, Open
<1>5. OneWriter'
  BY <1>1, AwaitEffect DEF IInv, OneWriter, Writing
<1> QED
  BY <1>2, <1>4, <1>5 DEF IInv, NeverDisconnecting

\* A step that touches no coroutine and opens no socket.
LEMMA FrameKeeps ==
  ASSUME IInv, TypeOK', UNCHANGED <<conn, pc, loc, outer, writing>>,
         status' \in {status, "Closed"},
         \A c \in Conns : Open(c)' => Open(c)
  PROVE  IInv'
<1>1. Holds' /\ OneWriter'
  BY DEF IInv, Holds, OneWriter, Writing, Attempting
<1>2. ConnectingOwned' /\ ConnectedIsRead' /\ OnlyTrackedOpen' /\ NeverDisconnecting'
  BY DEF IInv, ConnectingOwned, ConnectedIsRead, OnlyTrackedOpen, NeverDisconnecting, Attempting
<1>3. PingOfSession'
  BY DEF IInv, PingOfSession, Attempting, Holds
<1> QED
  BY <1>1, <1>2, <1>3 DEF IInv

\* HandleRead goes from one stage of its attempt to the next; the connection it
\* holds may be opened.
LEMMA StageKeeps ==
  ASSUME IInv, TypeOK', pc["HandleRead"] \in Stages, NEW label \in Stages,
         Await("HandleRead", label, loc["HandleRead"]),
         UNCHANGED <<status, conn, outer, writing>>,
         link' \in {link, [link EXCEPT ![loc["HandleRead"]] = "tcp"]}
  PROVE  IInv'
<1>1. /\ pc'["HandleRead"] = label /\ loc'["HandleRead"] = loc["HandleRead"]
      /\ \A j \in Coroutines \ {"HandleRead"} : pc'[j] = pc[j] /\ loc'[j] = loc[j]
  BY AwaitEffect DEF IInv
<1>2. \A c \in Conns : Open(c)' => Open(c) \/ c = loc["HandleRead"]
  BY DEF IInv, TypeOK, Open
<1>3. Holds' /\ OneWriter'
  BY <1>1 DEF IInv, Holds, OneWriter, Writing, Attempting, Stages
<1>4. ConnectingOwned' /\ ConnectedIsRead' /\ OnlyTrackedOpen'
  BY <1>1, <1>2 DEF IInv, ConnectingOwned, ConnectedIsRead, OnlyTrackedOpen, Attempting, Stages
<1>5. PingOfSession'
  BY <1>1, <1>2 DEF IInv, PingOfSession, Attempting, Holds, Stages
<1> QED
  BY <1>3, <1>4, <1>5 DEF IInv, NeverDisconnecting

\* HandleRead leaves an attempt for the head of its loop, the connection it held let go.
LEMMA ReadLoopReleased ==
  ASSUME IInv, TypeOK', ReadLoop, Attempting, UNCHANGED <<conn, writing>>, outer' = NoConn,
         status' \in {"Connected", "Closed"},
         \A c \in Conns : Open(c)' => c = conn
  PROVE  IInv'
<1>1. \/ status' = "Closed" /\ Await("HandleRead", "done", NoConn)
      \/ Await("HandleRead", "read", conn)
      \/ Await("HandleRead", "poll", conn)
  BY ReadLoopEffect
<1>2. /\ pc'["HandleRead"] \in {"done", "read", "poll"}
      /\ status' = "Connected" => pc'["HandleRead"] \in {"read", "poll"}
      /\ pc'["Monitor"] = pc["Monitor"] /\ loc'["Monitor"] = loc["Monitor"]
  BY <1>1, AwaitEffect DEF IInv
<1>3. Holds'
  BY <1>1, AwaitEffect, NoneAssumption DEF IInv, TypeOK, Holds, Stages
<1>4. ConnectingOwned' /\ ConnectedIsRead' /\ NeverDisconnecting' /\ OnlyTrackedOpen'
  BY <1>2 DEF ConnectingOwned, ConnectedIsRead, NeverDisconnecting, OnlyTrackedOpen
<1>5. PingOfSession'
  <2>1. pc["Monitor"] = "ping" => loc["Monitor"] # conn /\ loc["Monitor"] \in Conns
    BY DEF IInv, PingOfSession, Holds, Attempting, Stages
  <2> QED
    BY <1>2, <2>1 DEF PingOfSession, Attempting, Stages
<1>6. OneWriter'
  BY <1>1, AwaitEffect DEF IInv, OneWriter, Writing
<1> QED
  BY <1>3, <1>4, <1>5, <1>6 DEF IInv

\* Monitor leaves its sleep, or its start, with the session untouched.
LEMMA MonitorMoves ==
  ASSUME IInv, TypeOK', UNCHANGED <<status, conn, link, outer, writing>>, NEW label, NEW c,
         Await("Monitor", label, c),
         \/ label \in {"sleep", "done"} /\ c = NoConn
         \/ label = "ping" /\ c = conn /\ status = "Connected"
  PROVE  IInv'
<1>1. /\ pc'["Monitor"] = label /\ loc'["Monitor"] = c
      /\ \A j \in Coroutines \ {"Monitor"} : pc'[j] = pc[j] /\ loc'[j] = loc[j]
  BY AwaitEffect DEF IInv
<1>2. Holds'
  BY <1>1, NoneAssumption DEF IInv, TypeOK, Holds, Attempting, Stages
<1>3. ConnectingOwned' /\ ConnectedIsRead' /\ OnlyTrackedOpen' /\ OneWriter'
  BY <1>1 DEF IInv, ConnectingOwned, ConnectedIsRead, OnlyTrackedOpen, OneWriter, Writing, Attempting, Open
<1>4. PingOfSession'
  BY <1>1 DEF IInv, PingOfSession, ConnectedIsRead
<1> QED
  BY <1>2, <1>3, <1>4 DEF IInv, NeverDisconnecting

\* Every step of the client preserves the inductive invariant.
LEMMA InvStep == IInv /\ [Next]_vars => IInv'
<1>. SUFFICES ASSUME IInv, [Next]_vars PROVE IInv'
  OBVIOUS
<1>0. TypeOK /\ TypeOK'
  BY TypeStep DEF IInv
<1>. USE DEF Turn
<1>1. CASE HandleReadStart
  <2>1. CASE Connectable(status)
    BY <1>0, <1>1, <2>1, StartAttemptKeeps DEF HandleReadStart, ConnectOrReturn, Attempting, Stages
  <2>2. CASE ~Connectable(status)
    BY <1>0, <1>1, <2>2, ReadLoopKeeps DEF HandleReadStart, ConnectOrReturn, Attempting, Stages
  <2> QED
    BY <2>1, <2>2
<1>2. CASE Polled
  <2>1. CASE status = "Disconnected"
    BY <1>0, <1>2, <2>1, StartAttemptKeeps DEF Polled, ConnectOrReturn, Connectable, Attempting, Stages
  <2>2. CASE status # "Disconnected"
    BY <1>0, <1>2, <2>2, ReadLoopKeeps, LookEffect DEF Polled, Attempting, Stages
  <2> QED
    BY <2>1, <2>2
<1>3. CASE Resolved
  BY <1>0, <1>3, StageKeeps DEF Resolved, Stages
<1>4. CASE Accepted
  BY <1>0, <1>4, StageKeeps DEF Accepted, Stages
<1>5. CASE Secured
  BY <1>0, <1>5, StageKeeps DEF Secured, Stages
<1>6. CASE AttemptFails
  <2>1. Rest \in Seq(Handlers)
    BY <1>0, <1>6, TurnTakes DEF AttemptFails
  <2> QED
    BY <1>0, <1>6, <2>1, CloseKeeps DEF AttemptFails
<1>7. CASE Established
  <2>1. status \in {"Connecting", "Disconnected", "Initialized", "Closed"} /\ Attempting
    BY <1>0, <1>7 DEF Established, IInv, TypeOK, Status, ConnectedIsRead, NeverDisconnecting, Attempting, Stages
  <2>2. status' \in {"Connected", "Closed"}
    BY <1>0, <1>7, StateEffect DEF Established
  <2>3. \A c \in Conns : Open(c)' => c = conn
    <3>1. \A c \in Conns \ {conn} : link'[c] = Released({loc["HandleRead"], outer})[c]
      BY <1>0, <1>7, ReleasedTyped DEF Established
    <3> QED
      BY <1>0, <3>1, ReleasedTyped DEF IInv, OnlyTrackedOpen, Open
  <2> QED
    BY <1>0, <1>7, <2>1, <2>2, <2>3, ReadLoopReleased DEF Established
<1>8. CASE BackedOff
  <2>1. loc["HandleRead"] \in Conns /\ Attempting
    BY <1>8 DEF BackedOff, IInv, Holds, Attempting
  <2>2. CASE Connectable(status)
    <3>1. /\ StartAttempt /\ UNCHANGED <<conn, writing, outer>>
          /\ link' = Released({loc["HandleRead"]} \ {outer})
      BY <1>8, <2>2 DEF BackedOff, ConnectOrReturn
    <3> QED
      BY <1>0, <1>8, <2>2, <3>1, StartAttemptKeeps DEF BackedOff
  <2>3. CASE ~Connectable(status)
    <3>1. status = "Closed"
      BY <1>0, <1>8, <2>3 DEF BackedOff, Connectable, IInv, TypeOK, Status, ConnectingOwned,
                              ConnectedIsRead, NeverDisconnecting, Stages
    <3>2. status' = "Closed" /\ ReadLoop /\ outer' = NoConn /\ UNCHANGED <<conn, writing>>
      BY <1>8, <2>3, <3>1 DEF BackedOff, ConnectOrReturn
    <3>3. \A c \in Conns : Open(c)' => c = conn
      BY <1>0, <1>8, <2>3, ReleasedTyped DEF BackedOff, IInv, OnlyTrackedOpen, Open
    <3> QED
      BY <1>0, <2>1, <3>2, <3>3, ReadLoopReleased
  <2> QED
    BY <2>2, <2>3
<1>9. CASE ReadDone
  BY <1>0, <1>9, ReadLoopKeeps, LookEffect DEF ReadDone, Attempting, Stages
<1>10. CASE ReadFails
  <2>1. Rest \in Seq(Handlers) /\ Close(Rest)
    BY <1>0, <1>10, TurnTakes DEF ReadFails
  <2>2. link'[conn'] = "closed"
    BY <1>0, <1>10, <2>1, CloseEffect DEF ReadFails, IInv, TypeOK, OnlyTrackedOpen, Open, Attempting, Stages
  <2>3. Await("HandleRead", "poll", conn') \/ Await("HandleRead", "done", NoConn)
    BY <1>10, <2>2, ReadLoopEffect DEF ReadFails
  <2> QED
    BY <1>0, <1>10, <2>1, <2>3, CloseKeeps DEF ReadFails
<1>11. CASE MonitorStart
  <2>1. \E label \in {"sleep", "done"} : Await("Monitor", label, NoConn)
    BY <1>11 DEF MonitorStart
  <2> QED
    BY <1>0, <1>11, <2>1, MonitorMoves DEF MonitorStart
<1>12. CASE MonitorWakes
  <2>1. CASE status = "Connected" /\ link[conn] = "ws"
    BY <1>0, <1>12, <2>1, MonitorMoves DEF MonitorWakes
  <2>2. CASE ~(status = "Connected" /\ link[conn] = "ws")
    BY <1>0, <1>12, <2>2, JudgeKeeps DEF MonitorWakes
  <2> QED
    BY <2>1, <2>2
<1>13. CASE Pinged
  BY <1>0, <1>13, JudgeKeeps DEF Pinged
<1>14. CASE RunPosted
  <2>1. CASE writing
    BY <1>0, <1>14, <2>1, FrameKeeps DEF RunPosted, Open
  <2>2. CASE ~writing
    <3>1. \A v \in Writers : ~Writing(v)
      BY <2>2 DEF IInv, OneWriter
    <3>2. \E w \in Writers : WriteLoop(w, Append(queue, Head(strand).msg))
      BY <1>14, <2>2 DEF RunPosted
    <3> QED
      BY <1>0, <1>14, <3>1, <3>2, WriteLoopKeeps DEF RunPosted
  <2> QED
    BY <2>1, <2>2
<1>15. ASSUME NEW w \in Writers, Wrote(w) PROVE IInv'
  <2>1. \A v \in Writers \ {w} : ~Writing(v)
    BY <1>15 DEF Wrote, IInv, OneWriter, Writing
  <2> QED
    BY <1>0, <1>15, <2>1, WriteLoopKeeps DEF Wrote
<1>16. ASSUME NEW w \in Writers, WriteFails(w) PROVE IInv'
  <2>1. Rest \in Seq(Handlers)
    BY <1>0, <1>16, TurnTakes DEF WriteFails
  <2> QED
    BY <1>0, <1>16, <2>1, CloseKeeps DEF WriteFails
<1>17. ASSUME NEW k \in Coroutines, TimerFires(k) PROVE IInv'
  BY <1>0, <1>17, FrameKeeps DEF TimerFires, Open
<1>18. ASSUME NEW k \in Coroutines, OperationSucceeds(k) PROVE IInv'
  BY <1>0, <1>18, FrameKeeps DEF OperationSucceeds, Open
<1>19. ASSUME NEW k \in Coroutines, OperationFails(k) PROVE IInv'
  <2>1. \A c \in Conns : Open(c)' => Open(c)
    BY <1>0, <1>19 DEF OperationFails, TypeOK, Open
  <2> QED
    BY <1>0, <1>19, <2>1, FrameKeeps DEF OperationFails
<1>20. CASE ResolverAnswers
  BY <1>0, <1>20, FrameKeeps DEF ResolverAnswers, Open
<1>21. CASE Expire \/ Pong \/ Reconnect
  BY <1>0, <1>21, FrameKeeps DEF Expire, Pong, Reconnect, Open
<1>22. ASSUME NEW m \in Msgs, Write(m) PROVE IInv'
  BY <1>0, <1>22, FrameKeeps DEF Write, Open
<1>23. CASE WritePosts
  BY <1>0, <1>23, FrameKeeps DEF WritePosts, Open
<1>24. CASE Stop
  BY <1>0, <1>24, FrameKeeps DEF Stop, SetState, Open
<1>25. CASE Overtakes
  BY <1>0, <1>25, FrameKeeps DEF Overtakes, Open
<1>26. CASE UNCHANGED vars
  BY <1>0, <1>26, FrameKeeps DEF vars, Open
<1> QED
  BY <1>1, <1>2, <1>3, <1>4, <1>5, <1>6, <1>7, <1>8, <1>9, <1>10, <1>11, <1>12, <1>13,
     <1>14, <1>15, <1>16, <1>17, <1>18, <1>19, <1>20, <1>21, <1>22, <1>23, <1>24, <1>25, <1>26
     DEF Next, HandlerTurn, IoContext, Application, Finished

-----------------------------------------------------------------------------
(* Theorems of the specification *)

\* The initial states satisfy the inductive invariant.
LEMMA InitInv == Init => IInv
<1>. SUFFICES ASSUME Init PROVE IInv
  OBVIOUS
<1>1. conn \in Conns
  BY AllocatorAssumption DEF Init
<1>2. index \in Index
  BY BookAssumption DEF Init, InitIndex, Index
<1>3. strand \in Seq(Handlers)
  <2>1. Ready("HandleRead", TRUE) \in Handlers /\ Ready("Monitor", TRUE) \in Handlers
    BY DEF Ready, Handlers
  <2>2. \A a, b \in Handlers : <<a, b>> \in Seq(Handlers)
    OBVIOUS
  <2> QED
    BY <2>1, <2>2 DEF Init
<1>4. pc \in [Coroutines -> Places] /\ \A k \in Coroutines : pc[k] \in Labels[k]
  BY LabelsOf DEF Init, Places
<1>5. queue \in Seq(Msgs)
  BY DEF Init
<1>6. TypeOK
  BY <1>1, <1>2, <1>3, <1>4, <1>5 DEF Init, TypeOK, Status
<1>7. Holds
  BY NoneAssumption DEF Init, Holds, Stages
<1>8. NeverDisconnecting /\ ConnectingOwned /\ ConnectedIsRead /\ OnlyTrackedOpen /\ PingOfSession
  BY DEF Init, NeverDisconnecting, ConnectingOwned, ConnectedIsRead, OnlyTrackedOpen, PingOfSession, Open
<1>9. OneWriter
  BY DEF Init, OneWriter, Writing
<1> QED
  BY <1>6, <1>7, <1>8, <1>9 DEF IInv

\* The inductive invariant holds: what each coroutine of Client holds where it
\* awaits agrees with the status and with connection_.
THEOREM Invariance == Spec => []IInv
<1>1. IInv /\ [Next]_vars => IInv'
  BY InvStep
<1> QED
  BY <1>1, InitInv, PTL DEF Spec

\* The state of Client is well typed whatever its threads and its peer do; the
\* position in the address book stays inside it.
THEOREM TypeCorrect == Spec => []TypeOK
<1>1. IInv => TypeOK
  BY DEF IInv
<1> QED
  BY <1>1, Invariance, PTL

\* HandleWrite never runs twice at a time, so no two async_writes interleave.
THEOREM SingleWriter == Spec => []OneWriter
<1>1. IInv => OneWriter
  BY DEF IInv
<1> QED
  BY <1>1, Invariance, PTL

\* Connecting always has a HandleRead that will end it, on the current connection.
THEOREM ConnectingHasOwner == Spec => []ConnectingOwned
<1>1. IInv => ConnectingOwned
  BY DEF IInv
<1> QED
  BY <1>1, Invariance, PTL

\* No socket is left open that neither connection_ nor, during an attempt, a local of
\* Connect or of the HandleRead that called it refers to.
THEOREM NoSocketLeak == Spec => []OnlyTrackedOpen
<1>1. IInv => OnlyTrackedOpen
  BY DEF IInv
<1> QED
  BY <1>1, Invariance, PTL

\* Monitor never drops a session for the age of another one's connection.
THEOREM MonitorNeverMisjudges == Spec => []MonitorJudgesCurrent
<1>1. IInv => MonitorJudgesCurrent
  BY DEF IInv, PingOfSession, MonitorJudgesCurrent
<1> QED
  BY <1>1, Invariance, PTL

\* No step leaves Closed, and none begins an attempt there.
LEMMA ClosedStays ==
  ASSUME IInv, [Next]_vars, status = "Closed"
  PROVE  /\ status' = "Closed"
         /\ pc'["HandleRead"] = "resolve" => pc["HandleRead"] = "resolve"
<1>. TypeOK
  BY DEF IInv
<1>1. ~Connectable(status)
  BY DEF Connectable
<1>2. ASSUME NEW rest, Close(rest) PROVE status' = "Closed"
  BY <1>2, StateEffect DEF Close
<1>3. Look => status' = "Closed"
  BY LookEffect
<1>4. ReadLoop => pc'["HandleRead"] # "resolve"
  BY ReadLoopEffect, AwaitEffect
<1>5. ASSUME NEW k \in Coroutines, NEW label, NEW c, Await(k, label, c), label # "resolve"
      PROVE  pc'["HandleRead"] = "resolve" => pc["HandleRead"] = "resolve"
  BY <1>5 DEF Await, TypeOK
<1>6. CASE HandleReadStart \/ Polled \/ BackedOff \/ ReadDone
  BY <1>1, <1>3, <1>4, <1>6 DEF HandleReadStart, Polled, BackedOff, ReadDone, ConnectOrReturn
<1>7. CASE Resolved \/ Accepted \/ Secured
  BY <1>5, <1>7 DEF Resolved, Accepted, Secured
<1>8. CASE AttemptFails
  BY <1>2, <1>5, <1>8 DEF AttemptFails
<1>9. CASE Established
  BY <1>4, <1>9, StateEffect DEF Established
<1>10. CASE ReadFails
  BY <1>2, <1>4, <1>10 DEF ReadFails
<1>11. CASE MonitorStart
  BY <1>5, <1>11 DEF MonitorStart
<1>12. ASSUME NEW c, NEW late, Judge(c, late)
       PROVE  status' = "Closed" /\ (pc'["HandleRead"] = "resolve" => pc["HandleRead"] = "resolve")
  BY <1>2, <1>3, <1>5, <1>12 DEF Judge
<1>13. CASE MonitorWakes \/ Pinged
  BY <1>12, <1>13 DEF MonitorWakes, Pinged
<1>14. CASE RunPosted \/ \E w \in Writers : Wrote(w) \/ WriteFails(w)
  <2>1. ASSUME NEW w \in Writers, NEW q, WriteLoop(w, q)
        PROVE  pc'["HandleRead"] = "resolve" => pc["HandleRead"] = "resolve"
    BY <1>5, <2>1 DEF WriteLoop
  <2>2. CASE RunPosted
    BY <2>1, <2>2 DEF RunPosted
  <2>3. ASSUME NEW w \in Writers, Wrote(w) \/ WriteFails(w)
        PROVE  status' = "Closed" /\ (pc'["HandleRead"] = "resolve" => pc["HandleRead"] = "resolve")
    BY <1>2, <1>5, <2>1, <2>3 DEF Wrote, WriteFails
  <2> QED
    BY <1>14, <2>2, <2>3
<1>15. CASE IoContext
  BY <1>15 DEF IoContext, TimerFires, OperationSucceeds, OperationFails, ResolverAnswers, Expire,
               Pong, Overtakes
<1>16. CASE Application \/ Finished \/ UNCHANGED vars
  BY <1>16 DEF Application, Write, WritePosts, Reconnect, Stop, SetState, Finished, vars
<1> QED
  BY <1>6, <1>7, <1>8, <1>9, <1>10, <1>11, <1>13, <1>14, <1>15, <1>16 DEF Next, HandlerTurn

\* With one thread nothing comes amid a turn: only Stop records itself, and it leaves
\* Closed.
LEMMA StopRecorded ==
  ASSUME ~Pool, [Next]_vars, stopped' # stopped
  PROVE  status' = "Closed"
<1>1. ASSUME NEW s, State(s) PROVE stopped' = stopped
  BY <1>1 DEF State, StopAmid
<1>2. Look => stopped' = stopped
  BY DEF Look, StopAmid
<1>3. CASE HandlerTurn
  <2>1. ASSUME NEW o, ConnectOrReturn(o) PROVE stopped' = stopped
    BY <1>1, <2>1 DEF ConnectOrReturn, StartAttempt
  <2>2. ASSUME NEW c, NEW late, Judge(c, late) PROVE stopped' = stopped
    BY <1>1, <1>2, <2>2 DEF Judge, Close
  <2>3. stopped' = stopped
    BY <1>1, <1>2, <1>3, <2>1, <2>2
       DEF HandlerTurn, HandleReadStart, Polled, Resolved, Accepted, Secured, AttemptFails,
           Established, BackedOff, ReadDone, ReadFails, MonitorStart, MonitorWakes, Pinged,
           RunPosted, Wrote, WriteFails, Close
  <2> QED
    BY <2>3
<1>4. CASE IoContext
  BY <1>4 DEF IoContext, TimerFires, OperationSucceeds, OperationFails, ResolverAnswers, Expire,
              Pong, Overtakes
<1>5. CASE Application \/ Finished \/ UNCHANGED vars
  BY <1>5 DEF Application, Write, WritePosts, Reconnect, Stop, SetState, Finished, vars
<1> QED
  BY <1>3, <1>4, <1>5 DEF Next

\* With one thread Stop is not undone: from then on the status is Closed, and Connect
\* begins no further attempt, whatever the turns under way had yet to assign.
THEOREM StopFinal == ~Pool => (Spec => StopIsFinal)
<1>. SUFFICES ASSUME ~Pool PROVE Spec => StopIsFinal
  OBVIOUS
<1> DEFINE StoppedIsClosed == stopped => status = "Closed"
<1>1. Init => StoppedIsClosed
  BY DEF Init
<1>2. IInv /\ StoppedIsClosed /\ [Next]_vars => StoppedIsClosed'
  BY ClosedStays, StopRecorded
<1>3. IInv /\ StoppedIsClosed /\ [Next]_vars =>
        [stopped => /\ status' = "Closed"
                    /\ pc'["HandleRead"] = "resolve" => pc["HandleRead"] = "resolve"]_vars
  BY ClosedStays
<1> QED
  BY <1>1, <1>2, <1>3, Invariance, PTL DEF Spec, StopIsFinal
=============================================================================
