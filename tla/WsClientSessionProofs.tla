----------------------- MODULE WsClientSessionProofs -------------------------
(***************************************************************************)
(* With one thread and no Reconnect the websocket client implements        *)
(* WsSession: every turn of its coroutines, every step of the io_context   *)
(* and of the application is a step of a session, or none.                 *)
(***************************************************************************)
EXTENDS WsClientSession, WsClientOrderProofs, HandlerQueueProofs

USE DEF Coroutines, Writers, Enqueue, Dequeued, Cleared

-----------------------------------------------------------------------------
(* The messages posted, as the strand changes *)

Posts(q) == Picked(q, MsgOf)

LEMMA MsgOfPosts ==
  /\ Into(MsgOf, Msgs)
  /\ \A h \in Handlers : h \in DOMAIN MsgOf <=> h.co = "post"
  /\ \A h \in Handlers : h.co = "post" => h.msg \in Msgs /\ MsgOf[h] = h.msg
<1>1. DOMAIN MsgOf = {Posted(m) : m \in Msgs}
  BY DEF MsgOf
<1>2. \A m \in Msgs : Posted(m).co = "post" /\ Posted(m).msg = m
  BY DEF Posted
<1>3. \A h \in DOMAIN MsgOf : MsgOf[h] = h.msg
  BY DEF MsgOf
<1>4. \A h \in Handlers : h.co = "post" => h.msg \in Msgs /\ h = Posted(h.msg)
  <2>. SUFFICES ASSUME NEW h \in Handlers, h.co = "post"
                PROVE  h.msg \in Msgs /\ h = Posted(h.msg)
    OBVIOUS
  <2>1. h \in [co : {"post"}, ok : {TRUE}, msg : Msgs]
    BY DEF Handlers
  <2>2. h = [co |-> h.co, ok |-> h.ok, msg |-> h.msg] /\ h.ok = TRUE /\ h.msg \in Msgs
    BY <2>1
  <2> QED
    BY <2>2 DEF Posted
<1>5. Into(MsgOf, Msgs)
  BY <1>1, <1>2, <1>3 DEF Into
<1> QED
  BY <1>1, <1>2, <1>3, <1>4, <1>5

LEMMA PostsTyped ==
  ASSUME NEW q \in Seq(Handlers)
  PROVE  Posts(q) \in Seq(Msgs)
BY MsgOfPosts, PickedType DEF Posts

\* A resumption does not show; a posted function does.
LEMMA PostsAppended ==
  ASSUME NEW q \in Seq(Handlers), NEW h \in Handlers
  PROVE  Posts(Append(q, h)) = IF h.co = "post" THEN Append(Posts(q), h.msg) ELSE Posts(q)
<1>1. Picked(Append(q, h), MsgOf) =
        IF h \in DOMAIN MsgOf THEN Append(Picked(q, MsgOf), MsgOf[h]) ELSE Picked(q, MsgOf)
  BY MsgOfPosts, PickedAppend
<1> QED
  BY <1>1, MsgOfPosts DEF Posts

LEMMA PostsTaken ==
  ASSUME NEW q \in Seq(Handlers), q # <<>>
  PROVE  /\ Head(q).co # "post" => Posts(Tail(q)) = Posts(q)
         /\ Head(q).co = "post" => Posts(q) = <<Head(q).msg>> \o Posts(Tail(q))
<1>1. Picked(q, MsgOf) = IF Head(q) \in DOMAIN MsgOf
                         THEN <<MsgOf[Head(q)]>> \o Picked(Tail(q), MsgOf)
                         ELSE Picked(Tail(q), MsgOf)
  BY MsgOfPosts, PickedTake
<1>2. Head(q) \in Handlers
  OBVIOUS
<1> QED
  BY <1>1, <1>2, MsgOfPosts DEF Posts

LEMMA PostsNone ==
  ASSUME NEW q \in Seq(Handlers), ~Has(q, "post")
  PROVE  Posts(q) = <<>>
<1>1. \A i \in 1 .. Len(q) : q[i] \in Handlers /\ q[i].co # "post"
  BY DEF Has
<1>2. \A i \in 1 .. Len(q) : q[i] \notin DOMAIN MsgOf
  BY <1>1, MsgOfPosts
<1> QED
  BY <1>2, MsgOfPosts, PickedNone DEF Posts

\* The handlers of aborted operations do not show.
LEMMA PostsClosed ==
  ASSUME NEW rest \in Seq(Handlers), Close(rest)
  PROVE  Posts(strand') = Posts(rest)
<1> DEFINE a == Aborts(conn)
<1>1. a \in Seq(Handlers) /\ strand' = rest \o a
  BY AbortsAreHandlers DEF Close
<1>2. "post" \notin Coroutines
  OBVIOUS
<1>3. ~Has(a, "post")
  BY <1>2, AbortsHold
<1> HIDE DEF a
<1>4. Posts(a) = <<>>
  BY <1>1, <1>3, PostsNone
<1>5. Posts(rest \o a) = Posts(rest) \o Posts(a)
  BY <1>1, MsgOfPosts, PickedBehind DEF Posts
<1>6. Posts(rest) \in Seq(Msgs)
  BY PostsTyped
<1>7. Posts(rest) \o <<>> = Posts(rest)
  BY <1>6, ConcatEmptySeq
<1> QED
  BY <1>1, <1>4, <1>5, <1>7

\* What is behind a queue is a suffix of both.
LEMMA SuffixBehind ==
  ASSUME NEW a \in Seq(Msgs), NEW b \in Seq(Msgs)
  PROVE  b \in Session!Suffixes(a \o b)
<1>1. SubSeq(a \o b, Len(a) + 1, Len(a \o b)) = b
  OBVIOUS
<1>2. Len(a) + 1 \in 1 .. Len(a \o b) + 1
  OBVIOUS
<1> QED
  BY <1>1, <1>2 DEF Session!Suffixes

-----------------------------------------------------------------------------
(* The steps *)

Pending == queue \o PostedMsgs

\* Only HandleRead's first turn leaves Initialized.
NotStarted == status = "Initialized" => pc["HandleRead"] = "start"

SInv == AInv /\ NotStarted

\* A turn of a coroutine that leaves the strand's rest is none to the posts.
LEMMA TurnKeepsPosts ==
  ASSUME TypeOK, strand # <<>>, Head(strand).co # "post", strand' = Rest \/ Close(Rest)
  PROVE  PostedMsgs' = PostedMsgs
<1>1. strand \in Seq(Handlers) /\ Rest \in Seq(Handlers)
  BY TurnTakes DEF TypeOK
<1>2. Posts(Rest) = Posts(strand)
  BY <1>1, PostsTaken DEF Rest
<1>3. Posts(strand') = Posts(Rest)
  BY <1>1, PostsClosed
<1> QED
  BY <1>2, <1>3 DEF Posts, PostedMsgs

LEMMA PendingTyped ==
  ASSUME TypeOK
  PROVE  PostedMsgs \in Seq(Msgs) /\ queue \in Seq(Msgs)
BY PostsTyped DEF TypeOK, Posts, PostedMsgs

\* A Close ends a session or an attempt, or discards what a stopped client had pending.
LEMMA CloseLoses ==
  ASSUME SInv, ClosedIn, Head(strand).co # "post", status # "Initialized"
  PROVE  Session!Next
<1>1. ~Pool /\ TypeOK /\ Rest \in Seq(Handlers) /\ status # "Disconnecting"
  BY TurnTakes DEF SInv, AInv, OInv, IInv, ClosedIn, NeverDisconnecting
<1>2. status' = (IF status = "Closed" THEN "Closed" ELSE "Disconnected") /\ queue' = <<>>
  BY <1>1, CloseEffect, CloseStatus DEF ClosedIn
<1>3. PostedMsgs' = PostedMsgs
  BY <1>1, TurnKeepsPosts DEF ClosedIn
<1>4. queue' \o PostedMsgs' \in Session!Suffixes(queue \o PostedMsgs)
  <2>1. <<>> \o PostedMsgs = PostedMsgs
    BY <1>1, PendingTyped
  <2> QED
    BY <1>1, <1>2, <1>3, <2>1, PendingTyped, SuffixBehind
<1>5. CASE status = "Closed"
  BY <1>2, <1>4, <1>5 DEF Session!Next, Session!Discard
<1>6. CASE status # "Closed"
  <2>1. status \in {"Connecting", "Connected", "Disconnected"}
    BY <1>1, <1>6 DEF TypeOK, Status
  <2> QED
    BY <1>2, <1>4, <1>6, <2>1 DEF Session!Next, Session!Lose
<1> QED
  BY <1>5, <1>6

\* Connect starts an attempt with nothing pending, or changes nothing.
LEMMA ConnectAttempts ==
  ASSUME SInv, Turn("HandleRead"), strand' = Rest, NEW o, ConnectOrReturn(o),
         \/ pc["HandleRead"] \in {"start", "backoff"}
         \/ pc["HandleRead"] = "poll"
  PROVE  Session!Next \/ UNCHANGED <<status, Pending>>
<1>1. ~Pool /\ TypeOK /\ strand \in Seq(Handlers) /\ strand # <<>> /\ Head(strand).co # "post"
  BY DEF SInv, AInv, OInv, IInv, TypeOK, Turn
<1>2. PostedMsgs' = PostedMsgs
  BY <1>1, TurnKeepsPosts
<1>3. CASE Connectable(status)
  <2>1. status' = "Connecting" /\ queue' = <<>>
    BY <1>1, <1>3, ConnectCases
  <2>2. ~Queued("post")
    BY <1>3, NoPostAtStart DEF SInv, Connectable
  <2>3. PostedMsgs = <<>>
    BY <1>1, <2>2, PostsNone DEF Posts, PostedMsgs, Has, Queued
  <2>4. queue' \o PostedMsgs' = <<>>
    BY <1>2, <2>1, <2>3
  <2> QED
    BY <1>3, <2>1, <2>4 DEF Session!Next, Session!Attempt, Session!Connectable, Connectable
<1>4. CASE ~Connectable(status)
  BY <1>1, <1>2, <1>4, ConnectCases DEF Pending
<1> QED
  BY <1>3, <1>4

\* A turn of HandleRead is a step of the session, or none.
LEMMA HandleReadImplements ==
  ASSUME SInv, HandleReadTurn
  PROVE  Session!Next \/ UNCHANGED <<status, Pending>>
<1>1. /\ ~Pool /\ TypeOK /\ strand \in Seq(Handlers) /\ Turn("HandleRead")
      /\ strand # <<>> /\ Head(strand).co # "post"
  BY DEF SInv, AInv, OInv, IInv, TypeOK, Turn, HandleReadTurn, HandleReadStart, Polled, Resolved,
         Accepted, Secured, AttemptFails, Established, BackedOff, ReadDone, ReadFails
<1>2. ASSUME UNCHANGED <<status, queue>>, strand' = Rest PROVE UNCHANGED <<status, Pending>>
  BY <1>1, <1>2, TurnKeepsPosts DEF Pending
<1>3. CASE HandleReadStart \/ BackedOff
  BY <1>1, <1>3, ConnectAttempts DEF HandleReadStart, BackedOff
<1>4. CASE Polled
  <2>1. CASE status = "Disconnected"
    BY <1>1, <1>4, <2>1, ConnectAttempts DEF Polled
  <2>2. CASE status # "Disconnected"
    BY <1>1, <1>2, <1>4, <2>2, OneThread DEF Polled
  <2> QED
    BY <2>1, <2>2
<1>5. CASE Resolved \/ Accepted \/ Secured \/ ReadDone
  BY <1>1, <1>2, <1>5, OneThread DEF Resolved, Accepted, Secured, ReadDone
<1>6. CASE AttemptFails \/ ReadFails
  <2>1. ClosedIn /\ pc["HandleRead"] # "start"
    BY <1>1, <1>6 DEF AttemptFails, ReadFails, ClosedIn, Stages
  <2> QED
    BY <1>1, <2>1, CloseLoses DEF SInv, NotStarted
<1>7. CASE Established
  <2>1. strand' = Rest /\ queue' = queue /\ status' = SetState(status, "Connected")
    BY <1>1, <1>7, OneThread DEF Established
  <2>2. CASE status = "Closed"
    BY <1>2, <2>1, <2>2 DEF SetState
  <2>3. CASE status # "Closed"
    <3>1. status = "Connecting" /\ queue = <<>>
      BY <1>7, <2>3, StageSucceeds DEF Established, Stages, SInv, AInv, ConnectingClear
    <3>2. ~Queued("post")
      BY <1>7, <2>3, NoPostAtStart DEF Established, SInv
    <3>3. PostedMsgs = <<>> /\ PostedMsgs' = PostedMsgs
      BY <1>1, <2>1, <3>2, PostsNone, TurnKeepsPosts DEF Posts, PostedMsgs, Has, Queued
    <3>4. queue \o PostedMsgs = <<>> /\ queue' \o PostedMsgs' = queue \o PostedMsgs
      BY <2>1, <3>1, <3>3
    <3>5. status' = "Connected"
      BY <2>1, <2>3 DEF SetState
    <3> QED
      BY <3>1, <3>4, <3>5 DEF Session!Next, Session!Establish
  <2> QED
    BY <2>2, <2>3
<1> QED
  BY <1>3, <1>4, <1>5, <1>6, <1>7 DEF HandleReadTurn

\* HandleWrite hands the oldest pending message over, or changes nothing.
LEMMA WriteLoopTransmits ==
  ASSUME NEW w \in Writers, NEW q \in Seq(Msgs), NEW p \in Seq(Msgs), WriteLoop(w, q),
         queue \o PostedMsgs = q \o p, PostedMsgs' = p, status' = status
  PROVE  Session!Next \/ UNCHANGED <<status, Pending>>
<1>1. CASE status = "Connected" /\ Open(conn) /\ q # <<>>
  <2>1. queue' = Tail(q)
    BY <1>1 DEF WriteLoop
  <2>2. Tail(q) \o p = Tail(q \o p) /\ q \o p # <<>>
    BY <1>1
  <2> QED
    BY <1>1, <2>1, <2>2 DEF Session!Next, Session!Transmit
<1>2. CASE ~(status = "Connected" /\ Open(conn) /\ q # <<>>)
  BY <1>2 DEF WriteLoop, Pending
<1> QED
  BY <1>1, <1>2

\* A function posted by Write runs.
LEMMA RunPostedImplements ==
  ASSUME SInv, RunPosted
  PROVE  Session!Next \/ UNCHANGED <<status, Pending>>
<1>1. TypeOK /\ strand \in Seq(Handlers) /\ strand # <<>> /\ Head(strand).co = "post"
      /\ Rest \in Seq(Handlers) /\ strand' = Rest /\ status' = status
  BY TurnTakes DEF SInv, AInv, OInv, IInv, TypeOK, Turn, RunPosted
<1> DEFINE m == Head(strand).msg
           p == Posts(Rest)
           q == Append(queue, m)
<1>2. PostedMsgs = <<m>> \o p
  BY <1>1, PostsTaken DEF Posts, PostedMsgs, Rest
<1>3. Head(strand) \in Handlers /\ m \in Msgs
  <2>1. Head(strand) \in Handlers
    BY <1>1
  <2> QED
    BY <1>1, <2>1, MsgOfPosts
<1>4. p \in Seq(Msgs) /\ PostedMsgs' = p
  BY <1>1, PostsTyped DEF Posts, PostedMsgs
<1>5. \/ queue' = q
      \/ \E w \in Writers : WriteLoop(w, q)
  BY DEF RunPosted
<1> HIDE DEF m, p
<1>6. q \in Seq(Msgs) /\ queue \o (<<m>> \o p) = q \o p
  BY <1>1, <1>3, <1>4 DEF TypeOK
<1> HIDE DEF q
<1>7. CASE queue' = q
  BY <1>1, <1>2, <1>4, <1>6, <1>7 DEF Pending
<1>8. ASSUME NEW w \in Writers, WriteLoop(w, q)
      PROVE  Session!Next \/ UNCHANGED <<status, Pending>>
  BY <1>1, <1>2, <1>4, <1>6, <1>8, WriteLoopTransmits
<1> QED
  BY <1>5, <1>7, <1>8

\* Every step is one of the session, or none.
LEMMA SessionStep ==
  ASSUME Alone, SInv, [Next]_vars
  PROVE  Session!Next \/ UNCHANGED <<status, Pending>>
<1>1. TypeOK /\ strand \in Seq(Handlers)
  BY DEF SInv, AInv, OInv, IInv, TypeOK
<1>2. CASE HandleReadTurn
  BY <1>2, HandleReadImplements
<1>3. ASSUME UNCHANGED <<status, queue>>,
             \/ strand' = strand
             \/ strand # <<>> /\ Head(strand).co # "post" /\ strand' = Rest
             \/ \E k \in Coroutines : Resumed(k)
      PROVE  UNCHANGED <<status, Pending>>
  <2>1. ASSUME NEW k \in Coroutines, Resumed(k) PROVE PostedMsgs' = PostedMsgs
    <3>1. PICK ok \in BOOLEAN : strand' = Append(strand, Ready(k, ok))
      BY <2>1 DEF Resumed
    <3>2. Ready(k, ok) \in Handlers /\ Ready(k, ok).co # "post"
      BY DEF Ready, Handlers
    <3> QED
      BY <1>1, <3>1, <3>2, PostsAppended DEF Posts, PostedMsgs
  <2>2. PostedMsgs' = PostedMsgs
    BY <1>1, <1>3, <2>1, TurnKeepsPosts DEF PostedMsgs
  <2> QED
    BY <1>3, <2>2 DEF Pending
<1>4. ASSUME NEW c, NEW late, Judge(c, late), Turn("Monitor"),
             status = "Initialized" => ~MustClose(c, late)
      PROVE  Session!Next \/ UNCHANGED <<status, Pending>>
  <2>1. strand # <<>> /\ Head(strand).co # "post"
    BY <1>4 DEF Turn
  <2>2. CASE MustClose(c, late)
    BY <1>4, <2>1, <2>2, CloseLoses DEF Judge, ClosedIn
  <2>3. CASE ~MustClose(c, late)
    BY <1>3, <1>4, <2>1, <2>3, OneThread DEF Judge, Alone
  <2> QED
    BY <2>2, <2>3
<1>5. CASE MonitorStart
  BY <1>3, <1>5 DEF MonitorStart, Turn
<1>6. CASE MonitorWakes
  <2>1. CASE status = "Connected" /\ link[conn] = "ws"
    BY <1>3, <1>6, <2>1 DEF MonitorWakes, Turn
  <2>2. CASE ~(status = "Connected" /\ link[conn] = "ws")
    <3>1. status = "Initialized" => ~MustClose(conn, idle)
      BY DEF SInv, AInv, NoRequest, FreshConnection, MustClose
    <3> QED
      BY <1>4, <1>6, <2>2, <3>1 DEF MonitorWakes
  <2> QED
    BY <2>1, <2>2
<1>7. CASE Pinged
  <2>1. status = "Initialized" => ~MustClose(loc["Monitor"], expired)
    BY <1>7 DEF Pinged, SInv, AInv, OInv, IInv, NoRequest, PingOfSession, MustClose
  <2> QED
    BY <1>4, <1>7, <2>1 DEF Pinged
<1>8. CASE RunPosted
  BY <1>8, RunPostedImplements
<1>9. ASSUME NEW w \in Writers, Wrote(w) PROVE Session!Next \/ UNCHANGED <<status, Pending>>
  <2>1. strand # <<>> /\ Head(strand).co # "post" /\ strand' = Rest /\ status' = status
        /\ WriteLoop(w, queue)
    BY <1>9 DEF Wrote, Turn
  <2>2. PostedMsgs' = PostedMsgs
    BY <1>1, <2>1, TurnKeepsPosts
  <2> QED
    BY <1>1, <2>1, <2>2, PendingTyped, WriteLoopTransmits
<1>10. ASSUME NEW w \in Writers, WriteFails(w) PROVE Session!Next \/ UNCHANGED <<status, Pending>>
  <2>1. strand # <<>> /\ Head(strand).co # "post" /\ ClosedIn /\ Writing(w)
    BY <1>10 DEF WriteFails, Turn, ClosedIn, Writing
  <2>2. status # "Initialized"
    BY <2>1 DEF SInv, AInv, OInv, WriterOfSession
  <2> QED
    BY <2>1, <2>2, CloseLoses
<1>11. ASSUME NEW k \in Coroutines, TimerFires(k) \/ OperationSucceeds(k) \/ OperationFails(k)
       PROVE  UNCHANGED <<status, Pending>>
  BY <1>3, <1>11
     DEF TimerFires, OperationSucceeds, OperationFails, Viable, OnSocket, Becomes, Resumed
<1>12. CASE ResolverAnswers
  BY <1>3, <1>12 DEF ResolverAnswers, Becomes, Resumed
<1>13. CASE Expire \/ Pong \/ Finished \/ UNCHANGED vars
  BY <1>3, <1>13 DEF Expire, Pong, Finished, vars
<1>14. ASSUME NEW m \in Msgs, Write(m) PROVE Session!Next
  <2>1. status = "Connected" /\ strand' = Append(strand, Posted(m)) /\ UNCHANGED <<status, queue>>
    BY <1>14 DEF Write, Alone
  <2>2. Posted(m) \in Handlers /\ Posted(m).co = "post" /\ Posted(m).msg = m
    BY DEF Posted, Handlers
  <2>3. PostedMsgs' = Append(PostedMsgs, m)
    BY <1>1, <2>1, <2>2, PostsAppended DEF Posts, PostedMsgs
  <2>4. PostedMsgs \in Seq(Msgs) /\ queue \in Seq(Msgs)
    BY <1>1, PendingTyped
  <2>5. queue' \o PostedMsgs' = Append(queue \o PostedMsgs, m)
    BY <2>1, <2>3, <2>4
  <2> QED
    BY <2>1, <2>5 DEF Session!Next, Session!Accept
<1>15. CASE Stop
  <2>1. status' = "Closed" /\ UNCHANGED <<queue, strand>>
    BY <1>15 DEF Stop, SetState
  <2>2. queue' \o PostedMsgs' = queue \o PostedMsgs
    BY <2>1 DEF PostedMsgs
  <2> QED
    BY <2>1, <2>2 DEF Session!Next, Session!Stop
<1>16. ~WritePosts /\ ~Reconnect
  BY DEF WritePosts, Reconnect, Alone, SInv, AInv, NoRequest
<1> QED
  BY <1>2, <1>5, <1>6, <1>7, <1>8, <1>9, <1>10, <1>11, <1>12, <1>13, <1>14, <1>15, <1>16,
     OneThread
     DEF Next, HandlerTurn, HandleReadTurn, IoContext, Application, Alone

\* Initialized is left by HandleRead's first turn, and never come back to.
LEMMA NotStartedStep ==
  ASSUME Alone, SInv, [Next]_vars
  PROVE  NotStarted'
<1>1. ~Pool /\ TypeOK /\ AInv /\ NotStarted
  BY DEF SInv, AInv, OInv, IInv
<1>2. CASE HandleReadTurn
  <2>1. CASE pc["HandleRead"] = "start"
    <3>1. HandleReadStart
      BY <1>2, <2>1 DEF HandleReadTurn, Polled, Resolved, Accepted, Secured, AttemptFails,
                        Established, BackedOff, ReadDone, ReadFails, Stages
    <3>2. ConnectOrReturn(NoConn)
      BY <3>1 DEF HandleReadStart
    <3> QED
      BY <1>1, <3>2, ConnectCases DEF NotStarted, Connectable
  <2>2. CASE pc["HandleRead"] # "start"
    <3>1. status # "Initialized"
      BY <1>1, <2>2 DEF NotStarted
    <3>2. ASSUME NEW o, ConnectOrReturn(o) PROVE status' # "Initialized"
      BY <1>1, <3>1, <3>2, ConnectCases
    <3>3. ASSUME Close(Rest) PROVE status' # "Initialized"
      BY <1>1, <3>1, <3>3, CloseStatus
    <3> QED
      BY <1>1, <1>2, <2>2, <3>1, <3>2, <3>3, OneThread
         DEF HandleReadTurn, HandleReadStart, Polled, Resolved, Accepted, Secured, AttemptFails,
             Established, BackedOff, ReadDone, ReadFails, SetState, NotStarted
  <2> QED
    BY <2>1, <2>2
<1>3. CASE ~HandleReadTurn
  <2>1. Quiet \/ Ended
    BY <1>1, <1>3, OthersStep
  <2> QED
    BY <1>1, <2>1, ClosedFresh DEF Quiet, Ended, NotStarted, AInv
<1> QED
  BY <1>2, <1>3

\* With one thread and no Reconnect, for any messages, connections, addresses and limits:
\* sessions follow one another until Stop, and what a session accepts is handed over in
\* order, each message at most once, or discarded with all before it (Client).
THEOREM ClientKeepsPromise == ~Pool /\ ~Reconnects => (Spec => KeepsPromise)
<1>. SUFFICES ASSUME Alone PROVE Spec => KeepsPromise
  BY DEF Alone
<1>1. Init => NotStarted
  BY DEF Init, NotStarted
<1>2. Init => Session!Init
  <2>1. ASSUME Init PROVE queue \o PostedMsgs = <<>>
    <3>1. strand = <<Ready("HandleRead", TRUE), Ready("Monitor", TRUE)>> /\ queue = <<>>
      BY <2>1 DEF Init
    <3>2. strand \in Seq(Handlers) /\ Len(strand) = 2
          /\ strand[1].co = "HandleRead" /\ strand[2].co = "Monitor"
      BY <3>1 DEF Ready, Handlers
    <3>3. ~Has(strand, "post")
      BY <3>2 DEF Has
    <3>4. PostedMsgs = <<>>
      BY <3>2, <3>3, PostsNone DEF Posts, PostedMsgs
    <3> QED
      BY <3>1, <3>4
  <2>2. ASSUME Init PROVE status = "Initialized"
    BY <2>2 DEF Init
  <2> QED
    BY <2>1, <2>2 DEF Session!Init
<1>3. AInv /\ NotStarted /\ [Next]_vars => NotStarted'
  BY NotStartedStep DEF SInv
<1>4. AInv /\ NotStarted /\ [Next]_vars => [Session!Next]_<<status, queue \o PostedMsgs>>
  BY SessionStep DEF SInv, Pending
<1> QED
  BY <1>1, <1>2, <1>3, <1>4, AloneInvariance, PTL DEF Spec, KeepsPromise, Session!Spec
=============================================================================
