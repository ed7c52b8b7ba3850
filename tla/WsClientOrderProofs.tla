------------------------ MODULE WsClientOrderProofs ------------------------
(***************************************************************************)
(* Proofs about WsClient with one thread, where the strand keeps its order *)
(* and nothing comes amid a turn.  A HandleWrite of a replaced connection  *)
(* runs before the next attempt (NoStaleWriter).  If there is no Reconnect *)
(* either: Connected means open, a session starts clean, and no message is *)
(* left behind.                                                            *)
(***************************************************************************)
EXTENDS WsClientProofs

USE DEF Coroutines, Writers, Enqueue, Dequeued, Cleared

-----------------------------------------------------------------------------
(* What one thread excludes *)

\* With one thread no Stop comes amid a turn, and no handler overtakes another.
LEMMA OneThread ==
  ASSUME ~Pool
  PROVE  /\ \A s : State(s) => status' = SetState(status, s)
         /\ Look => UNCHANGED status
         /\ ~Overtakes
         /\ ReadLoop =>
              \/ status' = "Closed" /\ Await("HandleRead", "done", NoConn)
              \/ status' = "Connected" /\ link'[conn'] # "closed" /\ Await("HandleRead", "read", conn')
              \/ /\ status' # "Closed" /\ ~(status' = "Connected" /\ link'[conn'] # "closed")
                 /\ Await("HandleRead", "poll", conn')
BY DEF State, Look, StopAmid, Overtakes, ReadLoop

\* With one thread Close leaves Disconnected, or the Closed it found.
LEMMA CloseStatus ==
  ASSUME ~Pool, NEW rest, Close(rest)
  PROVE  status' = IF status = "Closed" THEN "Closed" ELSE "Disconnected"
BY OneThread DEF Close, SetState

-----------------------------------------------------------------------------
(* The strand as a queue *)

Has(q, k) == \E i \in 1 .. Len(q) : q[i].co = k
HasOk(q, k) == \E i \in 1 .. Len(q) : q[i].co = k /\ q[i].ok
OnceIn(q, k) == \A i, j \in 1 .. Len(q) : q[i].co = k /\ q[j].co = k => i = j

\* Every a of the queue is ahead of every b.
Ahead(q, a, b) == \A i, j \in 1 .. Len(q) : q[i].co = a /\ q[j].co = b => i < j

\* A queue that loses its head.
LEMMA Taking ==
  ASSUME NEW S, NEW q \in Seq(S), q # <<>>, NEW k
  PROVE  /\ Has(Tail(q), k) => Has(q, k)
         /\ HasOk(Tail(q), k) => HasOk(q, k)
         /\ Has(q, k) => Head(q).co = k \/ Has(Tail(q), k)
         /\ OnceIn(q, k) => OnceIn(Tail(q), k)
         /\ OnceIn(q, k) /\ Head(q).co = k => ~Has(Tail(q), k)
         /\ \A b : Ahead(q, k, b) => Ahead(Tail(q), k, b)
         /\ \A b : Ahead(q, k, b) /\ Head(q).co = b => ~Has(q, k)
         /\ Head(q).co = k => Has(q, k)
         /\ Head(q).co = k /\ Head(q).ok => HasOk(q, k)
<1>1. /\ Len(q) \in Nat \ {0} /\ Len(Tail(q)) = Len(q) - 1
      /\ \A i \in 1 .. Len(q) - 1 : Tail(q)[i] = q[i + 1]
      /\ Head(q) = q[1]
  OBVIOUS
<1>2. \A i \in 1 .. Len(q) - 1 : i + 1 \in 1 .. Len(q)
  BY <1>1
<1>3. \A j \in 1 .. Len(q) : j = 1 \/ (j - 1 \in 1 .. Len(q) - 1 /\ q[j] = Tail(q)[j - 1])
  BY <1>1
<1>4. Has(Tail(q), k) => Has(q, k)
  BY <1>1, <1>2 DEF Has
<1>5. HasOk(Tail(q), k) => HasOk(q, k)
  BY <1>1, <1>2 DEF HasOk
<1>6. Has(q, k) => Head(q).co = k \/ Has(Tail(q), k)
  BY <1>1, <1>3 DEF Has
<1>7. OnceIn(q, k) => OnceIn(Tail(q), k)
  BY <1>1, <1>2 DEF OnceIn
<1>8. OnceIn(q, k) /\ Head(q).co = k => ~Has(Tail(q), k)
  BY <1>1, <1>2 DEF OnceIn, Has
<1>9. \A b : Ahead(q, k, b) => Ahead(Tail(q), k, b)
  BY <1>1, <1>2 DEF Ahead
<1>10. \A b : Ahead(q, k, b) /\ Head(q).co = b => ~Has(q, k)
  BY <1>1 DEF Ahead, Has
<1>11. Head(q).co = k => Has(q, k)
  BY <1>1 DEF Has
<1>12. Head(q).co = k /\ Head(q).ok => HasOk(q, k)
  BY <1>1 DEF HasOk
<1> QED
  BY <1>4, <1>5, <1>6, <1>7, <1>8, <1>9, <1>10, <1>11, <1>12

\* Two queues, one behind the other.
LEMMA Joining ==
  ASSUME NEW S, NEW p \in Seq(S), NEW q \in Seq(S), NEW k
  PROVE  /\ Has(p \o q, k) <=> Has(p, k) \/ Has(q, k)
         /\ HasOk(p \o q, k) <=> HasOk(p, k) \/ HasOk(q, k)
         /\ OnceIn(p, k) /\ OnceIn(q, k) /\ ~(Has(p, k) /\ Has(q, k)) => OnceIn(p \o q, k)
         /\ \A b : Ahead(p, k, b) /\ ~Has(q, k) => Ahead(p \o q, k, b)
         /\ \A b : ~Has(p, b) /\ ~Has(q, b) => Ahead(p \o q, k, b)
<1>1. /\ Len(p) \in Nat /\ Len(q) \in Nat /\ Len(p \o q) = Len(p) + Len(q)
      /\ \A i \in 1 .. Len(p) : (p \o q)[i] = p[i]
      /\ \A i \in 1 .. Len(q) : (p \o q)[Len(p) + i] = q[i]
  OBVIOUS
<1>2. \A i \in 1 .. Len(p) : i \in 1 .. Len(p \o q)
  BY <1>1
<1>3. \A i \in 1 .. Len(q) : Len(p) + i \in 1 .. Len(p \o q)
  BY <1>1
<1>4. \A j \in 1 .. Len(p \o q) :
        \/ j \in 1 .. Len(p) /\ (p \o q)[j] = p[j]
        \/ /\ j > Len(p) /\ j - Len(p) \in 1 .. Len(q)
           /\ (p \o q)[j] = q[j - Len(p)]
  <2>. SUFFICES ASSUME NEW j \in 1 .. Len(p \o q), j > Len(p)
                PROVE  j - Len(p) \in 1 .. Len(q) /\ (p \o q)[j] = q[j - Len(p)]
    BY <1>1
  <2>1. j - Len(p) \in 1 .. Len(q) /\ Len(p) + (j - Len(p)) = j
    BY <1>1
  <2> QED
    BY <1>1, <2>1
<1>5. Has(p \o q, k) <=> Has(p, k) \/ Has(q, k)
  <2>1. Has(p \o q, k) => Has(p, k) \/ Has(q, k)
    BY <1>4 DEF Has
  <2>2. Has(p, k) => Has(p \o q, k)
    BY <1>1, <1>2 DEF Has
  <2>3. Has(q, k) => Has(p \o q, k)
    BY <1>1, <1>3 DEF Has
  <2> QED
    BY <2>1, <2>2, <2>3
<1>6. HasOk(p \o q, k) <=> HasOk(p, k) \/ HasOk(q, k)
  <2>1. HasOk(p \o q, k) => HasOk(p, k) \/ HasOk(q, k)
    BY <1>4 DEF HasOk
  <2>2. HasOk(p, k) => HasOk(p \o q, k)
    BY <1>1, <1>2 DEF HasOk
  <2>3. HasOk(q, k) => HasOk(p \o q, k)
    BY <1>1, <1>3 DEF HasOk
  <2> QED
    BY <2>1, <2>2, <2>3
<1>7. ASSUME OnceIn(p, k), OnceIn(q, k), ~(Has(p, k) /\ Has(q, k)) PROVE OnceIn(p \o q, k)
  <2>. SUFFICES ASSUME NEW i \in 1 .. Len(p \o q), NEW j \in 1 .. Len(p \o q),
                       (p \o q)[i].co = k, (p \o q)[j].co = k
                PROVE  i = j
    BY DEF OnceIn
  <2>1. CASE i \in 1 .. Len(p) /\ j \in 1 .. Len(p)
    BY <1>1, <1>7, <2>1 DEF OnceIn
  <2>2. CASE i > Len(p) /\ j > Len(p)
    <3>1. i - Len(p) = j - Len(p)
      BY <1>1, <1>4, <1>7, <2>2 DEF OnceIn
    <3> QED
      BY <1>1, <3>1
  <2>3. CASE ~(i \in 1 .. Len(p) <=> j \in 1 .. Len(p))
    <3>1. Has(p, k) /\ Has(q, k)
      BY <1>1, <1>4, <2>3 DEF Has
    <3> QED
      BY <1>7, <3>1
  <2> QED
    BY <1>1, <1>4, <2>1, <2>2, <2>3
<1>8. ASSUME NEW b, Ahead(p, k, b), ~Has(q, k) PROVE Ahead(p \o q, k, b)
  <2>. SUFFICES ASSUME NEW i \in 1 .. Len(p \o q), NEW j \in 1 .. Len(p \o q),
                       (p \o q)[i].co = k, (p \o q)[j].co = b
                PROVE  i < j
    BY DEF Ahead
  <2>1. i \in 1 .. Len(p) /\ p[i].co = k
    BY <1>4, <1>8 DEF Has
  <2>2. CASE j \in 1 .. Len(p)
    BY <1>1, <1>8, <2>1, <2>2 DEF Ahead
  <2>3. CASE j > Len(p)
    BY <1>1, <2>1, <2>3
  <2> QED
    BY <1>4, <2>2, <2>3
<1>9. ASSUME NEW b, ~Has(p, b), ~Has(q, b) PROVE Ahead(p \o q, k, b)
  <2>1. \A j \in 1 .. Len(p \o q) : (p \o q)[j].co # b
    BY <1>4, <1>9 DEF Has
  <2> QED
    BY <2>1 DEF Ahead
<1> QED
  BY <1>5, <1>6, <1>7, <1>8, <1>9

\* A queue of one handler, and the empty one.
LEMMA Single ==
  ASSUME NEW h, NEW k
  PROVE  /\ Has(<<h>>, k) <=> h.co = k
         /\ HasOk(<<h>>, k) => h.co = k /\ h.ok
         /\ OnceIn(<<h>>, k)
         /\ ~Has(<<>>, k) /\ ~HasOk(<<>>, k) /\ OnceIn(<<>>, k)
<1>1. Len(<<h>>) = 1 /\ <<h>>[1] = h /\ Len(<<>>) = 0
  OBVIOUS
<1> QED
  BY <1>1 DEF Has, HasOk, OnceIn

\* A handler is queued behind the others.
LEMMA Appending ==
  ASSUME NEW S, NEW q \in Seq(S), NEW h \in S, NEW k
  PROVE  /\ Has(Append(q, h), k) <=> Has(q, k) \/ h.co = k
         /\ HasOk(Append(q, h), k) => HasOk(q, k) \/ (h.co = k /\ h.ok)
         /\ OnceIn(q, k) /\ ~(Has(q, k) /\ h.co = k) => OnceIn(Append(q, h), k)
         /\ \A b : Ahead(q, k, b) /\ h.co # k => Ahead(Append(q, h), k, b)
         /\ \A b : ~Has(q, b) /\ h.co # b => Ahead(Append(q, h), k, b)
<1>1. <<h>> \in Seq(S) /\ Append(q, h) = q \o <<h>>
  OBVIOUS
<1>2. \A b : Has(<<h>>, b) <=> h.co = b
  BY Single
<1>3. /\ HasOk(<<h>>, k) => h.co = k /\ h.ok
      /\ OnceIn(<<h>>, k)
  BY Single
<1>4. /\ Has(q \o <<h>>, k) <=> Has(q, k) \/ Has(<<h>>, k)
      /\ HasOk(q \o <<h>>, k) <=> HasOk(q, k) \/ HasOk(<<h>>, k)
      /\ OnceIn(q, k) /\ OnceIn(<<h>>, k) /\ ~(Has(q, k) /\ Has(<<h>>, k))
            => OnceIn(q \o <<h>>, k)
      /\ \A b : Ahead(q, k, b) /\ ~Has(<<h>>, k) => Ahead(q \o <<h>>, k, b)
      /\ \A b : ~Has(q, b) /\ ~Has(<<h>>, b) => Ahead(q \o <<h>>, k, b)
  BY <1>1, Joining
<1> QED
  BY <1>1, <1>2, <1>3, <1>4, Zenon

-----------------------------------------------------------------------------
(* What a step does to the strand *)

\* The operation k awaits is aborted when the socket of c is closed.
Aborted(k, c) == OnSocket(k) /\ loc[k] = c /\ Open(c)

\* One coroutine's share of the aborted handlers.
LEMMA AbortHolds ==
  ASSUME NEW j \in Coroutines, NEW c, NEW k
  PROVE  /\ Abort(j, c) \in Seq(Handlers)
         /\ Has(Abort(j, c), k) <=> k = j /\ Aborted(j, c)
         /\ ~HasOk(Abort(j, c), k)
         /\ OnceIn(Abort(j, c), k)
<1>1. Ready(j, FALSE) \in Handlers /\ Ready(j, FALSE).co = j /\ Ready(j, FALSE).ok = FALSE
  BY DEF Ready, Handlers
<1>2. <<Ready(j, FALSE)>> \in Seq(Handlers)
  BY <1>1, OneElementSeq
<1>3. CASE Aborted(j, c)
  <2>1. Abort(j, c) = <<Ready(j, FALSE)>>
    BY <1>3 DEF Abort, Aborted
  <2>2. /\ Has(<<Ready(j, FALSE)>>, k) <=> Ready(j, FALSE).co = k
        /\ HasOk(<<Ready(j, FALSE)>>, k) => Ready(j, FALSE).ok
        /\ OnceIn(<<Ready(j, FALSE)>>, k)
    BY Single
  <2> QED
    BY <1>1, <1>2, <1>3, <2>1, <2>2
<1>4. CASE ~Aborted(j, c)
  <2>1. Abort(j, c) = <<>>
    BY <1>4 DEF Abort, Aborted
  <2>2. ~Has(<<>>, k) /\ ~HasOk(<<>>, k) /\ OnceIn(<<>>, k)
    BY Single
  <2>3. <<>> \in Seq(Handlers)
    OBVIOUS
  <2> QED
    BY <1>4, <2>1, <2>2, <2>3
<1> QED
  BY <1>3, <1>4

\* The aborted handlers are those of the pending operations, each once, each failed.
LEMMA AbortsHold ==
  ASSUME NEW c, NEW k
  PROVE  /\ Has(Aborts(c), k) <=> k \in Coroutines /\ Aborted(k, c)
         /\ ~HasOk(Aborts(c), k)
         /\ OnceIn(Aborts(c), k)
<1> DEFINE R == Abort("HandleRead", c)      V == Abort("HandleWrite1", c)
           W == Abort("HandleWrite2", c)    M == Abort("Monitor", c)
           RV == R \o V    RVW == RV \o W    All == RVW \o M
<1>0. {"HandleRead", "HandleWrite1", "HandleWrite2", "Monitor"} \subseteq Coroutines
  OBVIOUS
<1>1. /\ R \in Seq(Handlers)
      /\ Has(R, k) <=> k = "HandleRead" /\ Aborted("HandleRead", c)
      /\ ~HasOk(R, k) /\ OnceIn(R, k)
  BY <1>0, AbortHolds, Zenon
<1>2. /\ V \in Seq(Handlers)
      /\ Has(V, k) <=> k = "HandleWrite1" /\ Aborted("HandleWrite1", c)
      /\ ~HasOk(V, k) /\ OnceIn(V, k)
  BY <1>0, AbortHolds, Zenon
<1>3. /\ W \in Seq(Handlers)
      /\ Has(W, k) <=> k = "HandleWrite2" /\ Aborted("HandleWrite2", c)
      /\ ~HasOk(W, k) /\ OnceIn(W, k)
  BY <1>0, AbortHolds, Zenon
<1>4. /\ M \in Seq(Handlers)
      /\ Has(M, k) <=> k = "Monitor" /\ Aborted("Monitor", c)
      /\ ~HasOk(M, k) /\ OnceIn(M, k)
  BY <1>0, AbortHolds, Zenon
<1>5. All = Aborts(c)
  BY DEF Aborts
<1> HIDE DEF R, V, W, M
<1>6. RV \in Seq(Handlers)
  BY <1>1, <1>2
<1>7. /\ Has(RV, k) <=> Has(R, k) \/ Has(V, k)
      /\ HasOk(RV, k) <=> HasOk(R, k) \/ HasOk(V, k)
      /\ OnceIn(R, k) /\ OnceIn(V, k) /\ ~(Has(R, k) /\ Has(V, k)) => OnceIn(RV, k)
  BY <1>1, <1>2, Joining
<1> HIDE DEF RV
<1>8. RVW \in Seq(Handlers)
  BY <1>3, <1>6
<1>9. /\ Has(RVW, k) <=> Has(RV, k) \/ Has(W, k)
      /\ HasOk(RVW, k) <=> HasOk(RV, k) \/ HasOk(W, k)
      /\ OnceIn(RV, k) /\ OnceIn(W, k) /\ ~(Has(RV, k) /\ Has(W, k)) => OnceIn(RVW, k)
  BY <1>3, <1>6, Joining
<1> HIDE DEF RVW
<1>10. /\ Has(All, k) <=> Has(RVW, k) \/ Has(M, k)
       /\ HasOk(All, k) <=> HasOk(RVW, k) \/ HasOk(M, k)
       /\ OnceIn(RVW, k) /\ OnceIn(M, k) /\ ~(Has(RVW, k) /\ Has(M, k)) => OnceIn(All, k)
  BY <1>4, <1>8, Joining
<1> HIDE DEF All
<1>11. ~HasOk(All, k)
  BY <1>1, <1>2, <1>3, <1>4, <1>7, <1>9, <1>10
<1>12. Has(All, k) <=> k \in Coroutines /\ Aborted(k, c)
  BY <1>1, <1>2, <1>3, <1>4, <1>7, <1>9, <1>10
<1>13. OnceIn(All, k)
  BY <1>1, <1>2, <1>3, <1>4, <1>7, <1>9, <1>10
<1> QED
  BY <1>5, <1>11, <1>12, <1>13

\* Close puts the aborted handlers, all of them failed, behind the rest.
LEMMA Closing ==
  ASSUME NEW rest \in Seq(Handlers), Close(rest), NEW k
  PROVE  /\ Has(strand', k) <=> Has(rest, k) \/ (k \in Coroutines /\ Aborted(k, conn))
         /\ HasOk(strand', k) <=> HasOk(rest, k)
         /\ OnceIn(rest, k) /\ ~(Has(rest, k) /\ Aborted(k, conn)) => OnceIn(strand', k)
         /\ \A b : Ahead(rest, k, b) /\ ~(k \in Coroutines /\ Aborted(k, conn))
                    => Ahead(strand', k, b)
<1>1. strand' = rest \o Aborts(conn) /\ Aborts(conn) \in Seq(Handlers)
  BY AbortsAreHandlers DEF Close
<1>2. \A j : /\ Has(Aborts(conn), j) <=> j \in Coroutines /\ Aborted(j, conn)
             /\ ~HasOk(Aborts(conn), j)
             /\ OnceIn(Aborts(conn), j)
  BY AbortsHold
<1>3. LET q == Aborts(conn) IN
      /\ Has(rest \o q, k) <=> Has(rest, k) \/ Has(q, k)
      /\ HasOk(rest \o q, k) <=> HasOk(rest, k) \/ HasOk(q, k)
      /\ OnceIn(rest, k) /\ OnceIn(q, k) /\ ~(Has(rest, k) /\ Has(q, k)) => OnceIn(rest \o q, k)
      /\ \A b : Ahead(rest, k, b) /\ ~Has(q, k) => Ahead(rest \o q, k, b)
      /\ \A b : ~Has(rest, b) /\ ~Has(q, b) => Ahead(rest \o q, k, b)
  BY <1>1, Joining
<1>4. Has(strand', k) <=> Has(rest, k) \/ (k \in Coroutines /\ Aborted(k, conn))
  BY <1>1, <1>2, <1>3, Zenon
<1>5. HasOk(strand', k) <=> HasOk(rest, k)
  BY <1>1, <1>2, <1>3, Zenon
<1>6. OnceIn(rest, k) /\ ~(Has(rest, k) /\ Aborted(k, conn)) => OnceIn(strand', k)
  BY <1>1, <1>2, <1>3, Zenon
<1>7. \A b : Ahead(rest, k, b) /\ ~(k \in Coroutines /\ Aborted(k, conn))
              => Ahead(strand', k, b)
  BY <1>1, <1>2, <1>3, Zenon
<1> QED
  BY <1>4, <1>5, <1>6, <1>7

\* What a step may do to the strand.
Taken == strand # <<>> /\ strand' = Rest
Resumed(k) == ~Queued(k) /\ \E ok \in BOOLEAN : strand' = Append(strand, Ready(k, ok))
PostedTo == \E m \in Msgs : strand' = Append(strand, Posted(m))
ClosedIn == strand # <<>> /\ Close(Rest)
NothingPosted ==
  strand' = strand \/ Taken \/ (\E k \in Coroutines : Resumed(k)) \/ ClosedIn
StrandMoves == NothingPosted \/ PostedTo

\* The io_context and the application only add to the strand.
LEMMA AppendsOnly ==
  ASSUME ~Pool, TypeOK, IoContext \/ Application \/ Finished \/ UNCHANGED vars
  PROVE  strand' = strand \/ (\E k \in Coroutines : Resumed(k)) \/ PostedTo
<1>1. ASSUME NEW k \in Coroutines, TimerFires(k) \/ OperationSucceeds(k) \/ OperationFails(k)
      PROVE  Resumed(k)
  BY <1>1 DEF TimerFires, OperationSucceeds, OperationFails, Viable, OnSocket, Becomes, Resumed
<1>2. CASE ResolverAnswers
  BY <1>2 DEF ResolverAnswers, Becomes, Resumed
<1>3. CASE Expire \/ Pong \/ Finished \/ UNCHANGED vars
  BY <1>3 DEF Expire, Pong, Finished, vars
<1>4. CASE Application
  BY <1>4 DEF TypeOK, Application, Write, WritePosts, Reconnect, Stop, PostedTo
<1> QED
  BY <1>1, <1>2, <1>3, <1>4, OneThread DEF IoContext

\* Every step moves the strand in one of these ways.
LEMMA StrandSteps == ~Pool /\ TypeOK /\ [Next]_vars => StrandMoves
<1>. SUFFICES ASSUME ~Pool, TypeOK, [Next]_vars PROVE StrandMoves
  OBVIOUS
<1>1. CASE HandlerTurn
  <2>1. Taken \/ ClosedIn
    BY <1>1 DEF HandlerTurn, HandleReadStart, Polled, Resolved, Accepted, Secured, AttemptFails,
                Established, BackedOff, ReadDone, ReadFails, MonitorStart, MonitorWakes, Pinged,
                Judge, RunPosted, Wrote, WriteFails, Taken, ClosedIn, Turn
  <2> QED
    BY <2>1 DEF StrandMoves, NothingPosted
<1>2. CASE IoContext \/ Application \/ Finished \/ UNCHANGED vars
  BY <1>2, AppendsOnly DEF StrandMoves, NothingPosted
<1> QED
  BY <1>1, <1>2 DEF Next

\* What is appended leaves the rest queued.
LEMMA AppendKeeps ==
  ASSUME TypeOK, NEW k, Queued(k),
         strand' = strand \/ (\E j \in Coroutines : Resumed(j)) \/ PostedTo
  PROVE  Has(strand', k)
<1>1. strand \in Seq(Handlers) /\ Has(strand, k)
  BY DEF TypeOK, Queued, Has
<1>2. ASSUME NEW h \in Handlers, strand' = Append(strand, h) PROVE Has(strand', k)
  <2>1. Has(Append(strand, h), k) <=> Has(strand, k) \/ h.co = k
    BY <1>1, Appending
  <2> QED
    BY <1>1, <1>2, <2>1
<1>3. ASSUME NEW j \in Coroutines, Resumed(j) PROVE Has(strand', k)
  BY <1>2, <1>3 DEF Resumed, Ready, Handlers
<1>4. CASE PostedTo
  BY <1>2, <1>4 DEF PostedTo, Posted, Handlers
<1> QED
  BY <1>1, <1>3, <1>4

\* A handler that is not run stays queued.
LEMMA StaysQueued ==
  ASSUME TypeOK, StrandMoves, NEW k, Queued(k), ~Turn(k)
  PROVE  Has(strand', k)
<1>1. strand \in Seq(Handlers) /\ Has(strand, k)
  BY DEF TypeOK, Queued, Has
<1>2. ASSUME strand # <<>> PROVE Rest \in Seq(Handlers) /\ Has(Rest, k)
  <2>1. Has(strand, k) => Head(strand).co = k \/ Has(Tail(strand), k)
    BY <1>1, <1>2, Taking
  <2> QED
    BY <1>1, <1>2, <2>1, TurnTakes DEF Turn, Rest
<1>3. CASE Taken
  BY <1>2, <1>3 DEF Taken
<1>4. CASE ClosedIn
  BY <1>2, <1>4, Closing DEF ClosedIn
<1> QED
  BY <1>3, <1>4, AppendKeeps DEF StrandMoves, NothingPosted

\* A coroutine is resumed once for each await.
ResumedOnce == \A k \in Coroutines : OnceIn(strand, k)

\* Having run, a coroutine is not queued, also if its turn closes the session.
LEMMA RunsOnce ==
  ASSUME TypeOK, ResumedOnce, NEW k \in Coroutines, Turn(k), Taken \/ ClosedIn
  PROVE  ~Has(strand', k)
<1>1. strand \in Seq(Handlers) /\ strand # <<>> /\ Head(strand).co = k /\ OnceIn(strand, k)
  BY DEF TypeOK, Turn, ResumedOnce
<1>2. ~Has(Rest, k) /\ Has(strand, k)
  BY <1>1, Taking DEF Rest
<1>3. ~Aborted(k, conn)
  BY <1>2 DEF Aborted, OnSocket, Queued, Has
<1>4. Rest \in Seq(Handlers)
  BY <1>1, TurnTakes
<1> QED
  BY <1>2, <1>3, <1>4, Closing DEF Taken, ClosedIn

\* Every step resumes a coroutine at most once.
LEMMA ResumedOnceStep ==
  ASSUME TypeOK, ResumedOnce, StrandMoves
  PROVE  ResumedOnce'
<1>. SUFFICES ASSUME NEW k \in Coroutines PROVE OnceIn(strand', k)
  BY DEF ResumedOnce
<1>1. strand \in Seq(Handlers) /\ OnceIn(strand, k)
  BY DEF TypeOK, ResumedOnce
<1>2. ASSUME strand # <<>>
      PROVE  Rest \in Seq(Handlers) /\ OnceIn(Rest, k) /\ (Has(Rest, k) => Queued(k))
  <2>1. OnceIn(Rest, k) /\ (Has(Rest, k) => Has(strand, k))
    BY <1>1, <1>2, Taking DEF Rest
  <2>2. Has(strand, k) => Queued(k)
    BY DEF Has, Queued
  <2> QED
    BY <1>1, <1>2, <2>1, <2>2, TurnTakes
<1>3. ASSUME NEW h \in Handlers, strand' = Append(strand, h), h.co = k => ~Queued(k)
      PROVE  OnceIn(strand', k)
  <2>1. OnceIn(strand, k) /\ ~(Has(strand, k) /\ h.co = k) => OnceIn(Append(strand, h), k)
    BY <1>1, Appending
  <2>2. Has(strand, k) => Queued(k)
    BY DEF Has, Queued
  <2> QED
    BY <1>1, <1>3, <2>1, <2>2
<1>4. CASE Taken
  BY <1>2, <1>4 DEF Taken
<1>5. CASE ClosedIn
  <2>1. ~(Has(Rest, k) /\ Aborted(k, conn))
    BY <1>2, <1>5 DEF ClosedIn, Aborted, OnSocket
  <2> QED
    BY <1>2, <1>5, <2>1, Closing DEF ClosedIn
<1>6. ASSUME NEW j \in Coroutines, Resumed(j) PROVE OnceIn(strand', k)
  BY <1>3, <1>6 DEF Resumed, Ready, Handlers
<1>7. CASE PostedTo
  BY <1>3, <1>7 DEF PostedTo, Posted, Handlers
<1> QED
  BY <1>1, <1>4, <1>5, <1>6, <1>7 DEF StrandMoves, NothingPosted

\* What is queued, or posted, ahead of b stays ahead of it.
LEMMA StaysAhead ==
  ASSUME TypeOK, StrandMoves, NEW a, NEW b, Ahead(strand, a, b),
         \/ a \in Coroutines /\ Queued(a)
         \/ a = "post" /\ NothingPosted
  PROVE  Ahead(strand', a, b)
<1>1. strand \in Seq(Handlers)
  BY DEF TypeOK
<1>2. ASSUME strand # <<>> PROVE Rest \in Seq(Handlers) /\ Ahead(Rest, a, b)
  <2>1. Ahead(Rest, a, b)
    BY <1>1, <1>2, Taking DEF Rest
  <2> QED
    BY <1>1, <1>2, <2>1, TurnTakes
<1>3. ASSUME NEW h \in Handlers, strand' = Append(strand, h), h.co # a
      PROVE  Ahead(strand', a, b)
  <2>1. Ahead(strand, a, b) /\ h.co # a => Ahead(Append(strand, h), a, b)
    BY <1>1, Appending
  <2> QED
    BY <1>3, <2>1
<1>4. CASE Taken
  BY <1>2, <1>4 DEF Taken
<1>5. CASE ClosedIn
  <2>1. ~(a \in Coroutines /\ Aborted(a, conn))
    BY DEF Aborted, OnSocket
  <2> QED
    BY <1>2, <1>5, <2>1, Closing DEF ClosedIn
<1>6. ASSUME NEW j \in Coroutines, Resumed(j) PROVE Ahead(strand', a, b)
  <2>1. PICK ok \in BOOLEAN : strand' = Append(strand, Ready(j, ok))
    BY <1>6 DEF Resumed
  <2>2. Ready(j, ok) \in Handlers /\ Ready(j, ok).co = j
    BY DEF Ready, Handlers
  <2>3. j # a
    BY <1>6 DEF Resumed
  <2> QED
    BY <1>3, <2>1, <2>2, <2>3
<1>7. CASE PostedTo /\ a # "post"
  <2>1. PICK m \in Msgs : strand' = Append(strand, Posted(m))
    BY <1>7 DEF PostedTo
  <2>2. Posted(m) \in Handlers /\ Posted(m).co = "post" /\ "post" \notin Coroutines
    BY DEF Posted, Handlers
  <2> QED
    BY <1>3, <1>7, <2>1, <2>2
<1> QED
  BY <1>1, <1>4, <1>5, <1>6, <1>7 DEF StrandMoves, NothingPosted

-----------------------------------------------------------------------------
(* The writer of a replaced connection, with one thread *)

\* An open Connected session is being read.
OpenIsRead ==
  status = "Connected" /\ Open(conn) => pc["HandleRead"] = "read" /\ loc["HandleRead"] = conn

\* HandleRead is not yet back in Connect, and every a of the strand runs before it can be.
NotBefore(a) ==
  /\ pc["HandleRead"] \in {"read", "poll"}
  /\ pc["HandleRead"] = "poll" => Ahead(strand, a, "HandleRead")

\* A HandleWrite at work is on the open session, or will have run before the next.
WriterOfSession(w) ==
  Writing(w) /\ status # "Closed" =>
    IF loc[w] = conn THEN status = "Connected" /\ Open(conn)
    ELSE status = "Disconnected" /\ Queued(w) /\ NotBefore(w)

OInv == ~Pool /\ IInv /\ ResumedOnce /\ OpenIsRead /\ \A w \in Writers : WriterOfSession(w)

\* No HandleWrite is at work while HandleRead is anywhere else, or about to connect.
LEMMA NoWriterAtStart ==
  ASSUME OInv, NEW w \in Writers, Writing(w),
         \/ pc["HandleRead"] \notin {"read", "poll"}
         \/ pc["HandleRead"] = "poll" /\ Turn("HandleRead") /\ status # "Connected"
  PROVE  status = "Closed"
<1>. SUFFICES ASSUME status # "Closed" PROVE FALSE
  OBVIOUS
<1>1. WriterOfSession(w) /\ ConnectedIsRead /\ strand \in Seq(Handlers)
  BY DEF OInv, IInv, TypeOK
<1>2. status = "Disconnected" /\ Queued(w) /\ NotBefore(w)
  BY <1>1 DEF WriterOfSession, ConnectedIsRead, OInv, OpenIsRead
<1>3. Ahead(strand, w, "HandleRead") /\ Turn("HandleRead")
  BY <1>2 DEF NotBefore
<1>4. Ahead(strand, w, "HandleRead") /\ Head(strand).co = "HandleRead" => ~Has(strand, w)
  BY <1>1, <1>3, Taking DEF Turn
<1> QED
  BY <1>2, <1>3, <1>4 DEF Turn, Queued, Has

\* What is queued ahead of HandleRead's next look at the status stays there.
LEMMA NotBeforeKeeps ==
  ASSUME TypeOK, StrandMoves, NEW a, NotBefore(a),
         \/ a \in Coroutines /\ Queued(a)
         \/ a = "post" /\ NothingPosted,
         \/ pc'["HandleRead"] = pc["HandleRead"]
         \/ pc'["HandleRead"] \in {"read", "poll"} /\ ~Has(strand', "HandleRead")
  PROVE  NotBefore(a)'
<1>1. CASE pc'["HandleRead"] = pc["HandleRead"]
  BY <1>1, StaysAhead DEF NotBefore
<1>2. CASE pc'["HandleRead"] \in {"read", "poll"} /\ ~Has(strand', "HandleRead")
  BY <1>2 DEF NotBefore, Ahead, Has
<1> QED
  BY <1>1, <1>2

\* A HandleWrite that this step does not run, in a session it does not end.
LEMMA WriterKeeps ==
  ASSUME OInv, StrandMoves, NEW w \in Writers, ~Turn(w),
         pc'[w] = pc[w], loc'[w] = loc[w], conn' = conn, status' \in {status, "Closed"},
         Open(conn) => Open(conn)',
         \/ pc'["HandleRead"] = pc["HandleRead"]
         \/ pc'["HandleRead"] \in {"read", "poll"} /\ ~Has(strand', "HandleRead")
  PROVE  WriterOfSession(w)'
<1>. SUFFICES ASSUME Writing(w)', status' # "Closed"
              PROVE  IF loc'[w] = conn' THEN status' = "Connected" /\ Open(conn)'
                     ELSE status' = "Disconnected" /\ Queued(w)' /\ NotBefore(w)'
  BY DEF WriterOfSession
<1>1. Writing(w) /\ status # "Closed" /\ status' = status /\ WriterOfSession(w) /\ TypeOK
  BY DEF Writing, OInv, IInv
<1>2. CASE loc[w] = conn
  BY <1>1, <1>2 DEF WriterOfSession
<1>3. CASE loc[w] # conn
  <2>1. status = "Disconnected" /\ Queued(w) /\ NotBefore(w)
    BY <1>1, <1>3 DEF WriterOfSession
  <2>2. Has(strand', w)
    BY <1>1, <2>1, StaysQueued
  <2>3. NotBefore(w)'
    BY <1>1, <2>1, NotBeforeKeeps
  <2> QED
    BY <1>1, <1>3, <2>1, <2>2, <2>3 DEF Queued, Has
<1> QED
  BY <1>2, <1>3

\* A HandleWrite at work when another coroutine closes the session.
LEMMA WriterClosed ==
  ASSUME OInv, ClosedIn, NEW w \in Writers, ~Turn(w), pc'[w] = pc[w], loc'[w] = loc[w],
         \/ pc'["HandleRead"] = pc["HandleRead"]
         \/ pc'["HandleRead"] \in {"read", "poll"} /\ ~Has(strand', "HandleRead")
         \/ pc["HandleRead"] \notin {"read", "poll"}
  PROVE  WriterOfSession(w)'
<1>. SUFFICES ASSUME Writing(w)', status' # "Closed"
              PROVE  loc'[w] # conn' /\ status' = "Disconnected" /\ Queued(w)' /\ NotBefore(w)'
  BY DEF WriterOfSession
<1>1. TypeOK /\ StrandMoves /\ Rest \in Seq(Handlers) /\ WriterOfSession(w)
  BY TurnTakes DEF OInv, IInv, StrandMoves, NothingPosted, ClosedIn
<1>2. Writing(w) /\ pc[w] = "write"
  BY DEF Writing
<1>3. /\ status # "Closed" /\ status' = "Disconnected"
      /\ conn' # loc[w]
  BY <1>1, CloseEffect, CloseStatus DEF ClosedIn, OInv
<1>4. pc["HandleRead"] \in {"read", "poll"}
  BY <1>2, <1>3, NoWriterAtStart
<1>5. CASE loc[w] = conn
  <2>1. Open(conn) /\ pc["HandleRead"] = "read"
    BY <1>1, <1>2, <1>3, <1>5 DEF WriterOfSession, OInv, OpenIsRead
  <2>2. Queued(w) \/ Aborted(w, conn)
    BY <1>2, <1>5, <2>1 DEF Aborted, OnSocket, SocketWaits
  <2>3. Has(strand', w)
    BY <1>1, <2>2, StaysQueued, Closing DEF ClosedIn
  <2>4. NotBefore(w)'
    BY <1>4, <2>1 DEF NotBefore, Ahead, Has
  <2> QED
    BY <1>3, <2>3, <2>4 DEF Queued, Has
<1>6. CASE loc[w] # conn
  <2>1. Queued(w) /\ NotBefore(w)
    BY <1>1, <1>2, <1>3, <1>6 DEF WriterOfSession
  <2>2. Has(strand', w)
    BY <1>1, <2>1, StaysQueued
  <2>3. NotBefore(w)'
    BY <1>1, <1>4, <2>1, NotBeforeKeeps
  <2> QED
    BY <1>3, <2>2, <2>3 DEF Queued, Has
<1> QED
  BY <1>5, <1>6

\* HandleRead moves where no HandleWrite is at work, unless the client is stopped.
LEMMA WriterAbsent ==
  ASSUME OInv, NEW w \in Writers, pc'[w] = pc[w], status = "Closed" => status' = "Closed",
         \/ pc["HandleRead"] \notin {"read", "poll"}
         \/ pc["HandleRead"] = "poll" /\ Turn("HandleRead") /\ status # "Connected"
  PROVE  WriterOfSession(w)'
<1>1. Writing(w)' => Writing(w)
  BY DEF Writing
<1> QED
  BY <1>1, NoWriterAtStart DEF WriterOfSession

\* Where HandleRead is after the head of its loop, and that it moves alone.
LEMMA ReadLoopMoves ==
  ASSUME ~Pool, TypeOK, ReadLoop
  PROVE  /\ pc'["HandleRead"] \in {"read", "poll", "done"}
         /\ status' # "Closed" => pc'["HandleRead"] \in {"read", "poll"}
         /\ status' = "Connected" /\ link'[conn'] # "closed" =>
              pc'["HandleRead"] = "read" /\ loc'["HandleRead"] = conn'
         /\ \A j \in Coroutines \ {"HandleRead"} : pc'[j] = pc[j] /\ loc'[j] = loc[j]
<1>1. \/ status' = "Closed" /\ Await("HandleRead", "done", NoConn)
      \/ status' = "Connected" /\ link'[conn'] # "closed" /\ Await("HandleRead", "read", conn')
      \/ /\ status' # "Closed" /\ ~(status' = "Connected" /\ link'[conn'] # "closed")
         /\ Await("HandleRead", "poll", conn')
  BY OneThread
<1> QED
  BY <1>1, AwaitEffect

\* Connect, or the return from it, concerns HandleRead alone, and Closed stays Closed.
LEMMA ConnectEffect ==
  ASSUME ~Pool, TypeOK, NEW o, ConnectOrReturn(o)
  PROVE  /\ status = "Closed" => status' = "Closed"
         /\ \A j \in Coroutines \ {"HandleRead"} : pc'[j] = pc[j] /\ loc'[j] = loc[j]
         /\ status' = "Connected" /\ link'[conn'] # "closed" =>
              pc'["HandleRead"] = "read" /\ loc'["HandleRead"] = conn'
<1>1. CASE Connectable(status)
  <2>1. Await("HandleRead", "resolve", conn) /\ status' = "Connecting"
    BY <1>1, OneThread DEF ConnectOrReturn, StartAttempt, SetState, Connectable
  <2> QED
    BY <1>1, <2>1, AwaitEffect DEF Connectable
<1>2. CASE ~Connectable(status)
  BY <1>2, ReadLoopMoves DEF ConnectOrReturn
<1> QED
  BY <1>1, <1>2

\* Monitor's judgement concerns Monitor alone.
LEMMA JudgeEffect ==
  ASSUME TypeOK, NEW c, NEW late, Judge(c, late)
  PROVE  \A j \in Coroutines \ {"Monitor"} : pc'[j] = pc[j] /\ loc'[j] = loc[j]
BY AwaitEffect DEF Judge

\* A HandleWrite that goes on writes to the open session; the others are untouched.
LEMMA WriteLoopEffect ==
  ASSUME TypeOK, NEW w \in Writers, NEW q, WriteLoop(w, q)
  PROVE  /\ pc'[w] = "write" => loc'[w] = conn /\ status = "Connected" /\ Open(conn)
         /\ \A j \in Coroutines \ {w} : pc'[j] = pc[j] /\ loc'[j] = loc[j]
<1>1. \/ status = "Connected" /\ Open(conn) /\ Await(w, "write", conn)
      \/ Await(w, "idle", NoConn)
  BY DEF WriteLoop
<1> QED
  BY <1>1, AwaitEffect

\* Every step keeps each HandleWrite with its session.
LEMMA WriterStep ==
  ASSUME OInv, [Next]_vars, NEW w \in Writers
  PROVE  WriterOfSession(w)'
<1>1. ~Pool /\ TypeOK /\ StrandMoves /\ ResumedOnce
  BY StrandSteps DEF OInv, IInv
<1>2. w # "HandleRead" /\ w # "Monitor" /\ w # "post" /\ w \in Coroutines
  OBVIOUS
<1>3. \A k : Turn(k) /\ k # w => ~Turn(w)
  BY DEF Turn
<1>4. CASE HandleReadStart \/ BackedOff
  BY <1>1, <1>2, <1>4, ConnectEffect, WriterAbsent DEF HandleReadStart, BackedOff
<1>5. CASE Polled
  <2>1. CASE status # "Connected"
    <3>1. pc'[w] = pc[w] /\ (status = "Closed" => status' = "Closed")
      BY <1>1, <1>2, <1>5, OneThread, ConnectEffect, ReadLoopMoves DEF Polled
    <3> QED
      BY <1>1, <1>5, <2>1, <3>1, WriterAbsent DEF Polled
  <2>2. CASE status = "Connected"
    <3>1. UNCHANGED <<status, conn, link>> /\ ReadLoop /\ ~Turn(w) /\ Taken
      BY OneThread, <1>1, <1>2, <1>3, <1>5, <2>2 DEF Polled, Taken, Turn
    <3>2. pc'["HandleRead"] \in {"read", "poll"} /\ pc'[w] = pc[w] /\ loc'[w] = loc[w]
      BY <1>1, <1>2, <2>2, <3>1, ReadLoopMoves
    <3>3. ~Has(strand', "HandleRead")
      BY <1>1, <1>5, <3>1, RunsOnce DEF Polled
    <3> QED
      BY <1>1, <3>1, <3>2, <3>3, WriterKeeps DEF Open
  <2> QED
    BY <2>1, <2>2
<1>6. CASE Resolved \/ Accepted \/ Secured \/ AttemptFails
  <2>1. pc["HandleRead"] \notin {"read", "poll"}
    BY <1>6 DEF Resolved, Accepted, Secured, AttemptFails, Stages
  <2>2. pc'[w] = pc[w]
    BY <1>1, <1>2, <1>6, AwaitEffect DEF Resolved, Accepted, Secured, AttemptFails
  <2>3. status = "Closed" => status' = "Closed"
    BY <1>1, <1>6, CloseStatus DEF Resolved, Accepted, Secured, AttemptFails
  <2> QED
    BY <2>1, <2>2, <2>3, WriterAbsent
<1>7. CASE Established
  <2>1. pc["HandleRead"] \notin {"read", "poll"} /\ (status = "Closed" => status' = "Closed")
    BY <1>1, <1>7, OneThread DEF Established, SetState, Stages
  <2>2. pc'[w] = pc[w]
    BY <1>1, <1>2, <1>7, ReadLoopMoves DEF Established
  <2> QED
    BY <2>1, <2>2, WriterAbsent
<1>8. CASE ReadDone
  <2>1. UNCHANGED <<status, conn, link>> /\ ReadLoop /\ ~Turn(w) /\ Taken
    BY OneThread, <1>1, <1>2, <1>3, <1>8 DEF ReadDone, Taken, Turn
  <2>2. CASE status = "Closed"
    BY <2>1, <2>2 DEF WriterOfSession
  <2>3. CASE status # "Closed"
    <3>1. pc'["HandleRead"] \in {"read", "poll"} /\ pc'[w] = pc[w] /\ loc'[w] = loc[w]
      BY <1>1, <1>2, <2>1, <2>3, ReadLoopMoves
    <3>2. ~Has(strand', "HandleRead")
      BY <1>1, <1>8, <2>1, RunsOnce DEF ReadDone
    <3> QED
      BY <1>1, <2>1, <3>1, <3>2, WriterKeeps DEF Open
  <2> QED
    BY <2>2, <2>3
<1>9. CASE ReadFails
  <2>1. ReadLoop /\ ~Turn(w) /\ ClosedIn
    BY <1>2, <1>3, <1>9 DEF ReadFails, ClosedIn, Turn
  <2>2. CASE status' = "Closed"
    BY <2>2 DEF WriterOfSession
  <2>3. CASE status' # "Closed"
    <3>1. pc'["HandleRead"] \in {"read", "poll"} /\ pc'[w] = pc[w] /\ loc'[w] = loc[w]
      BY <1>1, <1>2, <2>1, <2>3, ReadLoopMoves
    <3>2. ~Has(strand', "HandleRead")
      BY <1>1, <1>9, <2>1, RunsOnce DEF ReadFails
    <3> QED
      BY <2>1, <3>1, <3>2, WriterClosed
  <2> QED
    BY <2>2, <2>3
<1>10. ASSUME Turn("Monitor"), pc'[w] = pc[w], loc'[w] = loc[w],
              pc'["HandleRead"] = pc["HandleRead"],
              ClosedIn \/ UNCHANGED <<status, conn, link>>
       PROVE  WriterOfSession(w)'
  <2>1. ~Turn(w)
    BY <1>2, <1>3, <1>10
  <2>2. CASE ClosedIn
    BY <1>10, <2>1, <2>2, WriterClosed
  <2>3. CASE UNCHANGED <<status, conn, link>>
    BY <1>1, <1>10, <2>1, <2>3, WriterKeeps DEF Open
  <2> QED
    BY <1>10, <2>2, <2>3
<1>11. CASE MonitorStart
  <2>1. /\ pc'[w] = pc[w] /\ loc'[w] = loc[w] /\ pc'["HandleRead"] = pc["HandleRead"]
    BY <1>1, <1>2, <1>11, AwaitEffect DEF MonitorStart
  <2> QED
    BY <1>10, <1>11, <2>1 DEF MonitorStart
<1>12. ASSUME NEW c, NEW late, Judge(c, late), Turn("Monitor")
       PROVE  WriterOfSession(w)'
  <2>1. /\ pc'[w] = pc[w] /\ loc'[w] = loc[w] /\ pc'["HandleRead"] = pc["HandleRead"]
    BY <1>1, <1>2, <1>12, JudgeEffect
  <2>2. ClosedIn \/ UNCHANGED <<status, conn, link>>
    BY <1>1, <1>12, OneThread DEF Judge, ClosedIn, Turn
  <2> QED
    BY <1>10, <1>12, <2>1, <2>2
<1>13. CASE MonitorWakes
  <2>1. CASE status = "Connected" /\ link[conn] = "ws"
    <3>1. /\ pc'[w] = pc[w] /\ loc'[w] = loc[w] /\ pc'["HandleRead"] = pc["HandleRead"]
      BY <1>1, <1>2, <1>13, <2>1, AwaitEffect DEF MonitorWakes
    <3> QED
      BY <1>10, <1>13, <2>1, <3>1 DEF MonitorWakes
  <2>2. CASE ~(status = "Connected" /\ link[conn] = "ws")
    BY <1>12, <1>13, <2>2 DEF MonitorWakes
  <2> QED
    BY <2>1, <2>2
<1>14. CASE Pinged
  BY <1>12, <1>14 DEF Pinged
<1>15. ASSUME UNCHANGED <<status, conn, link>>, NEW v \in Writers, NEW q, WriteLoop(v, q),
              \A u \in Writers \ {v} : ~Writing(u)
       PROVE  WriterOfSession(w)'
  <2>1. CASE w = v
    BY <1>1, <1>15, <2>1, WriteLoopEffect DEF WriterOfSession, Writing, Open
  <2>2. CASE w # v
    <3>1. pc'[w] = pc[w] /\ ~Writing(w)
      BY <1>1, <1>2, <1>15, <2>2, WriteLoopEffect
    <3> QED
      BY <3>1 DEF WriterOfSession, Writing
  <2> QED
    BY <2>1, <2>2
<1>16. CASE RunPosted
  <2>1. UNCHANGED <<status, conn, link>> /\ ~Turn(w)
    BY <1>2, <1>3, <1>16 DEF RunPosted
  <2>2. CASE writing
    <3>1. UNCHANGED <<pc, loc>>
      BY <1>16, <2>2 DEF RunPosted
    <3> QED
      BY <1>1, <2>1, <3>1, WriterKeeps DEF Open
  <2>3. CASE ~writing
    <3>1. \A u \in Writers : ~Writing(u)
      BY <2>3 DEF OInv, IInv, OneWriter
    <3>2. \E v \in Writers : WriteLoop(v, Append(queue, Head(strand).msg))
      BY <1>16, <2>3 DEF RunPosted
    <3> QED
      BY <1>15, <2>1, <3>1, <3>2
  <2> QED
    BY <2>2, <2>3
<1>17. ASSUME NEW v \in Writers, Wrote(v) PROVE WriterOfSession(w)'
  <2>1. \A u \in Writers \ {v} : ~Writing(u)
    BY <1>17 DEF Wrote, OInv, IInv, OneWriter, Writing
  <2> QED
    BY <1>15, <1>17, <2>1 DEF Wrote
<1>18. ASSUME NEW v \in Writers, WriteFails(v) PROVE WriterOfSession(w)'
  <2>1. \A u \in Writers \ {v} : ~Writing(u)
    BY <1>18 DEF WriteFails, OInv, IInv, OneWriter, Writing
  <2>2. pc'[v] = "idle" /\ \A u \in Writers \ {v} : pc'[u] = pc[u]
    BY <1>1, <1>18, AwaitEffect DEF WriteFails
  <2> QED
    BY <2>1, <2>2 DEF WriterOfSession, Writing
<1>19. ASSUME UNCHANGED <<conn, pc, loc>>, status' \in {status, "Closed"}, Open(conn) => Open(conn)',
              Queued(w) => Has(strand', w)
       PROVE  WriterOfSession(w)'
  <2>1. Writing(w)' /\ status' # "Closed" => Writing(w) /\ status # "Closed" /\ status' = status
    BY <1>19 DEF Writing
  <2>2. ASSUME Queued(w), NotBefore(w) PROVE NotBefore(w)'
    BY <1>1, <1>2, <1>19, <2>2, NotBeforeKeeps
  <2>3. WriterOfSession(w)
    BY DEF OInv
  <2> QED
    BY <1>19, <2>1, <2>2, <2>3 DEF WriterOfSession, Queued, Has
<1>20. CASE IoContext \/ Application \/ Finished \/ UNCHANGED vars
  <2>0. ~Overtakes
    BY <1>1, OneThread
  <2>1. UNCHANGED <<conn, pc, loc>> /\ status' \in {status, "Closed"}
    BY <1>20, <2>0 DEF IoContext, TimerFires, OperationSucceeds, OperationFails, ResolverAnswers,
       Expire, Pong, Application, Write, WritePosts, Reconnect, Stop, SetState, Finished, vars
  <2>2. Open(conn) => Open(conn)'
    BY <1>1, <1>20, <2>0 DEF IoContext, TimerFires, OperationSucceeds, OperationFails, ResolverAnswers,
       Expire, Pong, Application, Write, WritePosts, Reconnect, Stop, Finished, vars, TypeOK, Open
  <2>3. strand' = strand \/ (\E k \in Coroutines : Resumed(k)) \/ PostedTo
    BY <1>1, <1>20, AppendsOnly
  <2>4. Queued(w) => Has(strand', w)
    BY <1>1, <2>3, AppendKeeps
  <2> QED
    BY <1>19, <2>1, <2>2, <2>4
<1> QED
  BY <1>4, <1>5, <1>6, <1>7, <1>8, <1>9, <1>11, <1>13, <1>14, <1>16, <1>17, <1>18, <1>20
     DEF Next, HandlerTurn

\* Every step leaves an open Connected session with a HandleRead that reads it.
LEMMA OpenIsReadStep ==
  ASSUME OInv, [Next]_vars
  PROVE  OpenIsRead'
<1>1. ~Pool /\ TypeOK /\ ConnectedIsRead
  BY DEF OInv, IInv
<1>2. ASSUME UNCHANGED conn, status' \in {status, "Closed"}, Open(conn)' => Open(conn),
             pc'["HandleRead"] = pc["HandleRead"], loc'["HandleRead"] = loc["HandleRead"]
      PROVE  OpenIsRead'
  BY <1>2 DEF OInv, OpenIsRead
<1>3. ASSUME NEW rest, Close(rest) PROVE OpenIsRead'
  BY <1>1, <1>3, CloseStatus DEF OpenIsRead
<1>4. CASE HandleReadStart \/ BackedOff
  BY <1>1, <1>4, ConnectEffect DEF HandleReadStart, BackedOff, OpenIsRead, Open
<1>5. CASE Polled
  BY <1>1, <1>5, OneThread, ConnectEffect, ReadLoopMoves DEF Polled, OpenIsRead, Open
<1>6. CASE Resolved \/ Accepted \/ Secured
  BY <1>1, <1>6 DEF Resolved, Accepted, Secured, ConnectedIsRead, OpenIsRead
<1>7. CASE Established \/ ReadDone
  BY <1>1, <1>7, ReadLoopMoves DEF Established, ReadDone, OpenIsRead, Open
<1>8. CASE AttemptFails \/ ReadFails \/ \E w \in Writers : WriteFails(w)
  BY <1>3, <1>8 DEF AttemptFails, ReadFails, WriteFails
<1>9. CASE MonitorStart
  <2>1. pc'["HandleRead"] = pc["HandleRead"] /\ loc'["HandleRead"] = loc["HandleRead"]
    BY <1>1, <1>9, AwaitEffect DEF MonitorStart
  <2> QED
    BY <1>2, <1>9, <2>1 DEF MonitorStart, Open
<1>10. ASSUME NEW c, NEW late, Judge(c, late) PROVE OpenIsRead'
  <2>1. pc'["HandleRead"] = pc["HandleRead"] /\ loc'["HandleRead"] = loc["HandleRead"]
    BY <1>1, <1>10, JudgeEffect
  <2>2. (\E rest : Close(rest)) \/ UNCHANGED <<status, conn, link>>
    BY <1>1, <1>10, OneThread DEF Judge
  <2> QED
    BY <1>2, <1>3, <2>1, <2>2 DEF Open
<1>11. CASE MonitorWakes \/ Pinged
  <2>1. CASE \E c, late : Judge(c, late)
    BY <1>10, <2>1
  <2>2. CASE MonitorWakes /\ status = "Connected" /\ link[conn] = "ws"
    <3>1. pc'["HandleRead"] = pc["HandleRead"] /\ loc'["HandleRead"] = loc["HandleRead"]
      BY <1>1, <2>2, AwaitEffect DEF MonitorWakes
    <3> QED
      BY <1>2, <2>2, <3>1 DEF MonitorWakes, Open
  <2> QED
    BY <1>11, <2>1, <2>2 DEF MonitorWakes, Pinged
<1>12. CASE RunPosted \/ \E w \in Writers : Wrote(w)
  <2>1. pc'["HandleRead"] = pc["HandleRead"] /\ loc'["HandleRead"] = loc["HandleRead"]
    <3>1. (\E w \in Writers : \E q : WriteLoop(w, q)) \/ UNCHANGED <<pc, loc>>
      BY <1>12 DEF RunPosted, Wrote
    <3> QED
      BY <1>1, <3>1, WriteLoopEffect
  <2> QED
    BY <1>2, <1>12, <2>1 DEF RunPosted, Wrote, Open
<1>13. CASE IoContext \/ Application \/ Finished \/ UNCHANGED vars
  <2>1. UNCHANGED <<conn, pc, loc>> /\ status' \in {status, "Closed"}
    BY <1>1, <1>13, OneThread DEF IoContext, TimerFires, OperationSucceeds, OperationFails, ResolverAnswers, Expire,
                 Pong, Application, Write, WritePosts, Reconnect, Stop, SetState, Finished, vars
  <2>2. Open(conn)' => Open(conn)
    BY <1>1, <1>13, OneThread DEF IoContext, TimerFires, OperationSucceeds, OperationFails, ResolverAnswers,
       Expire, Pong, Application, Write, WritePosts, Reconnect, Stop, Finished, vars, TypeOK, Open
  <2> QED
    BY <1>2, <2>1, <2>2
<1> QED
  BY <1>4, <1>5, <1>6, <1>7, <1>8, <1>9, <1>11, <1>12, <1>13 DEF Next, HandlerTurn

\* Every step preserves the invariant of the order.
LEMMA OrderStep == OInv /\ [Next]_vars => OInv'
<1>. SUFFICES ASSUME OInv, [Next]_vars PROVE OInv'
  OBVIOUS
<1>1. IInv'
  BY InvStep DEF OInv
<1>2. ResumedOnce'
  BY StrandSteps, ResumedOnceStep DEF OInv, IInv
<1> QED
  BY <1>1, <1>2, OpenIsReadStep, WriterStep DEF OInv

\* Both coroutines start once, no session is open, nothing is being written.
LEMMA InitOrder == ~Pool /\ Init => OInv
<1>. SUFFICES ASSUME ~Pool, Init PROVE OInv
  OBVIOUS
<1>1. strand = <<Ready("HandleRead", TRUE), Ready("Monitor", TRUE)>>
  BY DEF Init
<1>2. /\ Len(strand) = 2 /\ strand[1].co = "HandleRead" /\ strand[2].co = "Monitor"
  BY <1>1 DEF Ready
<1>3. ResumedOnce
  BY <1>2 DEF ResumedOnce, OnceIn
<1>4. OpenIsRead /\ \A w \in Writers : WriterOfSession(w)
  BY DEF Init, OpenIsRead, WriterOfSession, Writing
<1> QED
  BY <1>3, <1>4, InitInv DEF OInv

\* The place of each writer on the strand agrees with the session it writes to.
LEMMA Order == ~Pool => (Spec => []OInv)
<1>. SUFFICES ASSUME ~Pool PROVE Spec => []OInv
  OBVIOUS
<1>1. OInv /\ [Next]_vars => OInv'
  BY OrderStep
<1>2. Init => OInv
  BY InitOrder
<1> QED
  BY <1>1, <1>2, PTL DEF Spec

\* With one thread, and Reconnect at any time, a HandleWrite that awaits a write on
\* a replaced connection wakes before the next attempt begins, so that the Close it
\* calls on its error never ends a session it does not belong to.
THEOREM StaleWriterHarmless == ~Pool => (Spec => []NoStaleWriter)
<1>. SUFFICES ASSUME ~Pool PROVE Spec => []NoStaleWriter
  OBVIOUS
<1>1. OInv => NoStaleWriter
  BY DEF OInv, IInv, TypeOK, NoStaleWriter, WriterOfSession
<1>2. Spec => []OInv
  BY Order
<1> QED
  BY <1>1, <1>2, PTL

-----------------------------------------------------------------------------
(* One thread and no Reconnect: the programs as they are *)

Alone == ~Pool /\ ~Reconnects

\* No caller is between its test and its post, and nobody has asked to reconnect.
NoRequest == caller = NoMsg /\ reconnect = FALSE

\* An attempt begins on a closed connection.
FreshConnection == status \in {"Initialized", "Disconnected"} => ~Open(conn)

\* An attempt is one of the current connection, and a stage that has succeeded runs
\* next; or the session is closed and the failure of the attempt is queued.
AttemptOfConnection ==
  pc["HandleRead"] \in Stages /\ status # "Closed" =>
    \/ /\ status = "Connecting" /\ loc["HandleRead"] = conn
       /\ pc["HandleRead"] = "resolve" => ~Open(conn)
       /\ pc["HandleRead"] # "resolve" /\ HasOk(strand, "HandleRead") =>
            Head(strand).co = "HandleRead" /\ Open(conn)
    \/ status = "Disconnected" /\ Queued("HandleRead") /\ ~HasOk(strand, "HandleRead")

\* A posted message finds the session it was written in, or runs before the next.
PostsOfSession ==
  Queued("post") /\ status # "Closed" =>
    status = "Connected" \/ (status = "Disconnected" /\ NotBefore("post"))

\* Nothing is queued during an attempt.
ConnectingClear == status = "Connecting" => queue = <<>>

AInv == /\ OInv /\ NoRequest /\ FreshConnection /\ AttemptOfConnection
        /\ PostsOfSession /\ ConnectingClear /\ ConnectedMeansOpen /\ NoStrandedMessage

\* A posted function on the strand was there if this step posts none.
LEMMA PostFrom ==
  ASSUME TypeOK, NothingPosted, Has(strand', "post")
  PROVE  Queued("post")
<1>1. strand \in Seq(Handlers) /\ (Has(strand, "post") => Queued("post")) /\ "post" \notin Coroutines
  BY DEF TypeOK, Has, Queued
<1>2. ASSUME strand # <<>>, Has(Rest, "post") PROVE Queued("post")
  BY <1>1, <1>2, Taking DEF Rest
<1>3. CASE Taken
  BY <1>2, <1>3 DEF Taken
<1>4. CASE ClosedIn
  BY <1>1, <1>2, <1>4, TurnTakes, Closing DEF ClosedIn
<1>5. ASSUME NEW j \in Coroutines, Resumed(j) PROVE Queued("post")
  <2>1. PICK ok \in BOOLEAN : strand' = Append(strand, Ready(j, ok))
    BY <1>5 DEF Resumed
  <2>2. Ready(j, ok) \in Handlers /\ Ready(j, ok).co = j
    BY DEF Ready, Handlers
  <2>3. Has(Append(strand, Ready(j, ok)), "post") <=> Has(strand, "post") \/ Ready(j, ok).co = "post"
    BY <1>1, <2>2, Appending
  <2> QED
    BY <1>1, <2>1, <2>2, <2>3
<1> QED
  BY <1>1, <1>3, <1>4, <1>5 DEF NothingPosted

\* No posted function waits while HandleRead is anywhere else, or about to connect.
LEMMA NoPostAtStart ==
  ASSUME AInv, Queued("post"),
         \/ pc["HandleRead"] \notin {"read", "poll"}
         \/ pc["HandleRead"] = "poll" /\ Turn("HandleRead") /\ status # "Connected"
  PROVE  status = "Closed"
<1>. SUFFICES ASSUME status # "Closed" PROVE FALSE
  OBVIOUS
<1>1. PostsOfSession /\ ConnectedIsRead /\ strand \in Seq(Handlers)
  BY DEF AInv, OInv, IInv, TypeOK
<1>2. status = "Disconnected" /\ NotBefore("post")
  BY <1>1 DEF PostsOfSession, ConnectedIsRead
<1>3. Ahead(strand, "post", "HandleRead") /\ Turn("HandleRead")
  BY <1>2 DEF NotBefore
<1>4. Ahead(strand, "post", "HandleRead") /\ Head(strand).co = "HandleRead" => ~Has(strand, "post")
  BY <1>1, <1>3, Taking DEF Turn
<1> QED
  BY <1>3, <1>4 DEF Turn, Queued, Has

\* A stage that succeeds is one of the current connection, while Connecting.
LEMMA StageSucceeds ==
  ASSUME AInv, Turn("HandleRead"), Succeeded, pc["HandleRead"] \in Stages, status # "Closed"
  PROVE  /\ status = "Connecting" /\ loc["HandleRead"] = conn
         /\ pc["HandleRead"] # "resolve" => Open(conn)
<1>1. strand \in Seq(Handlers) /\ strand # <<>> /\ Head(strand).co = "HandleRead" /\ Head(strand).ok
  BY DEF AInv, OInv, IInv, TypeOK, Turn, Succeeded
<1>2. HasOk(strand, "HandleRead")
  BY <1>1, Taking
<1> QED
  BY <1>2 DEF AInv, AttemptOfConnection

\* What a Close leaves: a fresh connection that is closed, and no session.
LEMMA ClosedFresh ==
  ASSUME OInv, ClosedIn
  PROVE  /\ status' \in {"Closed", "Disconnected"} /\ ~Open(conn)' /\ queue' = <<>>
         /\ status' = "Closed" <=> status = "Closed"
<1>1. Rest \in Seq(Handlers) /\ TypeOK /\ OnlyTrackedOpen /\ Holds
  BY TurnTakes DEF OInv, IInv, ClosedIn
<1>2. /\ status' = IF status = "Closed" THEN "Closed" ELSE "Disconnected"
      /\ queue' = <<>> /\ link' = [link EXCEPT ![conn] = "closed"]
      /\ conn' \in Conns /\ conn' \notin {conn, outer, loc["HandleRead"]}
  BY <1>1, CloseEffect, CloseStatus DEF ClosedIn, OInv
<1>3. link[conn'] = "closed"
  BY <1>1, <1>2 DEF OnlyTrackedOpen, Open
<1> QED
  BY <1>1, <1>2, <1>3 DEF Open, TypeOK

HandleReadTurn ==
  \/ HandleReadStart \/ Polled \/ Resolved \/ Accepted \/ Secured \/ AttemptFails
  \/ Established \/ BackedOff \/ ReadDone \/ ReadFails

\* A step that leaves the session and HandleRead alone.
Quiet ==
  /\ UNCHANGED <<conn, reconnect, caller>> /\ status' \in {status, "Closed"}
  /\ Open(conn)' <=> Open(conn)
  /\ pc'["HandleRead"] = pc["HandleRead"] /\ loc'["HandleRead"] = loc["HandleRead"]
  /\ \/ strand' = strand
     \/ Taken /\ ~Turn("HandleRead")
     \/ \E k \in Coroutines, ok \in BOOLEAN :
          /\ ~Queued(k) /\ strand' = Append(strand, Ready(k, ok))
          /\ k = "HandleRead" /\ ok /\ pc[k] \in Stages \ {"resolve"} =>
               strand = <<>> /\ Open(loc[k])
     \/ PostedTo /\ status = "Connected" /\ status' = "Connected"

\* Monitor or HandleWrite ends the session.
Ended ==
  /\ ClosedIn /\ ~Turn("HandleRead") /\ reconnect' = FALSE /\ UNCHANGED caller
  /\ pc'["HandleRead"] = pc["HandleRead"] /\ loc'["HandleRead"] = loc["HandleRead"]
  /\ status = "Connecting" => Open(conn)

\* With one thread the other coroutines, the io_context and the application leave
\* the session alone or end it, and never an attempt that is still resolving.
LEMMA OthersStep ==
  ASSUME Alone, AInv, [Next]_vars, ~HandleReadTurn
  PROVE  Quiet \/ Ended
<1>1. TypeOK /\ NoRequest /\ ConnectingOwned /\ PingOfSession
  BY DEF AInv, OInv, IInv
<1>2. \A k : Turn(k) /\ k # "HandleRead" => ~Turn("HandleRead")
  BY DEF Turn
<1>3. ASSUME Turn("Monitor"), strand' = Rest, UNCHANGED <<status, conn, link, reconnect, caller>>,
             NEW label, NEW c, Await("Monitor", label, c)
      PROVE  Quiet
  <2>1. pc'["HandleRead"] = pc["HandleRead"] /\ loc'["HandleRead"] = loc["HandleRead"]
    BY <1>1, <1>3, AwaitEffect
  <2>2. Taken /\ ~Turn("HandleRead")
    BY <1>2, <1>3 DEF Taken, Turn
  <2> QED
    BY <1>3, <2>1, <2>2 DEF Quiet, Open
<1>4. ASSUME NEW c, NEW late, Judge(c, late), Turn("Monitor"), UNCHANGED caller,
             c = conn \/ (pc["Monitor"] = "ping" /\ c = loc["Monitor"])
      PROVE  Quiet \/ Ended
  <2>1. CASE MustClose(c, late)
    <3>1. pc'["HandleRead"] = pc["HandleRead"] /\ loc'["HandleRead"] = loc["HandleRead"]
      BY <1>1, <1>4, JudgeEffect
    <3>2. ClosedIn /\ reconnect' = FALSE /\ ~Turn("HandleRead")
      BY <1>2, <1>4, <2>1 DEF Judge, ClosedIn, Turn
    <3>3. status = "Connecting" => Open(conn)
      BY <1>1, <1>4, <2>1 DEF MustClose, NoRequest, PingOfSession
    <3> QED
      BY <1>4, <3>1, <3>2, <3>3 DEF Ended
  <2>2. CASE ~MustClose(c, late)
    BY <1>3, <1>4, <2>2, OneThread DEF Judge, Alone
  <2> QED
    BY <2>1, <2>2
<1>5. CASE MonitorStart
  BY <1>3, <1>5 DEF MonitorStart
<1>6. CASE MonitorWakes
  <2>1. CASE status = "Connected" /\ link[conn] = "ws"
    BY <1>3, <1>6, <2>1 DEF MonitorWakes
  <2>2. CASE ~(status = "Connected" /\ link[conn] = "ws")
    BY <1>4, <1>6, <2>2 DEF MonitorWakes
  <2> QED
    BY <2>1, <2>2
<1>7. CASE Pinged
  BY <1>4, <1>7 DEF Pinged
<1>8. CASE RunPosted \/ \E w \in Writers : Wrote(w)
  <2>1. pc'["HandleRead"] = pc["HandleRead"] /\ loc'["HandleRead"] = loc["HandleRead"]
    <3>1. (\E w \in Writers : \E q : WriteLoop(w, q)) \/ UNCHANGED <<pc, loc>>
      BY <1>8 DEF RunPosted, Wrote
    <3> QED
      BY <1>1, <3>1, WriteLoopEffect
  <2>2. Taken /\ ~Turn("HandleRead")
    BY <1>2, <1>8 DEF RunPosted, Wrote, Taken, Turn
  <2>3. UNCHANGED <<status, conn, link, reconnect, caller>>
    BY <1>8 DEF RunPosted, Wrote
  <2> QED
    BY <2>1, <2>2, <2>3 DEF Quiet, Open
<1>9. ASSUME NEW w \in Writers, WriteFails(w) PROVE Ended
  <2>1. pc'["HandleRead"] = pc["HandleRead"] /\ loc'["HandleRead"] = loc["HandleRead"]
    BY <1>1, <1>9, AwaitEffect DEF WriteFails
  <2>2. ClosedIn /\ ~Turn("HandleRead") /\ Writing(w) /\ UNCHANGED <<reconnect, caller>>
    BY <1>2, <1>9 DEF WriteFails, ClosedIn, Turn, Writing
  <2>3. status # "Connecting"
    BY <1>1, <2>2, NoWriterAtStart DEF AInv, ConnectingOwned, Stages
  <2> QED
    BY <1>1, <2>1, <2>2, <2>3 DEF Ended, NoRequest
<1>10. ASSUME UNCHANGED <<status, conn, pc, loc, reconnect, caller>>, Open(conn)' <=> Open(conn),
              NEW k \in Coroutines, NEW ok \in BOOLEAN, ~Queued(k),
              strand' = Append(strand, Ready(k, ok)),
              k = "HandleRead" /\ ok /\ pc[k] \in Stages \ {"resolve"} =>
                strand = <<>> /\ Open(loc[k])
       PROVE  Quiet
  BY <1>10 DEF Quiet
<1>11. ASSUME NEW k \in Coroutines, TimerFires(k) PROVE Quiet
  BY <1>10, <1>11 DEF TimerFires, Becomes, Stages, Open
<1>12. ASSUME NEW k \in Coroutines, OperationSucceeds(k) PROVE Quiet
  BY <1>10, <1>12 DEF OperationSucceeds, Becomes, Viable, OnSocket, Needs, Open, Alone
<1>13. ASSUME NEW k \in Coroutines, OperationFails(k) PROVE Quiet
  <2>1. Open(conn)' <=> Open(conn)
    BY <1>1, <1>13 DEF OperationFails, Open, TypeOK
  <2> QED
    BY <1>10, <1>13, <2>1 DEF OperationFails, Becomes, OnSocket
<1>14. CASE ResolverAnswers
  <2>1. PICK ok \in BOOLEAN : Becomes("HandleRead", ok)
    BY <1>14 DEF ResolverAnswers
  <2> QED
    BY <1>10, <1>14, <2>1 DEF ResolverAnswers, Becomes, Open
<1>15. CASE Expire \/ Pong \/ Stop \/ Finished \/ UNCHANGED vars
  BY <1>15 DEF Expire, Pong, Stop, SetState, Finished, vars, Quiet, Open
<1>16. CASE Application
  <2>1. ASSUME NEW m \in Msgs, Write(m) PROVE Quiet
    BY <2>1 DEF Write, Alone, Quiet, PostedTo, Open
  <2>2. ~WritePosts /\ ~Reconnect
    BY <1>1 DEF WritePosts, Reconnect, Alone, NoRequest
  <2> QED
    BY <1>15, <1>16, <2>1, <2>2 DEF Application
<1> QED
  BY <1>5, <1>6, <1>7, <1>8, <1>9, <1>11, <1>12, <1>13, <1>14, <1>15, <1>16,
     OneThread
     DEF Next, HandlerTurn, HandleReadTurn, IoContext, Alone

\* Connect starts an attempt, or returns and leaves the status as it is.
LEMMA ConnectCases ==
  ASSUME ~Pool, TypeOK, NEW o, ConnectOrReturn(o)
  PROVE  \/ /\ Connectable(status) /\ status' = "Connecting" /\ queue' = <<>>
            /\ pc'["HandleRead"] = "resolve" /\ loc'["HandleRead"] = conn
         \/ /\ ~Connectable(status) /\ status' = status /\ queue' = queue
            /\ pc'["HandleRead"] \in {"read", "poll", "done"}
<1>1. CASE Connectable(status)
  BY <1>1, OneThread, AwaitEffect DEF ConnectOrReturn, StartAttempt, Connectable, SetState
<1>2. CASE ~Connectable(status)
  BY <1>2, ReadLoopMoves DEF ConnectOrReturn
<1> QED
  BY <1>1, <1>2

\* Every step keeps a session that is Connected open, and one to come closed.
LEMMA OpenStep ==
  ASSUME Alone, AInv, [Next]_vars
  PROVE  FreshConnection' /\ ConnectedMeansOpen'
<1>1. ~Pool /\ TypeOK /\ ConnectedIsRead /\ FreshConnection /\ ConnectedMeansOpen
  BY DEF AInv, OInv, IInv
<1>2. ASSUME UNCHANGED conn, status' \in {status, "Connecting", "Closed"},
             Open(conn)' <=> Open(conn)
      PROVE  FreshConnection' /\ ConnectedMeansOpen'
  BY <1>1, <1>2 DEF FreshConnection, ConnectedMeansOpen
<1>3. ASSUME ClosedIn PROVE FreshConnection' /\ ConnectedMeansOpen'
  BY <1>3, ClosedFresh DEF AInv, FreshConnection, ConnectedMeansOpen
<1>4. CASE HandleReadStart \/ Polled \/ ReadDone \/ Accepted \/ Secured
  <2>1. UNCHANGED <<conn, link>> /\ status' \in {status, "Connecting"}
    BY <1>1, <1>4, OneThread, ConnectCases DEF HandleReadStart, Polled, ReadDone, Accepted, Secured
  <2> QED
    BY <1>2, <2>1 DEF Open
<1>5. CASE BackedOff
  <2>1. UNCHANGED conn /\ (Open(conn)' => Open(conn))
    BY <1>1, <1>5, ReleasedTyped DEF BackedOff, Open, TypeOK
  <2>2. status # "Connected" /\ status' \in {status, "Connecting"}
    BY <1>1, <1>5, ConnectCases DEF BackedOff, ConnectedIsRead
  <2> QED
    BY <1>1, <2>1, <2>2 DEF FreshConnection, ConnectedMeansOpen
<1>6. CASE Resolved
  <2>1. status' = status /\ status \in {"Connecting", "Closed"}
    BY <1>6, StageSucceeds DEF Resolved, Stages
  <2> QED
    BY <2>1 DEF FreshConnection, ConnectedMeansOpen
<1>7. CASE Established
  <2>1. CASE status = "Closed"
    <3>1. status' = "Closed"
      BY <1>1, <1>7, <2>1, OneThread DEF Established, SetState
    <3> QED
      BY <3>1 DEF FreshConnection, ConnectedMeansOpen
  <2>2. CASE status # "Closed"
    <3>1. loc["HandleRead"] = conn /\ Open(conn)
      BY <1>7, <2>2, StageSucceeds DEF Established, Stages
    <3>2. status' = "Connected" /\ conn' = conn /\ Open(conn)'
      BY <1>1, <1>7, <2>2, <3>1, OneThread, ReleasedTyped DEF Established, SetState, Open, TypeOK
    <3> QED
      BY <3>2 DEF FreshConnection, ConnectedMeansOpen
  <2> QED
    BY <2>1, <2>2
<1>8. CASE AttemptFails \/ ReadFails
  BY <1>3, <1>8 DEF AttemptFails, ReadFails, ClosedIn, Turn
<1>9. CASE Quiet
  BY <1>2, <1>9 DEF Quiet
<1>10. CASE Ended
  BY <1>3, <1>10 DEF Ended
<1> QED
  BY <1>4, <1>5, <1>6, <1>7, <1>8, <1>9, <1>10, OthersStep DEF HandleReadTurn

\* No success of HandleRead is on the strand once it has run.
LEMMA NoOkLeft ==
  ASSUME TypeOK, ResumedOnce, Turn("HandleRead"), Taken
  PROVE  ~HasOk(strand', "HandleRead")
<1>1. ~Has(strand', "HandleRead")
  BY RunsOnce
<1> QED
  BY <1>1 DEF Has, HasOk

\* Every step keeps an attempt with the current connection, or its failure queued.
LEMMA AttemptStep ==
  ASSUME Alone, AInv, [Next]_vars
  PROVE  AttemptOfConnection'
<1>1. ~Pool /\ TypeOK /\ ResumedOnce /\ FreshConnection /\ AttemptOfConnection /\ strand \in Seq(Handlers)
  BY DEF AInv, OInv, IInv, TypeOK
<1>2. ASSUME pc'["HandleRead"] \in {"read", "poll", "done", "backoff"} PROVE AttemptOfConnection'
  BY <1>2 DEF AttemptOfConnection, Stages
<1>3. CASE HandleReadStart \/ BackedOff \/ Polled
  <2>1. CASE (\E o : ConnectOrReturn(o)) /\ Connectable(status)
    <3>1. /\ status' = "Connecting" /\ pc'["HandleRead"] = "resolve" /\ loc'["HandleRead"] = conn
      BY <1>1, <2>1, ConnectCases
    <3>2. conn' = conn /\ (Open(conn)' => Open(conn))
      BY <1>1, <1>3, ReleasedTyped DEF HandleReadStart, BackedOff, Polled, Open, TypeOK
    <3>3. ~Open(conn)
      BY <1>1, <2>1 DEF FreshConnection, Connectable
    <3> QED
      BY <3>1, <3>2, <3>3 DEF AttemptOfConnection
  <2>2. CASE ~((\E o : ConnectOrReturn(o)) /\ Connectable(status))
    <3>1. pc'["HandleRead"] \in {"read", "poll", "done"}
      BY <1>1, <1>3, <2>2, ConnectCases, ReadLoopMoves DEF HandleReadStart, BackedOff, Polled
    <3> QED
      BY <1>2, <3>1
  <2> QED
    BY <2>1, <2>2
<1>4. CASE Resolved \/ Accepted \/ Secured
  <2>1. /\ Turn("HandleRead") /\ Succeeded /\ pc["HandleRead"] \in Stages
        /\ status' = status /\ conn' = conn /\ Taken
        /\ pc'["HandleRead"] # "resolve" /\ loc'["HandleRead"] = loc["HandleRead"]
    BY <1>1, <1>4, AwaitEffect DEF Resolved, Accepted, Secured, Stages, Taken, Turn
  <2>2. ~HasOk(strand', "HandleRead")
    BY <1>1, <2>1, NoOkLeft
  <2> QED
    BY <2>1, <2>2, StageSucceeds DEF AttemptOfConnection
<1>5. CASE Established \/ ReadDone \/ ReadFails
  BY <1>1, <1>2, <1>5, ReadLoopMoves DEF Established, ReadDone, ReadFails
<1>6. CASE AttemptFails
  <2>1. pc'["HandleRead"] = "backoff"
    BY <1>1, <1>6, AwaitEffect DEF AttemptFails
  <2> QED
    BY <1>2, <2>1
<1>7. ASSUME pc'["HandleRead"] \in Stages, status' # "Closed", Quiet
      PROVE  \/ /\ status' = "Connecting" /\ loc'["HandleRead"] = conn'
                /\ pc'["HandleRead"] = "resolve" => ~Open(conn)'
                /\ pc'["HandleRead"] # "resolve" /\ HasOk(strand', "HandleRead") =>
                     Head(strand').co = "HandleRead" /\ Open(conn)'
             \/ status' = "Disconnected" /\ Has(strand', "HandleRead")
                /\ ~HasOk(strand', "HandleRead")
  <2>1. /\ status' = status /\ conn' = conn /\ pc'["HandleRead"] = pc["HandleRead"]
        /\ loc'["HandleRead"] = loc["HandleRead"] /\ (Open(conn)' <=> Open(conn))
    BY <1>7 DEF Quiet
  <2>2. CASE /\ status = "Connecting" /\ loc["HandleRead"] = conn
             /\ pc["HandleRead"] = "resolve" => ~Open(conn)
             /\ pc["HandleRead"] # "resolve" /\ HasOk(strand, "HandleRead") =>
                  Head(strand).co = "HandleRead" /\ Open(conn)
    <3>. SUFFICES ASSUME pc["HandleRead"] # "resolve", HasOk(strand', "HandleRead")
                  PROVE  Head(strand').co = "HandleRead" /\ Open(conn)
      BY <2>1, <2>2
    <3>1. CASE strand' = strand
      BY <2>2, <3>1
    <3>2. CASE Taken /\ ~Turn("HandleRead")
      <4>1. HasOk(strand, "HandleRead")
        BY <1>1, <3>2, Taking DEF Taken, Rest
      <4> QED
        BY <2>2, <3>2, <4>1 DEF Taken, Turn
    <3>3. ASSUME NEW h \in Handlers, strand' = Append(strand, h), HasOk(strand, "HandleRead")
          PROVE  Head(strand').co = "HandleRead" /\ Open(conn)
      <4>1. strand # <<>>
        BY <3>3 DEF HasOk
      <4>2. Head(strand') = Head(strand)
        BY <1>1, <3>3, <4>1
      <4> QED
        BY <2>2, <3>3, <4>2
    <3>4. ASSUME NEW k \in Coroutines, NEW ok \in BOOLEAN, strand' = Append(strand, Ready(k, ok)),
                 k = "HandleRead" /\ ok /\ pc[k] \in Stages \ {"resolve"} =>
                   strand = <<>> /\ Open(loc[k])
          PROVE  Head(strand').co = "HandleRead" /\ Open(conn)
      <4>1. Ready(k, ok) \in Handlers /\ Ready(k, ok).co = k /\ Ready(k, ok).ok = ok
        BY DEF Ready, Handlers
      <4>2. HasOk(strand, "HandleRead") \/ (k = "HandleRead" /\ ok)
        <5>1. HasOk(Append(strand, Ready(k, ok)), "HandleRead") =>
                HasOk(strand, "HandleRead") \/ (Ready(k, ok).co = "HandleRead" /\ Ready(k, ok).ok)
          BY <1>1, <4>1, Appending
        <5> QED
          BY <3>4, <4>1, <5>1
      <4>3. CASE k = "HandleRead" /\ ok
        <5>1. strand = <<>> /\ Open(loc["HandleRead"])
          BY <1>7, <2>1, <3>4, <4>3
        <5>2. Head(strand') = Ready(k, ok)
          BY <3>4, <5>1
        <5> QED
          BY <2>2, <4>1, <4>3, <5>1, <5>2
      <4> QED
        BY <3>3, <3>4, <4>1, <4>2, <4>3
    <3>5. CASE PostedTo /\ status = "Connected"
      BY <2>2, <3>5
    <3> QED
      BY <1>7, <3>1, <3>2, <3>4, <3>5 DEF Quiet
  <2>3. CASE status = "Disconnected" /\ Queued("HandleRead") /\ ~HasOk(strand, "HandleRead")
    <3>1. CASE strand' = strand
      BY <2>1, <2>3, <3>1 DEF Queued, Has
    <3>2. CASE Taken /\ ~Turn("HandleRead")
      <4>1. StrandMoves
        BY <3>2 DEF StrandMoves, NothingPosted
      <4>2. Has(strand', "HandleRead")
        BY <1>1, <2>3, <3>2, <4>1, StaysQueued
      <4>3. ~HasOk(strand', "HandleRead")
        BY <1>1, <2>3, <3>2, Taking DEF Taken, Rest
      <4> QED
        BY <2>1, <2>3, <4>2, <4>3
    <3>3. ASSUME NEW k \in Coroutines, NEW ok \in BOOLEAN, ~Queued(k),
                 strand' = Append(strand, Ready(k, ok))
          PROVE  Has(strand', "HandleRead") /\ ~HasOk(strand', "HandleRead")
      <4>1. Ready(k, ok) \in Handlers /\ Ready(k, ok).co = k /\ k # "HandleRead"
        BY <2>3, <3>3 DEF Ready, Handlers
      <4>2. /\ Has(Append(strand, Ready(k, ok)), "HandleRead") <=>
                 Has(strand, "HandleRead") \/ Ready(k, ok).co = "HandleRead"
            /\ HasOk(Append(strand, Ready(k, ok)), "HandleRead") =>
                 HasOk(strand, "HandleRead") \/ (Ready(k, ok).co = "HandleRead" /\ Ready(k, ok).ok)
        BY <1>1, <4>1, Appending
      <4>3. Has(strand, "HandleRead")
        BY <2>3 DEF Has, Queued
      <4> QED
        BY <2>3, <3>3, <4>1, <4>2, <4>3
    <3>4. CASE PostedTo /\ status = "Connected"
      BY <2>3, <3>4
    <3> QED
      BY <1>7, <2>1, <2>3, <3>1, <3>2, <3>3, <3>4 DEF Quiet
  <2> QED
    BY <1>1, <1>7, <2>1, <2>2, <2>3 DEF AttemptOfConnection
<1>8. CASE Quiet
  BY <1>7, <1>8 DEF AttemptOfConnection, Queued, Has
<1>9. CASE Ended
  <2>. SUFFICES ASSUME pc["HandleRead"] \in Stages, status # "Closed"
                PROVE  Has(strand', "HandleRead") /\ ~HasOk(strand', "HandleRead")
    BY <1>9, ClosedFresh DEF Ended, AInv, AttemptOfConnection, Queued, Has
  <2>1. ClosedIn /\ ~Turn("HandleRead") /\ Rest \in Seq(Handlers) /\ strand # <<>> /\ StrandMoves
    BY <1>1, <1>9, TurnTakes DEF Ended, ClosedIn, StrandMoves, NothingPosted
  <2>2. HasOk(strand', "HandleRead") => HasOk(strand, "HandleRead")
    BY <1>1, <2>1, Closing, Taking DEF ClosedIn, Rest
  <2>3. CASE status = "Disconnected" /\ Queued("HandleRead") /\ ~HasOk(strand, "HandleRead")
    BY <1>1, <2>1, <2>2, <2>3, StaysQueued
  <2>4. CASE /\ status = "Connecting" /\ loc["HandleRead"] = conn
             /\ pc["HandleRead"] = "resolve" => ~Open(conn)
             /\ pc["HandleRead"] # "resolve" /\ HasOk(strand, "HandleRead") =>
                  Head(strand).co = "HandleRead" /\ Open(conn)
    <3>1. Open(conn) /\ pc["HandleRead"] # "resolve"
      BY <1>9, <2>4 DEF Ended
    <3>2. ~HasOk(strand, "HandleRead")
      BY <2>1, <2>4, <3>1 DEF Turn
    <3>3. Queued("HandleRead") \/ Aborted("HandleRead", conn)
      BY <2>4, <3>1 DEF Aborted, OnSocket, SocketWaits, Stages
    <3>4. Has(strand', "HandleRead")
      BY <1>1, <2>1, <3>3, StaysQueued, Closing DEF ClosedIn
    <3> QED
      BY <2>2, <3>2, <3>4
  <2> QED
    BY <1>1, <2>3, <2>4 DEF AttemptOfConnection
<1> QED
  BY <1>3, <1>4, <1>5, <1>6, <1>8, <1>9, OthersStep DEF HandleReadTurn

\* Every step keeps posted messages with their session, or ahead of the next.
LEMMA PostsStep ==
  ASSUME Alone, AInv, [Next]_vars
  PROVE  PostsOfSession'
<1>. SUFFICES ASSUME Has(strand', "post"), status' # "Closed"
              PROVE  status' = "Connected" \/ (status' = "Disconnected" /\ NotBefore("post")')
  BY DEF PostsOfSession, Queued, Has
<1>1. ~Pool /\ TypeOK /\ ResumedOnce /\ PostsOfSession /\ OpenIsRead /\ ConnectedMeansOpen
  BY DEF AInv, OInv, IInv
<1>2. CASE PostedTo /\ status' = "Connected"
  BY <1>2
<1>3. ASSUME NothingPosted PROVE Queued("post") /\ StrandMoves
  BY <1>1, <1>3, PostFrom DEF StrandMoves
<1>4. ASSUME NothingPosted, status = "Closed" => status' = "Closed",
             \/ pc["HandleRead"] \notin {"read", "poll"}
             \/ pc["HandleRead"] = "poll" /\ Turn("HandleRead") /\ status # "Connected"
      PROVE  FALSE
  BY <1>3, <1>4, NoPostAtStart
<1>5. ASSUME NothingPosted, status' = status,
             \/ pc'["HandleRead"] = pc["HandleRead"]
             \/ pc'["HandleRead"] \in {"read", "poll"} /\ ~Has(strand', "HandleRead")
      PROVE  status' = "Connected" \/ (status' = "Disconnected" /\ NotBefore("post")')
  <2>1. status = "Connected" \/ (status = "Disconnected" /\ NotBefore("post"))
    BY <1>1, <1>3, <1>5 DEF PostsOfSession
  <2> QED
    BY <1>1, <1>3, <1>5, <2>1, NotBeforeKeeps
<1>6. ASSUME ClosedIn,
             \/ pc'["HandleRead"] = pc["HandleRead"]
             \/ pc'["HandleRead"] \in {"read", "poll"} /\ ~Has(strand', "HandleRead")
      PROVE  status' = "Disconnected" /\ NotBefore("post")'
  <2>1. status' = "Disconnected" /\ status # "Closed" /\ NothingPosted
    BY <1>6, ClosedFresh DEF AInv, NothingPosted
  <2>2. CASE status = "Connected"
    <3>1. pc["HandleRead"] = "read"
      BY <1>1, <2>2 DEF OpenIsRead, ConnectedMeansOpen
    <3> QED
      BY <1>6, <2>1, <3>1 DEF NotBefore, Ahead, Has
  <2>3. CASE status = "Disconnected" /\ NotBefore("post")
    BY <1>1, <1>3, <1>6, <2>1, <2>3, NotBeforeKeeps
  <2> QED
    BY <1>1, <1>3, <2>1, <2>2, <2>3 DEF PostsOfSession
<1>7. ASSUME Turn("HandleRead"), strand' = Rest
      PROVE  NothingPosted /\ ~Has(strand', "HandleRead")
  <2>1. Taken
    BY <1>7 DEF Taken, Turn
  <2> QED
    BY <1>1, <1>7, <2>1, RunsOnce DEF NothingPosted
<1>8. CASE HandleReadStart \/ BackedOff
  <2>1. status = "Closed" => status' = "Closed"
    BY <1>1, <1>8, ConnectEffect DEF HandleReadStart, BackedOff
  <2> QED
    BY <1>4, <1>7, <1>8, <2>1 DEF HandleReadStart, BackedOff
<1>9. CASE Polled
  <2>1. CASE status # "Connected"
    <3>1. status = "Closed" => status' = "Closed"
      BY <1>1, <1>9, OneThread, ConnectEffect DEF Polled
    <3> QED
      BY <1>4, <1>7, <1>9, <2>1, <3>1 DEF Polled
  <2>2. CASE status = "Connected"
    BY <1>1, <1>9, <2>2, OneThread DEF Polled
  <2> QED
    BY <2>1, <2>2
<1>10. CASE Resolved \/ Accepted \/ Secured \/ Established
  <2>1. status = "Closed" => status' = "Closed"
    BY <1>1, <1>10, OneThread DEF Resolved, Accepted, Secured, Established, SetState
  <2> QED
    BY <1>4, <1>7, <1>10, <2>1 DEF Resolved, Accepted, Secured, Established
<1>11. CASE AttemptFails
  <2>1. ClosedIn /\ pc["HandleRead"] \notin {"read", "poll"}
    BY <1>11 DEF AttemptFails, ClosedIn, Turn, Stages
  <2>2. status = "Closed" => status' = "Closed"
    BY <2>1, ClosedFresh DEF AInv
  <2> QED
    BY <1>4, <2>1, <2>2 DEF NothingPosted
<1>12. CASE ReadDone
  <2>1. status' = status /\ pc'["HandleRead"] \in {"read", "poll"}
    BY <1>1, <1>12, OneThread, ReadLoopMoves DEF ReadDone
  <2> QED
    BY <1>5, <1>7, <1>12, <2>1 DEF ReadDone
<1>13. CASE ReadFails
  <2>1. ClosedIn /\ pc'["HandleRead"] \in {"read", "poll"}
    BY <1>1, <1>13, ReadLoopMoves DEF ReadFails, ClosedIn, Turn
  <2>2. ~Has(strand', "HandleRead")
    BY <1>1, <1>13, <2>1, RunsOnce DEF ReadFails
  <2> QED
    BY <1>6, <2>1, <2>2
<1>14. CASE Quiet
  <2>1. CASE PostedTo /\ status = "Connected" /\ status' = "Connected"
    BY <2>1
  <2>2. CASE ~(PostedTo /\ status = "Connected" /\ status' = "Connected")
    <3>1. NothingPosted
      BY <1>14, <2>2 DEF Quiet, NothingPosted, Resumed
    <3>2. status' = status /\ pc'["HandleRead"] = pc["HandleRead"]
      BY <1>14 DEF Quiet
    <3> QED
      BY <1>5, <3>1, <3>2
  <2> QED
    BY <2>1, <2>2
<1>15. CASE Ended
  BY <1>6, <1>15 DEF Ended
<1> QED
  BY <1>8, <1>9, <1>10, <1>11, <1>12, <1>13, <1>14, <1>15, OthersStep DEF HandleReadTurn

\* Every step keeps the queue empty during an attempt, and never leaves a message
\* of a Connected session without a HandleWrite.
LEMMA QueueStep ==
  ASSUME Alone, AInv, [Next]_vars
  PROVE  ConnectingClear' /\ NoStrandedMessage'
<1>1. ~Pool /\ TypeOK /\ ConnectedIsRead /\ ConnectingClear /\ NoStrandedMessage /\ ConnectedMeansOpen
      /\ PostsOfSession
  BY DEF AInv, OInv, IInv
<1>2. ASSUME queue' = <<>> PROVE ConnectingClear' /\ NoStrandedMessage'
  BY <1>2 DEF ConnectingClear, NoStrandedMessage
<1>3. ASSUME UNCHANGED <<queue, writing>>, status' \in {status, "Closed"}
      PROVE  ConnectingClear' /\ NoStrandedMessage'
  BY <1>1, <1>3 DEF ConnectingClear, NoStrandedMessage
<1>4. ASSUME NEW rest, Close(rest) PROVE ConnectingClear' /\ NoStrandedMessage'
  BY <1>2, <1>4 DEF Close
<1>5. CASE HandleReadStart \/ BackedOff
  BY <1>1, <1>2, <1>3, <1>5, ConnectCases DEF HandleReadStart, BackedOff
<1>6. CASE Polled
  BY <1>1, <1>2, <1>3, <1>6, OneThread, ConnectCases DEF Polled
<1>7. CASE Established
  <2>1. CASE status = "Closed"
    BY <1>1, <1>3, <1>7, <2>1, OneThread DEF Established, SetState
  <2>2. CASE status # "Closed"
    BY <1>1, <1>2, <1>7, <2>2, StageSucceeds DEF Established, Stages, ConnectingClear
  <2> QED
    BY <2>1, <2>2
<1>8. CASE Resolved \/ Accepted \/ Secured \/ ReadDone \/ MonitorStart
  BY <1>1, <1>3, <1>8, OneThread DEF Resolved, Accepted, Secured, ReadDone, MonitorStart
<1>9. CASE AttemptFails \/ ReadFails \/ \E w \in Writers : WriteFails(w)
  BY <1>4, <1>9 DEF AttemptFails, ReadFails, WriteFails
<1>10. CASE MonitorWakes \/ Pinged
  BY <1>1, <1>3, <1>4, <1>10, OneThread DEF MonitorWakes, Pinged, Judge
<1>11. ASSUME NEW w \in Writers, NEW q, WriteLoop(w, q), status' = status,
              status # "Connecting"
       PROVE  ConnectingClear' /\ NoStrandedMessage'
  BY <1>1, <1>11 DEF WriteLoop, ConnectingClear, NoStrandedMessage, ConnectedMeansOpen
<1>12. CASE RunPosted
  <2>1. status # "Connecting" /\ status' = status
    <3>1. Queued("post")
      BY <1>1, <1>12, Taking DEF RunPosted, Turn, Queued, TypeOK
    <3> QED
      BY <1>1, <1>12, <3>1 DEF PostsOfSession, RunPosted
  <2>2. CASE writing
    <3>1. writing' = writing
      BY <1>12, <2>2 DEF RunPosted
    <3> QED
      BY <2>1, <2>2, <3>1 DEF ConnectingClear, NoStrandedMessage
  <2>3. CASE ~writing
    <3>1. \E w \in Writers : WriteLoop(w, Append(queue, Head(strand).msg))
      BY <1>12, <2>3 DEF RunPosted
    <3> QED
      BY <1>11, <2>1, <3>1
  <2> QED
    BY <2>2, <2>3
<1>13. ASSUME NEW w \in Writers, Wrote(w) PROVE ConnectingClear' /\ NoStrandedMessage'
  <2>1. Writing(w) /\ WriteLoop(w, queue) /\ status' = status
    BY <1>13 DEF Wrote, Writing
  <2>2. status # "Connecting"
    BY <2>1 DEF AInv, OInv, WriterOfSession
  <2> QED
    BY <1>11, <2>1, <2>2
<1>14. CASE IoContext \/ Application \/ Finished \/ UNCHANGED vars
  <2>1. UNCHANGED <<queue, writing>> /\ status' \in {status, "Closed"}
    BY <1>1, <1>14, OneThread DEF IoContext, TimerFires, OperationSucceeds, OperationFails, ResolverAnswers, Expire,
                 Pong, Application, Write, WritePosts, Reconnect, Stop, SetState, Finished, vars
  <2> QED
    BY <1>3, <2>1
<1> QED
  BY <1>5, <1>6, <1>7, <1>8, <1>9, <1>10, <1>12, <1>13, <1>14 DEF Next, HandlerTurn

\* Nobody asks to reconnect, and a Write is one step.
LEMMA RequestStep ==
  ASSUME Alone, AInv, [Next]_vars
  PROVE  NoRequest'
<1>1. NoRequest
  BY DEF AInv
<1>2. CASE HandleReadTurn
  BY <1>1, <1>2 DEF HandleReadTurn, HandleReadStart, Polled, Resolved, Accepted, Secured,
     AttemptFails, Established, BackedOff, ReadDone, ReadFails, NoRequest
<1>3. CASE Quiet \/ Ended
  BY <1>1, <1>3 DEF Quiet, Ended, NoRequest
<1> QED
  BY <1>2, <1>3, OthersStep

\* With one thread and no Reconnect every step preserves the invariant of the session.
LEMMA AloneStep == Alone /\ AInv /\ [Next]_vars => AInv'
<1>. SUFFICES ASSUME Alone, AInv, [Next]_vars PROVE AInv'
  OBVIOUS
<1>1. OInv'
  BY OrderStep DEF AInv
<1> QED
  BY <1>1, RequestStep, OpenStep, AttemptStep, PostsStep, QueueStep DEF AInv

\* No attempt has begun and nothing is posted.
LEMMA InitAlone == ~Pool /\ Init => AInv
<1>. SUFFICES ASSUME ~Pool, Init PROVE AInv
  OBVIOUS
<1>1. strand = <<Ready("HandleRead", TRUE), Ready("Monitor", TRUE)>>
  BY DEF Init
<1>2. /\ Len(strand) = 2 /\ strand[1].co = "HandleRead" /\ strand[2].co = "Monitor"
  BY <1>1 DEF Ready
<1>3. PostsOfSession
  BY <1>2 DEF PostsOfSession, Queued
<1>4. conn \in Conns
  BY AllocatorAssumption DEF Init
<1>5. FreshConnection
  BY <1>4 DEF Init, FreshConnection, Open
<1>6. NoRequest /\ AttemptOfConnection /\ ConnectingClear /\ ConnectedMeansOpen /\ NoStrandedMessage
  BY DEF Init, NoRequest, AttemptOfConnection, ConnectingClear, ConnectedMeansOpen,
         NoStrandedMessage, Stages
<1> QED
  BY <1>3, <1>5, <1>6, InitOrder DEF AInv

\* The invariant of a session in a program with one thread that never reconnects.
LEMMA AloneInvariance == Alone => (Spec => []AInv)
<1>. SUFFICES ASSUME Alone PROVE Spec => []AInv
  OBVIOUS
<1>1. AInv /\ [Next]_vars => AInv'
  BY AloneStep
<1>2. Init => AInv
  BY InitAlone DEF Alone
<1> QED
  BY <1>1, <1>2, PTL DEF Spec

\* In the programs as they are (one thread, no Reconnect) a session that callers
\* are told is available has an open connection, whatever fails or times out.
THEOREM AvailableMeansOpen == ~Pool /\ ~Reconnects => (Spec => []ConnectedMeansOpen)
<1>. SUFFICES ASSUME Alone PROVE Spec => []ConnectedMeansOpen
  BY DEF Alone
<1>1. AInv => ConnectedMeansOpen
  BY DEF AInv
<1> QED
  BY <1>1, AloneInvariance, PTL

\* In those programs no queued message of a Connected session is left without a
\* HandleWrite that will take it.
THEOREM NothingStranded == ~Pool /\ ~Reconnects => (Spec => []NoStrandedMessage)
<1>. SUFFICES ASSUME Alone PROVE Spec => []NoStrandedMessage
  BY DEF Alone
<1>1. AInv => NoStrandedMessage
  BY DEF AInv
<1> QED
  BY <1>1, AloneInvariance, PTL

\* In those programs a session begins with no message of an earlier one: none
\* queued, none posted, none being written.
THEOREM SessionsStartClean == ~Pool /\ ~Reconnects => (Spec => FreshSession)
<1>. SUFFICES ASSUME Alone PROVE Spec => FreshSession
  BY DEF Alone
<1> DEFINE Clean == status # "Connected" /\ status' = "Connected" =>
                      queue' = <<>> /\ caller' = NoMsg /\ ~Queued("post")' /\ ~writing'
<1>1. AInv /\ [Next]_vars => [Clean]_vars
  <2>. SUFFICES ASSUME AInv, [Next]_vars, status # "Connected", status' = "Connected"
                PROVE  queue' = <<>> /\ caller' = NoMsg /\ ~Queued("post")' /\ ~writing'
    OBVIOUS
  <2>1. ~Pool /\ TypeOK /\ ConnectingClear /\ NoRequest /\ PostsOfSession /\ OneWriter
    BY DEF AInv, OInv, IInv
  <2>2. Established
    <3>1. CASE HandleReadStart \/ BackedOff \/ Polled
      BY <2>1, <3>1, OneThread, ConnectCases DEF HandleReadStart, BackedOff, Polled
    <3>2. CASE Resolved \/ Accepted \/ Secured \/ ReadDone
      BY <2>1, <3>2, OneThread DEF Resolved, Accepted, Secured, ReadDone
    <3>3. CASE AttemptFails \/ ReadFails
      BY <2>1, <3>3, CloseStatus DEF AttemptFails, ReadFails
    <3>4. CASE Quiet
      BY <3>4 DEF Quiet
    <3>5. CASE Ended
      BY <3>5, ClosedFresh DEF Ended, AInv
    <3> QED
      BY <3>1, <3>2, <3>3, <3>4, <3>5, OthersStep DEF HandleReadTurn
  <2>3. Turn("HandleRead") /\ Succeeded /\ pc["HandleRead"] = "handshake" /\ status # "Closed"
    BY <2>1, <2>2, OneThread DEF Established, SetState
  <2>4. status = "Connecting"
    BY <2>3, StageSucceeds DEF Stages
  <2>5. queue' = <<>> /\ caller' = NoMsg
    BY <2>1, <2>2, <2>4 DEF Established, ConnectingClear, NoRequest
  <2>6. ~Queued("post")'
    <3>1. NothingPosted
      BY <2>2 DEF Established, NothingPosted, Taken, Turn
    <3>2. ~Queued("post")
      BY <2>1, <2>4 DEF PostsOfSession
    <3>3. ~Has(strand', "post")
      BY <2>1, <3>1, <3>2, PostFrom
    <3> QED
      BY <3>3 DEF Queued, Has
  <2>7. ~writing'
    <3>1. \A w \in Writers : ~Writing(w)
      BY <2>4 DEF AInv, OInv, WriterOfSession
    <3> QED
      BY <2>1, <2>2, <3>1 DEF Established, OneWriter
  <2> QED
    BY <2>5, <2>6, <2>7
<1> QED
  BY <1>1, AloneInvariance, PTL DEF Spec, FreshSession
=============================================================================
