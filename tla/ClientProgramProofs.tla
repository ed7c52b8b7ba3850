------------------------ MODULE ClientProgramProofs -------------------------
(***************************************************************************)
(* The programs' safety, for any bounds of the model.  The queue of the    *)
(* io_context is what the proofs are about: what it holds once, in which   *)
(* order, and what holding it says of the timer and the session.           *)
(***************************************************************************)
EXTENDS ClientProgram, HandlerQueueProofs

\* The Subscribe of a session is queued before the handshake of the next one.
Ordered(q) ==
  \A i, j \in 1 .. Len(q) : q[i] = "established" /\ q[j] = "subscribe" => j < i

\* A stopped program is halted, its session closed and its timer cancelled.
StopDone ==
  /\ stopped => halted /\ ~armed
  /\ halted => status = "Closed"

\* One handshake and one Subscribe at most are queued, in order, and a session whose
\* Subscribe is still queued is not subscribed yet.
SubscribesInOrder ==
  /\ Once(ready, "established")
  /\ Once(ready, "subscribe")
  /\ Ordered(ready)
  /\ InReady("subscribe") => subscribed = 0
  /\ SubscribedOnce

\* The inductive invariant (ClientInterface, main, the timer).
PInv == TypeOK /\ StopDone /\ HeartbeatKept /\ SubscribesInOrder

-----------------------------------------------------------------------------
(* What queueing and running a handler does to the queue *)

\* A handler is queued.
LEMMA Queueing ==
  ASSUME NEW q \in Seq(Handlers), NEW x \in Handlers
  PROVE  /\ Append(q, x) \in Seq(Handlers)
         /\ \A h \in Handlers : Has(Append(q, x), h) <=> Has(q, h) \/ h = x
         /\ \A h \in Handlers : Once(q, h) /\ (h = x => ~Has(q, h)) => Once(Append(q, x), h)
         /\ Ordered(q) /\ (x = "subscribe" => ~Has(q, "established")) => Ordered(Append(q, x))
<1> DEFINE r == Append(q, x)
<1>1. /\ r \in Seq(Handlers) /\ Len(r) = Len(q) + 1 /\ Len(q) \in Nat
      /\ \A i \in 1 .. Len(q) : r[i] = q[i]
      /\ r[Len(q) + 1] = x
  OBVIOUS
<1>2. 1 .. Len(r) = (1 .. Len(q)) \cup {Len(q) + 1}
  BY <1>1
<1> HIDE DEF r
<1>3. ASSUME NEW h \in Handlers PROVE Has(r, h) <=> Has(q, h) \/ h = x
  BY <1>1, <1>2 DEF Has
<1>4. ASSUME NEW h \in Handlers, Once(q, h), h = x => ~Has(q, h) PROVE Once(r, h)
  BY <1>1, <1>2, <1>4 DEF Has, Once
<1>5. ASSUME Ordered(q), x = "subscribe" => ~Has(q, "established") PROVE Ordered(r)
  BY <1>1, <1>2, <1>5 DEF Has, Ordered
<1> QED BY <1>1, <1>3, <1>4, <1>5 DEF r

\* The first handler runs.
LEMMA Running ==
  ASSUME NEW q \in Seq(Handlers), q # <<>>
  PROVE  /\ Tail(q) \in Seq(Handlers) /\ Head(q) \in Handlers
         /\ \A h \in Handlers : Has(q, h) <=> Has(Tail(q), h) \/ h = Head(q)
         /\ \A h \in Handlers :
              Once(q, h) => Once(Tail(q), h) /\ (h = Head(q) => ~Has(Tail(q), h))
         /\ Ordered(q) =>
              Ordered(Tail(q)) /\ (Head(q) = "established" => ~Has(Tail(q), "subscribe"))
<1> DEFINE r == Tail(q)
<1>1. /\ r \in Seq(Handlers) /\ Len(q) \in Nat \ {0} /\ Len(r) = Len(q) - 1
      /\ Head(q) \in Handlers /\ q[1] = Head(q)
      /\ \A i \in 1 .. Len(r) : r[i] = q[i + 1]
  OBVIOUS
<1> HIDE DEF r
<1>2. \A i \in 1 .. Len(r) : i + 1 \in 1 .. Len(q)
  BY <1>1
<1>3. \A i \in 1 .. Len(q) : i = 1 \/ (i - 1 \in 1 .. Len(r) /\ q[i] = r[i - 1])
  BY <1>1
<1>4. ASSUME NEW h \in Handlers PROVE Has(q, h) <=> Has(r, h) \/ h = Head(q)
  <2>1. Has(q, h) => Has(r, h) \/ h = Head(q)
    BY <1>1, <1>3 DEF Has
  <2>2. Has(r, h) \/ h = Head(q) => Has(q, h)
    BY <1>1, <1>2 DEF Has
  <2> QED BY <2>1, <2>2
<1>5. ASSUME NEW h \in Handlers, Once(q, h) PROVE Once(r, h)
  <2> SUFFICES ASSUME NEW i \in 1 .. Len(r), NEW j \in 1 .. Len(r), r[i] = h, r[j] = h
               PROVE  i = j
    BY DEF Once
  <2>1. i + 1 = j + 1
    BY <1>1, <1>2, <1>5 DEF Once
  <2> QED BY <2>1
<1>6. ASSUME NEW h \in Handlers, Once(q, h), h = Head(q) PROVE ~Has(r, h)
  BY <1>1, <1>2, <1>6 DEF Once, Has
<1>7. ASSUME Ordered(q) PROVE Ordered(r)
  <2> SUFFICES ASSUME NEW i \in 1 .. Len(r), NEW j \in 1 .. Len(r),
                      r[i] = "established", r[j] = "subscribe"
               PROVE  j < i
    BY DEF Ordered
  <2>1. j + 1 < i + 1
    BY <1>1, <1>2, <1>7 DEF Ordered
  <2> QED BY <2>1
<1>8. ASSUME Ordered(q), Head(q) = "established" PROVE ~Has(r, "subscribe")
  BY <1>1, <1>2, <1>8 DEF Ordered, Has
<1> QED BY <1>1, <1>4, <1>5, <1>6, <1>7, <1>8 DEF r

-----------------------------------------------------------------------------
(* The types *)

\* Every step keeps the types.
LEMMA TypeStep == TypeOK /\ [Next]_vars => TypeOK'
<1> SUFFICES ASSUME TypeOK, [Next]_vars PROVE TypeOK'
  OBVIOUS
<1>q. /\ \A x \in Handlers : Append(ready, x) \in Seq(Handlers)
      /\ ready # <<>> => /\ Tail(ready) \in Seq(Handlers)
                         /\ \A x \in Handlers : Append(Tail(ready), x) \in Seq(Handlers)
  BY Queueing, Running DEF TypeOK
<1> USE DEF TypeOK
<1>1. CASE Main
  BY <1>1 DEF Main, MainTests, MainChecks, MainSleeps, MainJoins
<1>2. CASE TimerExpires \/ MessageRead \/ HandshakeEnds
  BY <1>2, <1>q DEF TimerExpires, MessageRead, HandshakeEnds, Becomes, Handlers
<1>3. ASSUME NEW s \in {"SIGTERM", "SIGHUP"}, SignalReady(s) PROVE TypeOK'
  BY <1>3, <1>q DEF SignalReady, Becomes, Handlers
<1>4. ASSUME NEW s \in {"SIGTERM", "SIGHUP"}, Signalled(s) PROVE TypeOK'
  BY <1>4, ProgramAssumption DEF Signalled
<1>5. CASE ClientTurn
  <2>1. status' \in Status
    BY <1>5 DEF ClientTurn, Session!Attempt, Session!Lose, Session!Transmit, Status
  <2>2. pending' \in Seq(Messages)
    <3>1. CASE Session!Lose
      <4>1. \A i \in 1 .. Len(pending) + 1 : SubSeq(pending, i, Len(pending)) \in Seq(Messages)
        OBVIOUS
      <4> QED BY <3>1, <4>1 DEF Session!Lose, Session!Suffixes
    <3>2. CASE Session!Attempt
      BY <3>2 DEF Session!Attempt
    <3>3. CASE Session!Transmit
      BY <3>3 DEF Session!Transmit
    <3> QED BY <1>5, <3>1, <3>2, <3>3 DEF ClientTurn
  <2> QED BY <1>5, <2>1, <2>2 DEF ClientTurn
<1>6. CASE RunTimer
  <2>1. Append(pending, "heartbeat") \in Seq(Messages) /\ pending \o <<"heartbeat">> \in Seq(Messages)
    BY DEF Messages
  <2> QED BY <1>6, <1>q, <2>1 DEF RunTimer, Runs, Rest, Write, OnTimeout
<1>7. CASE RunEstablished
  BY <1>7, <1>q DEF RunEstablished, Runs, Rest, OnConnected, Session!Establish, Handlers, Status
<1>8. CASE RunSubscribe
  <2>1. pending \o <<"depth", "price", "kline">> \in Seq(Messages)
    BY DEF Messages, Topics
  <2> QED BY <1>8, <1>q, <2>1 DEF RunSubscribe, Runs, Rest, Write
<1>9. CASE RunMessage
  BY <1>9, <1>q DEF RunMessage, Runs, Rest, BgcliOnMessage, RestApiOnMessage
<1>10. CASE RunHarmless
  BY <1>10, <1>q DEF RunHarmless, Runs, Rest, SetSigAction
<1>11. CASE RunTerminate
  BY <1>11, <1>q DEF RunTerminate, Runs, Rest, Session!Stop, StopIo, Handlers, Status
<1>12. CASE RestReturns \/ Exited \/ UNCHANGED vars
  BY <1>12 DEF RestReturns, Exited, vars
<1> QED BY <1>1, <1>2, <1>3, <1>4, <1>5, <1>6, <1>7, <1>8, <1>9, <1>10, <1>11, <1>12
        DEF Next, IoContext

-----------------------------------------------------------------------------
(* What Stop leaves behind *)

\* What a program does once it is told to stop.
Silent == stopped => ~armed' /\ UNCHANGED <<available, pending, subscribed>>

\* A step keeps StopDone, and once stopped the program is silent.
LEMMA StopStep == TypeOK /\ StopDone /\ [Next]_vars => StopDone' /\ Silent
<1> SUFFICES ASSUME TypeOK, StopDone, [Next]_vars PROVE StopDone' /\ Silent
  OBVIOUS
<1> USE DEF StopDone, Silent
<1>1. CASE Main
  BY <1>1 DEF Main
<1>2. CASE TimerExpires
  BY <1>2 DEF TimerExpires
<1>3. CASE MessageRead \/ HandshakeEnds \/ RestReturns \/ Exited \/ UNCHANGED vars
  BY <1>3 DEF MessageRead, HandshakeEnds, RestReturns, Exited, vars
<1>4. ASSUME NEW s \in {"SIGTERM", "SIGHUP"}, SignalReady(s) \/ Signalled(s)
      PROVE  StopDone' /\ Silent
  BY <1>4 DEF SignalReady, Signalled
<1>5. CASE ClientTurn
  BY <1>5 DEF ClientTurn, T1Free
<1>6. CASE RunTimer \/ RunEstablished \/ RunSubscribe \/ RunMessage \/ RunHarmless
  <2>1. ~halted /\ ~stopped /\ UNCHANGED <<halted, stopped>>
    BY <1>6 DEF RunTimer, RunEstablished, RunSubscribe, RunMessage, RunHarmless, Runs, T1Free
  <2> QED BY <2>1
<1>7. CASE RunTerminate
  BY <1>7 DEF RunTerminate, Runs, T1Free, StopIo, Session!Stop, TypeOK
<1> QED BY <1>1, <1>2, <1>3, <1>4, <1>5, <1>6, <1>7 DEF Next, IoContext

-----------------------------------------------------------------------------
(* The heartbeat *)

\* Queueing or running a handler that is not the timer's leaves the heartbeat as it is.
LEMMA OthersKeepHeartbeat ==
  ASSUME TypeOK, HeartbeatKept, UNCHANGED <<enabled, armed>>, stopped => stopped',
         \/ \E x \in Handlers \ {"timer"} : ready' = Append(ready, x)
         \/ ready # <<>> /\ Head(ready) # "timer" /\ ready' = Tail(ready)
         \/ \E x \in Handlers \ {"timer"} :
              ready # <<>> /\ Head(ready) # "timer" /\ ready' = Append(Tail(ready), x)
  PROVE  HeartbeatKept'
<1>1. "timer" \in Handlers /\ ready \in Seq(Handlers)
  BY DEF TypeOK, Handlers
<1>2. (Has(ready', "timer") <=> Has(ready, "timer")) /\ (Once(ready, "timer") => Once(ready', "timer"))
  <2>1. ASSUME NEW x \in Handlers \ {"timer"}, ready' = Append(ready, x)
        PROVE  /\ Has(ready', "timer") <=> Has(ready, "timer")
               /\ Once(ready, "timer") => Once(ready', "timer")
    BY <1>1, <2>1, Queueing
  <2>2. ASSUME ready # <<>>, Head(ready) # "timer"
        PROVE  /\ Tail(ready) \in Seq(Handlers)
               /\ Has(Tail(ready), "timer") <=> Has(ready, "timer")
               /\ Once(ready, "timer") => Once(Tail(ready), "timer")
    BY <1>1, <2>2, Running
  <2>3. ASSUME NEW x \in Handlers \ {"timer"}, ready # <<>>, Head(ready) # "timer",
               ready' = Append(Tail(ready), x)
        PROVE  /\ Has(ready', "timer") <=> Has(ready, "timer")
               /\ Once(ready, "timer") => Once(ready', "timer")
    BY <1>1, <2>2, <2>3, Queueing
  <2> QED BY <2>1, <2>2, <2>3
<1> QED BY <1>2 DEF HeartbeatKept, InReady

\* Every step keeps the heartbeat.
LEMMA HeartbeatStep == TypeOK /\ StopDone /\ HeartbeatKept /\ [Next]_vars => HeartbeatKept'
<1> SUFFICES ASSUME TypeOK, StopDone, HeartbeatKept, [Next]_vars PROVE HeartbeatKept'
  OBVIOUS
<1>q. "timer" \in Handlers /\ ready \in Seq(Handlers)
  BY DEF TypeOK, Handlers
<1>1. ASSUME UNCHANGED <<enabled, stopped, armed, ready>> PROVE HeartbeatKept'
  BY <1>1 DEF HeartbeatKept, InReady
<1>2. CASE Main \/ RestReturns \/ ClientTurn \/ Exited \/ UNCHANGED vars
  BY <1>1, <1>2 DEF Main, RestReturns, ClientTurn, Exited, vars
<1>3. CASE TimerExpires
  BY <1>q, <1>3, Queueing DEF TimerExpires, Becomes, HeartbeatKept, InReady
<1>4. CASE MessageRead \/ HandshakeEnds
  BY <1>4, OthersKeepHeartbeat DEF MessageRead, HandshakeEnds, Becomes, Handlers
<1>5. ASSUME NEW s \in {"SIGTERM", "SIGHUP"}, SignalReady(s) \/ Signalled(s) PROVE HeartbeatKept'
  BY <1>1, <1>5, OthersKeepHeartbeat DEF SignalReady, Signalled, Becomes, Handlers
<1>6. CASE RunTimer
  BY <1>q, <1>6, Running DEF RunTimer, Runs, Rest, OnTimeout, HeartbeatKept, InReady
<1>7. CASE RunEstablished
  BY <1>7, OthersKeepHeartbeat DEF RunEstablished, Runs, Rest, OnConnected, Handlers
<1>8. CASE RunSubscribe \/ RunMessage \/ RunHarmless
  <2>1. /\ UNCHANGED <<enabled, armed, stopped>>
        /\ ready # <<>> /\ Head(ready) # "timer" /\ ready' = Tail(ready)
    BY <1>8 DEF RunSubscribe, RunMessage, RunHarmless, Runs, Rest
  <2> QED BY <2>1, OthersKeepHeartbeat
<1>9. CASE RunTerminate
  BY <1>9 DEF RunTerminate, HeartbeatKept
<1> QED BY <1>2, <1>3, <1>4, <1>5, <1>6, <1>7, <1>8, <1>9 DEF Next, IoContext

-----------------------------------------------------------------------------
(* The Subscribe of each session *)

\* Queueing or running a handler that is neither a handshake's nor a Subscribe keeps
\* their number and order.
LEMMA OthersKeepSubscribes ==
  ASSUME TypeOK, SubscribesInOrder, UNCHANGED subscribed,
         \/ \E x \in Handlers \ {"established", "subscribe"} : ready' = Append(ready, x)
         \/ ready # <<>> /\ Head(ready) # "subscribe" /\ ready' = Tail(ready)
         \/ \E x \in Handlers \ {"established", "subscribe"} :
              ready # <<>> /\ Head(ready) # "subscribe" /\ ready' = Append(Tail(ready), x)
  PROVE  SubscribesInOrder'
<1>1. {"established", "subscribe"} \subseteq Handlers /\ ready \in Seq(Handlers)
  BY DEF TypeOK, Handlers
<1> DEFINE Kept(q) == /\ Once(q, "established") /\ Once(q, "subscribe") /\ Ordered(q)
                      /\ Has(q, "subscribe") => subscribed = 0
<1>2. Kept(ready)
  BY DEF SubscribesInOrder, InReady
<1>3. ASSUME NEW q \in Seq(Handlers), Kept(q),
             NEW x \in Handlers \ {"established", "subscribe"}
      PROVE  Kept(Append(q, x))
  BY <1>1, <1>3, Queueing
<1>4. ASSUME ready # <<>> PROVE Kept(Tail(ready)) /\ Tail(ready) \in Seq(Handlers)
  BY <1>1, <1>2, <1>4, Running
<1>5. Kept(ready')
  BY <1>1, <1>2, <1>3, <1>4
<1> QED BY <1>5 DEF SubscribesInOrder, InReady, SubscribedOnce

\* Every step keeps the order of handshakes and Subscribes.
LEMMA SubscribesStep == TypeOK /\ SubscribesInOrder /\ [Next]_vars => SubscribesInOrder'
<1> SUFFICES ASSUME TypeOK, SubscribesInOrder, [Next]_vars PROVE SubscribesInOrder'
  OBVIOUS
<1>q. {"established", "subscribe"} \subseteq Handlers /\ ready \in Seq(Handlers)
  BY DEF TypeOK, Handlers
<1>1. ASSUME UNCHANGED <<ready, subscribed>> PROVE SubscribesInOrder'
  BY <1>1 DEF SubscribesInOrder, InReady, SubscribedOnce
<1>2. CASE Main \/ RestReturns \/ ClientTurn \/ Exited \/ UNCHANGED vars
  BY <1>1, <1>2 DEF Main, RestReturns, ClientTurn, Exited, vars
<1>3. CASE TimerExpires \/ MessageRead
  BY <1>3, OthersKeepSubscribes DEF TimerExpires, MessageRead, Becomes, Handlers
<1>4. CASE HandshakeEnds
  BY <1>q, <1>4, Queueing
     DEF HandshakeEnds, Becomes, SubscribesInOrder, InReady, SubscribedOnce
<1>5. ASSUME NEW s \in {"SIGTERM", "SIGHUP"}, SignalReady(s) \/ Signalled(s)
      PROVE  SubscribesInOrder'
  BY <1>1, <1>5, OthersKeepSubscribes DEF SignalReady, Signalled, Becomes, Handlers
<1>6. CASE RunEstablished
  <2>1. /\ Rest \in Seq(Handlers) /\ Ordered(Rest)
        /\ ~Has(Rest, "subscribe") /\ ~Has(Rest, "established")
        /\ Once(Rest, "established") /\ Once(Rest, "subscribe")
    BY <1>q, <1>6, Running DEF RunEstablished, Runs, Rest, SubscribesInOrder
  <2> QED BY <1>q, <1>6, <2>1, Queueing
          DEF RunEstablished, OnConnected, SubscribesInOrder, InReady, SubscribedOnce
<1>7. CASE RunSubscribe
  <2>1. subscribed = 0
    BY <1>q, <1>7, Running DEF RunSubscribe, Runs, SubscribesInOrder, InReady
  <2> QED BY <1>q, <1>7, <2>1, Running
          DEF RunSubscribe, Runs, Rest, SubscribesInOrder, InReady, SubscribedOnce
<1>8. CASE RunTimer \/ RunMessage \/ RunHarmless
  BY <1>8, OthersKeepSubscribes DEF RunTimer, RunMessage, RunHarmless, Runs, Rest
<1>9. CASE RunTerminate
  BY <1>9, OthersKeepSubscribes DEF RunTerminate, Runs, Rest, Handlers
<1> QED BY <1>2, <1>3, <1>4, <1>5, <1>6, <1>7, <1>8, <1>9 DEF Next, IoContext

-----------------------------------------------------------------------------
(* The theorems *)

\* The first states have the invariant.
LEMMA PInvInit == Init => PInv
<1> SUFFICES ASSUME Init PROVE PInv
  OBVIOUS
<1>1. ready = <<>> /\ 1 .. Len(ready) = {}
  BY DEF Init
<1>2. TypeOK
  <2>1. {enabled, stopped, available, armed, waiting, blocked, halted} \subseteq BOOLEAN
    BY Zenon DEF Init
  <2>2. status \in Status /\ pending \in Seq(Messages) /\ ready \in Seq(Handlers)
    BY DEF Init, Session!Init, Status
  <2>3. /\ main \in {"test", "check", "sleep", "join", "exited"}
        /\ signals \subseteq {"SIGTERM", "SIGHUP"}
        /\ harmless \in 0 .. MaxHarmless /\ subscribed \in Nat
    BY ProgramAssumption DEF Init
  <2> QED BY <2>1, <2>2, <2>3 DEF TypeOK
<1>3. StopDone
  <2>1. stopped = FALSE /\ halted = FALSE
    BY DEF Init
  <2> QED BY <2>1, Zenon DEF StopDone
<1>4. HeartbeatKept
  <2>1. ~Has(ready, "timer") /\ Once(ready, "timer")
    BY <1>1 DEF Has, Once
  <2>2. armed = enabled
    BY DEF Init
  <2> QED BY <2>1, <2>2, Zenon DEF HeartbeatKept, InReady
<1>5. SubscribesInOrder
  BY <1>1 DEF Init, SubscribesInOrder, SubscribedOnce, Ordered, Once, Has, InReady
<1> QED BY <1>2, <1>3, <1>4, <1>5 DEF PInv

\* Every reachable state has it.
THEOREM ProgramInvariant == Spec => []PInv
<1>1. PInv /\ [Next]_vars => PInv'
  BY TypeStep, StopStep, HeartbeatStep, SubscribesStep DEF PInv
<1> QED BY PInvInit, <1>1, PTL DEF Spec

\* The program's state is well typed.
THEOREM ProgramTypeCorrect == Spec => []TypeOK
BY ProgramInvariant, PTL DEF PInv

\* Until Stop there is exactly one heartbeat, waiting or queued.
THEOREM OneHeartbeat == Spec => []HeartbeatKept
BY ProgramInvariant, PTL DEF PInv

\* No session is subscribed twice.
THEOREM NoSecondSubscribe == Spec => []SubscribedOnce
BY ProgramInvariant, PTL DEF PInv, SubscribesInOrder

\* A program told to stop is silent, whatever its queue holds.
THEOREM SilentOnceStopped == Spec => SilentAfterStop
<1>1. PInv /\ [Next]_vars => [stopped => ~armed' /\ UNCHANGED <<available, pending, subscribed>>]_vars
  BY StopStep DEF PInv, Silent
<1> QED BY <1>1, ProgramInvariant, PTL DEF Spec, SilentAfterStop

-----------------------------------------------------------------------------
(* The heartbeat is a BasicTimer *)

\* A disabled program never uses its timer.
NoTimer == ~enabled => ~armed /\ ~InReady("timer")

\* How a queue's completions change with it: the timer's handlers show, others do not.
LEMMA ShowsQueued ==
  ASSUME NEW q \in Seq(Handlers), NEW x \in Handlers
  PROVE  Picked(Append(q, x), Shown) =
           IF x = "timer" THEN Picked(q, Shown) \o <<"expired">>
           ELSE IF x = "aborted" THEN Picked(q, Shown) \o <<"aborted">>
           ELSE Picked(q, Shown)
<1>1. Into(Shown, {"expired", "aborted"})
  BY DEF Into, Shown
<1>2. /\ DOMAIN Shown = {"timer", "aborted"}
      /\ Shown["timer"] = "expired" /\ Shown["aborted"] = "aborted"
  BY DEF Shown
<1> HIDE DEF Shown
<1> DEFINE P == Picked(q, Shown)
<1>3. P \in Seq({"expired", "aborted"})
  BY <1>1, PickedType
<1>4. Picked(Append(q, x), Shown) = IF x \in DOMAIN Shown THEN Append(P, Shown[x]) ELSE P
  BY <1>1, PickedAppend
<1> HIDE DEF P
<1>5. Append(P, "expired") = P \o <<"expired">> /\ Append(P, "aborted") = P \o <<"aborted">>
  BY <1>3, SMTT(30)
<1>6. Picked(Append(q, x), Shown) =
        IF x = "timer" THEN P \o <<"expired">> ELSE IF x = "aborted" THEN P \o <<"aborted">> ELSE P
  <2>1. CASE x = "timer"
    BY <1>2, <1>4, <1>5, <2>1
  <2>2. CASE x = "aborted"
    BY <1>2, <1>4, <1>5, <2>2
  <2>3. CASE x \notin {"timer", "aborted"}
    BY <1>2, <1>4, <2>3
  <2> QED
    BY <2>1, <2>2, <2>3
<1> QED
  BY <1>6 DEF P

LEMMA ShowsTaken ==
  ASSUME NEW q \in Seq(Handlers), q # <<>>
  PROVE  /\ Picked(Tail(q), Shown) \in Seq({"expired", "aborted"})
         /\ Head(q) = "timer" => Picked(q, Shown) = <<"expired">> \o Picked(Tail(q), Shown)
         /\ Head(q) \notin {"timer", "aborted"} => Picked(q, Shown) = Picked(Tail(q), Shown)
<1>1. Into(Shown, {"expired", "aborted"})
  BY DEF Into, Shown
<1>2. /\ DOMAIN Shown = {"timer", "aborted"}
      /\ Shown["timer"] = "expired"
  BY DEF Shown
<1> HIDE DEF Shown
<1>3. /\ Picked(Tail(q), Shown) \in Seq({"expired", "aborted"})
      /\ Picked(q, Shown) = IF Head(q) \in DOMAIN Shown
                            THEN <<Shown[Head(q)]>> \o Picked(Tail(q), Shown)
                            ELSE Picked(Tail(q), Shown)
  BY <1>1, PickedTake
<1>4. ASSUME Head(q) = "timer" PROVE Picked(q, Shown) = <<"expired">> \o Picked(Tail(q), Shown)
  BY <1>2, <1>3, <1>4
<1>5. ASSUME Head(q) \notin {"timer", "aborted"} PROVE Picked(q, Shown) = Picked(Tail(q), Shown)
  BY <1>2, <1>3, <1>5
<1> QED
  BY <1>3, <1>4, <1>5

\* Every step keeps a disabled program's timer unused.
LEMMA NoTimerStep == TypeOK /\ NoTimer /\ [Next]_vars => NoTimer'
<1> SUFFICES ASSUME TypeOK, NoTimer, [Next]_vars PROVE NoTimer'
  OBVIOUS
<1>q. "timer" \in Handlers /\ ready \in Seq(Handlers)
  BY DEF TypeOK, Handlers
<1>a. \A x \in Handlers : Has(Append(ready, x), "timer") <=> Has(ready, "timer") \/ x = "timer"
  BY <1>q, Queueing
<1>b. ready # <<>> =>
        /\ Tail(ready) \in Seq(Handlers)
        /\ Has(ready, "timer") <=> Has(Tail(ready), "timer") \/ Head(ready) = "timer"
        /\ \A x \in Handlers :
             Has(Append(Tail(ready), x), "timer") <=> Has(Tail(ready), "timer") \/ x = "timer"
  BY <1>q, Running, Queueing
<1> USE DEF NoTimer, InReady
<1>1. CASE Main \/ RestReturns \/ ClientTurn \/ Exited \/ UNCHANGED vars
  BY <1>1 DEF Main, RestReturns, ClientTurn, Exited, vars
<1>2. CASE TimerExpires
  BY <1>2 DEF TimerExpires
<1>3. CASE MessageRead \/ HandshakeEnds
  BY <1>3, <1>a DEF MessageRead, HandshakeEnds, Becomes, Handlers
<1>4. ASSUME NEW s \in {"SIGTERM", "SIGHUP"}, SignalReady(s) \/ Signalled(s) PROVE NoTimer'
  BY <1>4, <1>a DEF SignalReady, Signalled, Becomes, Handlers
<1>5. CASE RunTimer
  BY <1>5, <1>b DEF RunTimer, Runs
<1>6. CASE RunEstablished
  BY <1>6, <1>b DEF RunEstablished, Runs, Rest, OnConnected, Handlers
<1>7. CASE RunSubscribe \/ RunMessage \/ RunHarmless
  BY <1>7, <1>b DEF RunSubscribe, RunMessage, RunHarmless, Runs, Rest
<1>8. CASE RunTerminate
  BY <1>8, <1>b DEF RunTerminate, Runs, Rest, Handlers
<1> QED BY <1>1, <1>2, <1>3, <1>4, <1>5, <1>6, <1>7, <1>8 DEF Next, IoContext

\* The first states are a BasicTimer's.
LEMMA TimerInit == Init => Timer!Init
<1> SUFFICES ASSUME Init PROVE Timer!Init
  OBVIOUS
<1>1. Completions = <<>>
  BY PickedEmpty DEF Init, Completions
<1>2. enabled \in BOOLEAN /\ stopped = FALSE /\ armed = enabled
  BY DEF Init
<1> QED BY <1>1, <1>2 DEF Timer!Init

\* The waits of the timer.
Waits == IF armed THEN 1 ELSE 0

\* Every step is one of a BasicTimer, or none.
LEMMA TimerStep == PInv /\ NoTimer /\ [Next]_vars => [Timer!Next]_(Timer!vars)
<1> SUFFICES ASSUME PInv, NoTimer, [Next]_vars PROVE [Timer!Next]_(Timer!vars)
  OBVIOUS
<1>q. ready \in Seq(Handlers) /\ Completions = Picked(ready, Shown) /\ Completions' = Picked(ready', Shown)
  BY DEF PInv, TypeOK, Completions
<1>a. \A x \in Handlers \ {"timer", "aborted"} : Picked(Append(ready, x), Shown) = Completions
  BY <1>q, ShowsQueued
<1>b. ready # <<>> => /\ Tail(ready) \in Seq(Handlers)
                      /\ Head(ready) \notin {"timer", "aborted"} => Picked(Tail(ready), Shown) = Completions
  BY <1>q, Running, ShowsTaken
<1>0. ASSUME UNCHANGED <<armed, Completions, stopped, enabled>> PROVE UNCHANGED Timer!vars
  BY <1>0 DEF Timer!vars
<1>1. CASE Main \/ RestReturns \/ ClientTurn \/ Exited \/ UNCHANGED vars
  <2>1. UNCHANGED <<armed, ready, stopped, enabled>>
    BY <1>1 DEF Main, RestReturns, ClientTurn, Exited, vars
  <2> QED BY <1>0, <1>q, <2>1
<1>2. CASE TimerExpires
  <2>1. Completions' = Completions \o <<"expired">>
    BY <1>2, <1>q, ShowsQueued DEF TimerExpires, Becomes, Handlers
  <2>2. armed = TRUE /\ armed' = FALSE /\ UNCHANGED <<stopped, enabled>>
    BY <1>2 DEF TimerExpires, PInv, TypeOK
  <2>3. (IF armed THEN 1 ELSE 0) = 1 /\ (IF armed THEN 1 ELSE 0)' = 0
    BY <2>2
  <2>4. Timer!Ended(IF armed THEN 1 ELSE 0, "expired") = <<"expired">>
    BY <2>3 DEF Timer!Ended
  <2>5. UNCHANGED IF stopped THEN "stop" ELSE IF enabled THEN "beats" ELSE "nothing"
    BY <2>2
  <2>6. UNCHANGED TRUE /\ (IF armed THEN 1 ELSE 0) > 0
    BY <2>3
  <2>7. Timer!Expire
    BY <2>1, <2>3, <2>4, <2>5, <2>6 DEF Timer!Expire
  <2> QED BY <2>7 DEF Timer!Next
<1>3. CASE MessageRead \/ HandshakeEnds
  <2>1. UNCHANGED <<armed, stopped, enabled>> /\ \E x \in Handlers \ {"timer", "aborted"} : ready' = Append(ready, x)
    BY <1>3 DEF MessageRead, HandshakeEnds, Becomes, Handlers
  <2>2. Completions' = Completions
    BY <1>q, <1>a, <2>1
  <2> QED BY <1>0, <2>1, <2>2
<1>4. ASSUME NEW s \in {"SIGTERM", "SIGHUP"}, SignalReady(s) \/ Signalled(s)
      PROVE  UNCHANGED Timer!vars
  <2>1. UNCHANGED <<armed, stopped, enabled>> /\ (ready' = ready \/ ready' = Append(ready, s))
    BY <1>4 DEF SignalReady, Signalled, Becomes
  <2>2. s \in Handlers \ {"timer", "aborted"}
    BY DEF Handlers
  <2>3. Picked(Append(ready, s), Shown) = Completions
    BY <1>a, <2>2
  <2>4. Completions' = Completions
    BY <1>q, <2>1, <2>3
  <2> QED BY <1>0, <2>1, <2>4
<1>5. CASE RunTimer
  <2>1. ready # <<>> /\ Head(ready) = "timer" /\ ready' = Tail(ready) /\ ~stopped /\ armed' = TRUE
        /\ UNCHANGED <<stopped, enabled>>
    BY <1>5 DEF RunTimer, Runs, Rest, T1Free, OnTimeout, PInv, StopDone
  <2>2. InReady("timer")
    BY <2>1, <1>q, Running DEF InReady, Handlers
  <2>3. armed = FALSE
    BY <2>1, <2>2 DEF PInv, HeartbeatKept, NoTimer, TypeOK
  <2>4. Completions = <<"expired">> \o Completions' /\ Completions' \in Seq({"expired", "aborted"})
    BY <1>q, <2>1, ShowsTaken
  <2>5. Completions # <<>> /\ Head(Completions) = "expired" /\ Tail(Completions) = Completions'
    BY <2>4
  <2>6. Completions' \o Timer!Ended(0, "aborted") = Completions'
    BY <2>4 DEF Timer!Ended
  <2>7. Timer!OnTimeout
    BY <2>1, <2>3, <2>5, <2>6 DEF Timer!OnTimeout, Timer!Again, Timer!PutTimer, Timer!Runs, Timer!Rest
  <2> QED BY <2>7 DEF Timer!Next
<1>6. CASE RunEstablished
  <2>1. "subscribe" \in Handlers \ {"timer", "aborted"}
    BY DEF Handlers
  <2>2. UNCHANGED <<armed, Completions, stopped, enabled>>
    BY <1>6, <1>q, <1>b, <2>1, ShowsQueued DEF RunEstablished, Runs, Rest, OnConnected
  <2> QED BY <1>0, <2>2
<1>7. CASE RunSubscribe \/ RunMessage \/ RunHarmless
  <2>1. UNCHANGED <<armed, Completions, stopped, enabled>>
    BY <1>7, <1>q, <1>b DEF RunSubscribe, RunMessage, RunHarmless, Runs, Rest
  <2> QED BY <1>0, <2>1
<1>8. CASE RunTerminate
  <2>1. /\ ready # <<>> /\ Head(ready) = "SIGTERM" /\ armed' = FALSE /\ stopped' = TRUE
        /\ ready' = IF armed THEN Append(Tail(ready), "aborted") ELSE Tail(ready)
        /\ UNCHANGED enabled
    BY <1>8 DEF RunTerminate, Runs, Rest
  <2>2. Tail(ready) \in Seq(Handlers) /\ Picked(Tail(ready), Shown) = Completions
        /\ Completions \in Seq({"expired", "aborted"})
    BY <1>q, <1>b, <2>1, ShowsTaken
  <2>3. Completions' = Completions \o Timer!Ended(Waits, "aborted")
    <3>1. CASE armed
      <4>1. Timer!Ended(Waits, "aborted") = <<"aborted">>
        BY <3>1 DEF Waits, Timer!Ended
      <4>2. Picked(ready', Shown) = Picked(Tail(ready), Shown) \o <<"aborted">>
        BY <2>1, <2>2, <3>1, ShowsQueued DEF Handlers
      <4> QED BY <1>q, <2>2, <4>1, <4>2
    <3>2. CASE ~armed
      <4>1. Completions \o Timer!Ended(Waits, "aborted") = Completions
        BY <2>2, <3>2 DEF Waits, Timer!Ended
      <4> QED BY <1>q, <2>1, <2>2, <3>2, <4>1
    <3> QED BY <3>1, <3>2
  <2>4. Timer!Stop
    BY <2>1, <2>3 DEF Timer!Stop, Timer!Cancel, Waits
  <2> QED BY <2>4 DEF Timer!Next
<1> QED BY <1>1, <1>2, <1>3, <1>4, <1>5, <1>6, <1>7, <1>8 DEF Next, IoContext

\* Among all the other handlers, through SIGTERM and disabled or not, the heartbeat is
\* the timer of BasicTimer, and so all that is proved of it holds of the heartbeat.
THEOREM HeartbeatIsTimer == Spec => TimerAsPromised
<1>1. Init => NoTimer
  <2>1. ASSUME Init PROVE ~Has(ready, "timer")
    BY <2>1 DEF Init, Has
  <2>2. ASSUME Init PROVE armed = enabled
    BY <2>2 DEF Init
  <2>3. ASSUME Init, ~enabled PROVE ~armed /\ ~Has(ready, "timer")
    BY <2>1, <2>2, <2>3
  <2> QED BY <2>3 DEF NoTimer, InReady
<1>2. PInv /\ NoTimer /\ [Next]_vars => NoTimer'
  BY NoTimerStep DEF PInv
<1> QED BY <1>1, <1>2, ProgramInvariant, TimerInit, TimerStep, PTL DEF Spec, TimerAsPromised, Timer!Spec
=============================================================================
