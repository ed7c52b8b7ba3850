-------------------------- MODULE BasicTimerProofs ---------------------------
(***************************************************************************)
(* A timer beats until it is stopped, and only Start adds to the calls it  *)
(* will make, however often it is started and whatever its handler does.   *)
(***************************************************************************)
EXTENDS BasicTimer, FiniteSetTheorems, TLAPS

Results == {"expired", "aborted"}

\* The inductive invariant: a timer asked to beat is still recursive, so whichever of
\* its completions runs waits again (OnTimeout).
TInv ==
  /\ TypeOK
  /\ waits <= 1
  /\ asked = "beats" => recursive
  /\ KeepsBeating

-----------------------------------------------------------------------------
\* Ended waits join the queue behind what it holds.
LEMMA Joining ==
  ASSUME NEW q \in Seq(Results), NEW n \in {0, 1}, NEW c \in Results
  PROVE  /\ q \o Ended(n, c) \in Seq(Results)
         /\ \A i \in 1 .. Len(q \o Ended(n, c)) :
              (i \in 1 .. Len(q) /\ (q \o Ended(n, c))[i] = q[i]) \/ (q \o Ended(n, c))[i] = c
         /\ \A i \in 1 .. Len(q) : i \in 1 .. Len(q \o Ended(n, c)) /\ (q \o Ended(n, c))[i] = q[i]
         /\ n = 0 => Len(q \o Ended(n, c)) = Len(q)
         /\ n = 1 => /\ Len(q \o Ended(n, c)) = Len(q) + 1
                     /\ (q \o Ended(n, c))[Len(q) + 1] = c
<1>1. Ended(n, c) \in Seq(Results) /\ Len(Ended(n, c)) = n /\ \A i \in 1 .. n : Ended(n, c)[i] = c
  BY DEF Ended, Results
<1>2. Len(q) \in Nat
  OBVIOUS
<1> HIDE DEF Ended
<1> QED BY <1>1, <1>2

\* The first completion runs.
LEMMA Running ==
  ASSUME NEW q \in Seq(Results), q # <<>>
  PROVE  /\ Tail(q) \in Seq(Results) /\ Head(q) \in Results /\ Head(q) = q[1]
         /\ \A i \in 1 .. Len(Tail(q)) : i + 1 \in 1 .. Len(q) /\ Tail(q)[i] = q[i + 1]
         /\ \A i \in 1 .. Len(q) : i = 1 \/ (i - 1 \in 1 .. Len(Tail(q)) /\ q[i] = Tail(q)[i - 1])
OBVIOUS

\* The first states have the invariant.
LEMMA TInvInit == Init => TInv
<1> SUFFICES ASSUME Init PROVE TInv
  OBVIOUS
<1>1. recursive \in BOOLEAN /\ completions \in Seq({"expired", "aborted"})
  BY DEF Init
<1>2. asked \in {"nothing", "one", "beats"} /\ (asked = "beats" => recursive)
  BY DEF Init
<1>3. waits \in {0, 1} /\ (asked = "beats" => waits = 1)
  BY DEF Init
<1> QED BY <1>1, <1>2, <1>3 DEF TInv, TypeOK, KeepsBeating

\* Every step keeps it.
LEMMA TInvStep ==
  ASSUME TInv, [Next]_vars
  PROVE  TInv'
<1>0. /\ completions \in Seq(Results) /\ waits \in {0, 1} /\ recursive \in BOOLEAN
      /\ "expired" \in Results /\ "aborted" \in Results
      /\ asked \in {"nothing", "one", "beats", "stop"}
  BY DEF TInv, TypeOK, Results
<1>q. /\ completions # <<>> => Rest \in Seq(Results)
      /\ completions \o Ended(waits, "aborted") \in Seq(Results)
      /\ completions # <<>> => Rest \o Ended(waits, "aborted") \in Seq(Results)
  BY <1>0, Joining, Running DEF Rest
<1>1. CASE Start
  BY <1>0, <1>q, <1>1 DEF Start, PutTimer, TInv, TypeOK, KeepsBeating, Results
<1>2. CASE Stop
  BY <1>0, <1>q, <1>2 DEF Stop, Cancel, TInv, TypeOK, KeepsBeating, Results
<1>3. ASSUME NEW type \in BOOLEAN, Recursive(type) PROVE TInv'
  <2>1. UNCHANGED <<waits, completions>> /\ recursive' = type
    BY <1>3 DEF Recursive
  <2>2. asked' \in {"nothing", "one", "beats", "stop"} /\ (asked' = "beats" => type /\ asked = "beats")
    BY <1>0, <1>3 DEF Recursive
  <2> QED BY <2>1, <2>2 DEF TInv, TypeOK, KeepsBeating, InQueue
<1>4. CASE Expire
  <2>1. waits = 1 /\ waits' = 0 /\ completions' = completions \o Ended(1, "expired")
    BY <1>0, <1>4 DEF Expire
  <2>2. completions' \in Seq(Results) /\ InQueue("expired")'
    <3>1. /\ completions' \in Seq(Results) /\ Len(completions) \in Nat
          /\ Len(completions') = Len(completions) + 1
          /\ completions'[Len(completions) + 1] = "expired"
      <4>1. /\ Ended(1, "expired") \in Seq(Results) /\ Len(Ended(1, "expired")) = 1
            /\ Ended(1, "expired")[1] = "expired"
        BY DEF Ended, Results
      <4> QED BY <1>0, <2>1, <4>1
    <3>2. Len(completions) + 1 \in 1 .. Len(completions')
      BY <3>1
    <3> QED BY <3>1, <3>2 DEF InQueue
  <2> QED BY <1>4, <2>1, <2>2 DEF Expire, TInv, TypeOK, KeepsBeating, Results
<1>6. CASE OnTimeout
  <2>1. recursive' \in BOOLEAN /\ asked' \in {"nothing", "one", "beats", "stop"}
        /\ (asked' = "beats" => recursive')
    <3>1. CASE UNCHANGED <<recursive, asked>>
      BY <1>0, <3>1 DEF TInv
    <3>2. ASSUME NEW type \in BOOLEAN, recursive' = type,
                 asked' = IF asked = "beats" /\ ~type THEN "one" ELSE asked
          PROVE  <2>1
      <4>1. asked' = "beats" => type
        BY <3>2
      <4> QED BY <1>0, <3>2, <4>1
    <3> QED BY <1>6, <3>1, <3>2 DEF OnTimeout
  <2>2. /\ waits' \in {0, 1} /\ completions' \in Seq(Results)
        /\ recursive' => waits' = 1
    BY <1>0, <1>q, <1>6 DEF OnTimeout, Again, PutTimer, Runs
  <2> QED BY <2>1, <2>2 DEF TInv, TypeOK, KeepsBeating, Results
<1>7. CASE OnTimeoutStops
  <2>1. waits' \in {0, 1} /\ completions' \in Seq(Results) /\ UNCHANGED recursive /\ asked' = "stop"
    BY <1>0, <1>q, <1>7 DEF OnTimeoutStops, PutTimer, Cancel, Runs
  <2> QED BY <1>0, <2>1 DEF TInv, TypeOK, KeepsBeating, Results
<1>8. CASE OnTimeoutStarts
  <2>1. (Rest \o (IF recursive THEN <<"aborted">> ELSE <<>>)) \in Seq(Results)
    BY <1>0, <1>q, <1>8 DEF OnTimeoutStarts, Runs
  <2>2. completions' \in Seq(Results)
    BY <1>0, <1>8, <2>1, Joining DEF OnTimeoutStarts, PutTimer
  <2> QED BY <1>0, <1>8, <2>2
          DEF OnTimeoutStarts, PutTimer, TInv, TypeOK, KeepsBeating, Results
<1>9. CASE OnAborted
  <2>1. /\ UNCHANGED <<recursive, waits, asked>> /\ completions' = Tail(completions)
        /\ completions # <<>> /\ Head(completions) = "aborted"
    BY <1>9 DEF OnAborted, Runs, Rest
  <2>2. completions' \in Seq(Results) /\ (InQueue("expired") <=> InQueue("expired")')
    <3>1. InQueue("expired") => InQueue("expired")'
      BY <1>0, <2>1, Running DEF InQueue
    <3>2. InQueue("expired")' => InQueue("expired")
      BY <1>0, <2>1, Running DEF InQueue
    <3> QED BY <1>0, <2>1, <3>1, <3>2, Running
  <2> QED BY <2>1, <2>2 DEF TInv, TypeOK, KeepsBeating, Results
<1>10. CASE UNCHANGED vars
  BY <1>10 DEF vars, TInv, TypeOK, KeepsBeating, InQueue
<1> QED BY <1>1, <1>2, <1>3, <1>4, <1>6, <1>7, <1>8, <1>9, <1>10 DEF Next

-----------------------------------------------------------------------------
(* The calls to come *)

\* They are as many as the queue has expired waits, one less when one of those runs.
LEMMA CallsOf ==
  ASSUME NEW q \in Seq(Results)
  PROVE  /\ IsFiniteSet(Calls(q)) /\ Cardinality(Calls(q)) \in Nat
         /\ \A n \in {0, 1} : Calls(q \o Ended(n, "aborted")) = Calls(q)
         /\ Cardinality(Calls(q \o Ended(1, "expired"))) = Cardinality(Calls(q)) + 1
         /\ Calls(q \o <<"aborted">>) = Calls(q) /\ q \o <<"aborted">> \in Seq(Results)
<1>0. "expired" \in Results /\ "aborted" \in Results /\ Len(q) \in Nat
  BY DEF Results
<1>1. IsFiniteSet(Calls(q)) /\ Cardinality(Calls(q)) \in Nat
  <2>1. IsFiniteSet(1 .. Len(q))
    BY <1>0, FS_Interval
  <2>2. Calls(q) \in SUBSET (1 .. Len(q))
    BY DEF Calls
  <2>3. IsFiniteSet(Calls(q))
    BY <2>1, <2>2, FS_Subset
  <2> QED BY <2>3, FS_CardinalityType
<1>2. ASSUME NEW n \in {0, 1} PROVE Calls(q \o Ended(n, "aborted")) = Calls(q)
  <2>1. Calls(q \o Ended(0, "aborted")) = Calls(q)
    <3> DEFINE r == q \o Ended(0, "aborted")
    <3>1. Len(r) = Len(q) /\ \A i \in 1 .. Len(q) : r[i] = q[i]
      BY <1>0, Joining
    <3> HIDE DEF r
    <3>2. Calls(r) = Calls(q)
      BY <3>1 DEF Calls
    <3> QED BY <3>2 DEF r
  <2>2. Calls(q \o Ended(1, "aborted")) = Calls(q)
    <3> DEFINE r == q \o Ended(1, "aborted")
    <3>1. /\ \A i \in 1 .. Len(q) : i \in 1 .. Len(r) /\ r[i] = q[i]
          /\ Len(r) = Len(q) + 1 /\ r[Len(q) + 1] = "aborted"
      BY <1>0, Joining
    <3> HIDE DEF r
    <3>2. Calls(r) = Calls(q)
      BY <1>0, <3>1 DEF Calls
    <3> QED BY <3>2 DEF r
  <2> QED BY <2>1, <2>2
<1>3. Cardinality(Calls(q \o Ended(1, "expired"))) = Cardinality(Calls(q)) + 1
  <2> DEFINE r == q \o Ended(1, "expired")
  <2>1. /\ \A i \in 1 .. Len(q) : i \in 1 .. Len(r) /\ r[i] = q[i]
        /\ Len(r) = Len(q) + 1 /\ r[Len(q) + 1] = "expired"
    BY <1>0, Joining
  <2> HIDE DEF r
  <2>2. Calls(r) = Calls(q) \cup {Len(q) + 1} /\ Len(q) + 1 \notin Calls(q)
    BY <1>0, <2>1 DEF Calls
  <2>3. Cardinality(Calls(r)) = Cardinality(Calls(q)) + 1
    BY <1>1, <2>2, FS_AddElement
  <2> QED BY <2>3 DEF r
<1>4. Calls(q \o <<"aborted">>) = Calls(q) /\ q \o <<"aborted">> \in Seq(Results)
  BY <1>0 DEF Calls
<1> QED BY <1>1, <1>2, <1>3, <1>4

\* A completion runs: a call less, if its wait had expired.
LEMMA CallsBehind ==
  ASSUME NEW q \in Seq(Results), q # <<>>
  PROVE  Cardinality(Calls(q)) =
           Cardinality(Calls(Tail(q))) + (IF Head(q) = "expired" THEN 1 ELSE 0)
<1> DEFINE t == Tail(q)
           S == {i + 1 : i \in Calls(t)}
           f == [i \in Calls(t) |-> i + 1]
<1>1. /\ t \in Seq(Results) /\ Head(q) = q[1] /\ Len(q) \in Nat \ {0}
      /\ \A i \in 1 .. Len(t) : i + 1 \in 1 .. Len(q) /\ t[i] = q[i + 1]
      /\ \A i \in 1 .. Len(q) : i = 1 \/ (i - 1 \in 1 .. Len(t) /\ q[i] = t[i - 1])
  BY Running
<1>2. IsFiniteSet(Calls(t)) /\ Calls(t) \subseteq Nat \ {0}
  <2>1. IsFiniteSet(Calls(t))
    BY <1>1, CallsOf
  <2>2. Calls(t) \subseteq 1 .. Len(t)
    BY DEF Calls
  <2> QED BY <1>1, <2>1, <2>2
<1>3. IsFiniteSet(S) /\ Cardinality(S) = Cardinality(Calls(t)) /\ 1 \notin S
  <2> HIDE DEF t
  <2>1. f \in [Calls(t) -> S]
    OBVIOUS
  <2>2. \A i, j \in Calls(t) : f[i] = f[j] => i = j
    BY <1>2
  <2>3. \A s \in S : \E i \in Calls(t) : f[i] = s
    OBVIOUS
  <2>d. DOMAIN f = Calls(t)
    OBVIOUS
  <2> HIDE DEF f, S
  <2>4. f \in Bijection(Calls(t), S)
    BY <2>1, <2>2, <2>3, <2>d DEF Bijection, Injection, Surjection, IsInjective
  <2>5. ExistsBijection(Calls(t), S)
    BY <2>4 DEF ExistsBijection
  <2>6. 1 \notin S
    BY <1>2 DEF S
  <2> QED BY <1>2, <2>5, <2>6, FS_Bijection
<1>4. Calls(q) = IF Head(q) = "expired" THEN S \cup {1} ELSE S
  <2> HIDE DEF t
  <2>1. ASSUME NEW i \in Calls(q) PROVE (i = 1 /\ Head(q) = "expired") \/ i \in S
    <3>1. i \in 1 .. Len(q) /\ q[i] = "expired"
      BY DEF Calls
    <3>2. ASSUME i # 1 PROVE i - 1 \in Calls(t) /\ i = (i - 1) + 1
      BY <1>1, <3>1, <3>2 DEF Calls
    <3> QED BY <1>1, <3>1, <3>2
  <2>2. ASSUME NEW i \in S PROVE i \in Calls(q)
    <3>1. PICK j \in Calls(t) : i = j + 1
      OBVIOUS
    <3> QED BY <1>1, <3>1 DEF Calls
  <2>3. Head(q) = "expired" => 1 \in Calls(q)
    BY <1>1 DEF Calls
  <2>4. 1 \in Calls(q) => Head(q) = "expired"
    BY <1>1 DEF Calls
  <2> HIDE DEF S
  <2> QED BY <2>1, <2>2, <2>3, <2>4
<1> HIDE DEF S, t
<1>5. Cardinality(Calls(t)) \in Nat
  BY <1>2, FS_CardinalityType
<1>6. CASE Head(q) = "expired"
  BY <1>3, <1>4, <1>6, FS_AddElement DEF t
<1>7. CASE Head(q) # "expired"
  BY <1>3, <1>4, <1>5, <1>7 DEF t
<1> QED BY <1>6, <1>7

\* No step but a Start that finds no wait in progress adds to the calls to come.
LEMMA AddsStep ==
  ASSUME TInv, Next
  PROVE  ToCome' > ToCome => Start /\ waits = 0
<1> DEFINE c == Cardinality(Calls(completions))
           d == Cardinality(Calls(completions'))
<1>0. /\ completions \in Seq(Results) /\ waits \in {0, 1} /\ recursive \in BOOLEAN
      /\ c \in Nat
  <2>1. completions \in Seq(Results) /\ waits \in {0, 1} /\ recursive \in BOOLEAN
    BY DEF TInv, TypeOK, Results
  <2> QED BY <2>1, CallsOf
<1>q. Calls(completions \o Ended(waits, "aborted")) = Calls(completions)
  BY <1>0, CallsOf
<1>r. ASSUME completions # <<>>
      PROVE  /\ Rest \in Seq(Results) /\ Cardinality(Calls(Rest)) \in Nat
             /\ c = Cardinality(Calls(Rest)) + (IF Head(completions) = "expired" THEN 1 ELSE 0)
             /\ Calls(Rest \o Ended(waits, "aborted")) = Calls(Rest)
             /\ Calls((Rest \o <<"aborted">>) \o Ended(waits, "aborted")) = Calls(Rest)
             /\ Calls((Rest \o <<>>) \o Ended(waits, "aborted")) = Calls(Rest)
  <2>1. Rest \in Seq(Results)
    BY <1>0, <1>r, Running DEF Rest
  <2>2. Rest \o <<"aborted">> \in Seq(Results) /\ Calls(Rest \o <<"aborted">>) = Calls(Rest)
    BY <2>1, CallsOf
  <2>3. Rest \o <<>> = Rest
    BY <2>1
  <2>4. Calls((Rest \o <<"aborted">>) \o Ended(waits, "aborted")) = Calls(Rest)
    BY <1>0, <2>2, CallsOf
  <2>5. c = Cardinality(Calls(Rest)) + (IF Head(completions) = "expired" THEN 1 ELSE 0)
    BY <1>0, <1>r, CallsBehind DEF Rest
  <2>6. Cardinality(Calls(Rest)) \in Nat /\ Calls(Rest \o Ended(waits, "aborted")) = Calls(Rest)
    BY <1>0, <2>1, CallsOf
  <2> QED BY <2>1, <2>3, <2>4, <2>5, <2>6
<1>t. ToCome = waits + c /\ ToCome' = waits' + d
  BY DEF ToCome
<1> HIDE DEF c, d
<1>1. CASE Start
  <2>1. waits' = 1 /\ d = c
    BY <1>q, <1>1 DEF Start, PutTimer, c, d
  <2> QED BY <1>0, <1>1, <1>t, <2>1
<1>2. CASE Stop
  <2>1. waits' = 0 /\ d = c
    BY <1>q, <1>2 DEF Stop, Cancel, c, d
  <2> QED BY <1>0, <1>t, <2>1
<1>3. ASSUME NEW type \in BOOLEAN, Recursive(type) PROVE ~(ToCome' > ToCome)
  <2>1. waits' = waits /\ d = c
    BY <1>3 DEF Recursive, c, d
  <2> QED BY <1>0, <1>t, <2>1
<1>4. CASE Expire
  <2>1. waits = 1 /\ waits' = 0 /\ d = c + 1
    BY <1>0, <1>4, CallsOf DEF Expire, c, d
  <2> QED BY <1>0, <1>t, <2>1
<1>5. ASSUME Runs("expired"), waits' \in {0, 1}, Calls(completions') = Calls(Rest)
      PROVE  ~(ToCome' > ToCome)
  <2>1. d \in Nat /\ c = d + 1
    BY <1>r, <1>5 DEF Runs, d
  <2>2. waits' \in {0, 1}
    BY <1>5
  <2>3. CASE waits' = 0
    BY <1>0, <1>t, <2>1, <2>3
  <2>4. CASE waits' = 1
    BY <1>0, <1>t, <2>1, <2>4
  <2> QED BY <2>2, <2>3, <2>4
<1>6. CASE OnTimeout
  <2>1. /\ Runs("expired")
        /\ \/ waits' = 1 /\ completions' = Rest \o Ended(waits, "aborted")
           \/ waits' = waits /\ completions' = Rest
    BY <1>6 DEF OnTimeout, Again, PutTimer
  <2>2. completions # <<>>
    BY <2>1 DEF Runs
  <2> QED BY <1>0, <1>r, <1>5, <2>1, <2>2
<1>7. CASE OnTimeoutStops
  <2>1. /\ Runs("expired") /\ waits' \in {0, 1}
        /\ completions' = Rest \o Ended(waits, "aborted")
    BY <1>7 DEF OnTimeoutStops, PutTimer, Cancel
  <2>2. completions # <<>>
    BY <2>1 DEF Runs
  <2> QED BY <1>r, <1>5, <2>1, <2>2
<1>8. CASE OnTimeoutStarts
  <2>1. /\ Runs("expired") /\ waits' = 1
        /\ \/ completions' = (Rest \o <<"aborted">>) \o Ended(waits, "aborted")
           \/ completions' = (Rest \o <<>>) \o Ended(waits, "aborted")
    BY <1>8 DEF OnTimeoutStarts, PutTimer
  <2>2. completions # <<>>
    BY <2>1 DEF Runs
  <2> QED BY <1>r, <1>5, <2>1, <2>2
<1>9. CASE OnAborted
  <2>1. completions # <<>> /\ Head(completions) = "aborted" /\ waits' = waits /\ completions' = Rest
    BY <1>9 DEF OnAborted, Runs
  <2>2. d \in Nat /\ c = d
    BY <1>r, <2>1 DEF d
  <2> QED BY <1>0, <1>t, <2>1, <2>2
<1> QED BY <1>1, <1>2, <1>3, <1>4, <1>6, <1>7, <1>8, <1>9 DEF Next

-----------------------------------------------------------------------------
\* The invariant holds for any number of calls, expiries and handlers in the queue.
THEOREM TimerInvariant == Spec => []TInv
<1>1. TInv /\ [Next]_vars => TInv'
  BY TInvStep
<1> QED BY TInvInit, <1>1, PTL DEF Spec

\* A recursive timer nobody stopped never dies.
THEOREM BeatsUntilStopped == Spec => []KeepsBeating
BY TimerInvariant, PTL DEF TInv

\* Only a Start that finds no wait in progress adds to the calls of the handler to come.
THEOREM StartsAdd == Spec => OnlyStartAdds
<1>1. TInv /\ [Next]_vars => [ToCome' > ToCome => Start /\ waits = 0]_vars
  BY AddsStep
<1> QED BY <1>1, TimerInvariant, PTL DEF Spec, OnlyStartAdds
=============================================================================
