------------------------- MODULE HandlerQueueProofs --------------------------
(***************************************************************************)
(* Picked distributes over concatenation.  Its recursion is over data, so  *)
(* the proofs are by induction, in a form without operator parameters: a   *)
(* set of numbers that holds 0 and every successor holds them all.         *)
(***************************************************************************)
EXTENDS HandlerQueue, WellFoundedInduction, SequenceTheorems, TLAPS

\* A set of natural numbers has a least one.
LEMMA Least ==
  ASSUME NEW T, T \subseteq Nat, T # {}
  PROVE  \E x \in T : \A y \in T : x <= y
<1> DEFINE R == {p \in Nat \X Nat : p[1] < p[2]}
<1>1. OpToRel(<, Nat) = R
  BY Zenon DEF OpToRel
<1>2. IsWellFoundedOn(R, Nat)
  BY <1>1, NatLessThanWellFounded, Zenon
<1> HIDE DEF R
<1>3. PICK x \in T : \A y \in T : <<y, x>> \notin R
  BY <1>2, WFMin
<1>4. \A y \in T : y < x => <<y, x>> \in R
  BY DEF R
<1>5. \A y \in T : ~(y < x) /\ y \in Nat
  BY <1>3, <1>4
<1>6. \A y \in T : x <= y
  BY <1>5
<1> QED
  BY <1>3, <1>6

\* Induction up to N.
LEMMA Induction ==
  ASSUME NEW N \in Nat, NEW S, 0 \in S, \A n \in 0 .. N - 1 : n \in S => n + 1 \in S
  PROVE  0 .. N \subseteq S
<1> DEFINE T == {n \in 0 .. N : n \notin S}
<1> SUFFICES ASSUME T # {} PROVE FALSE
  OBVIOUS
<1>1. PICK x \in T : \A y \in T : x <= y
  <2>1. T \subseteq Nat
    OBVIOUS
  <2> QED
    BY <2>1, Least
<1>2. x # 0 /\ x \in 1 .. N
  OBVIOUS
<1>3. x - 1 \in 0 .. N - 1 /\ x - 1 \notin T
  BY <1>1, <1>2
<1>4. x - 1 \in S
  BY <1>3
<1>5. x \in S
  BY <1>2, <1>3, <1>4
<1> QED
  BY <1>1, <1>5

-----------------------------------------------------------------------------

\* P is the function that the definition of Picks describes, up to N.
AfterOne(q, f, P, n) ==
  IF n = 0 THEN <<>>
  ELSE IF q[n] \in DOMAIN f THEN Append(P[n - 1], f[q[n]]) ELSE P[n - 1]
IsPicks(q, f, N, P) == P = [n \in 0 .. N |-> AfterOne(q, f, P, n)]

\* There is one.
LEMMA PicksExist ==
  ASSUME NEW q, NEW f, NEW N \in Nat
  PROVE  \E P : IsPicks(q, f, N, P)
<1> DEFINE S == {n \in Nat : \E P : IsPicks(q, f, n, P)}
<1>1. 0 \in S
  <2> DEFINE P == [n \in 0 .. 0 |-> <<>>]
  <2>1. P = [n \in 0 .. 0 |-> AfterOne(q, f, P, n)]
    BY DEF AfterOne
  <2> QED
    BY <2>1, Zenon DEF IsPicks
<1>2. ASSUME NEW n \in 0 .. N - 1, n \in S PROVE n + 1 \in S
  <2>1. PICK P : P = [i \in 0 .. n |-> AfterOne(q, f, P, i)]
    BY <1>2 DEF IsPicks
  <2> DEFINE Q == [i \in 0 .. n + 1 |-> IF i = n + 1 THEN AfterOne(q, f, P, i) ELSE P[i]]
  <2>2. \A i \in 0 .. n + 1 : i # 0 => Q[i - 1] = P[i - 1]
    OBVIOUS
  <2>3. \A i \in 0 .. n + 1 : AfterOne(q, f, Q, i) = AfterOne(q, f, P, i)
    BY <2>2 DEF AfterOne
  <2>4. \A i \in 0 .. n : P[i] = AfterOne(q, f, P, i)
    BY <2>1
  <2>5. \A i \in 0 .. n + 1 : Q[i] = AfterOne(q, f, Q, i)
    <3> TAKE i \in 0 .. n + 1
    <3>1. CASE i = n + 1
      BY <2>3, <3>1
    <3>2. CASE i # n + 1
      <4>1. i \in 0 .. n /\ Q[i] = P[i]
        BY <3>2
      <4> QED
        BY <2>3, <2>4, <4>1
    <3> QED
      BY <3>1, <3>2
  <2>6. Q = [i \in 0 .. n + 1 |-> Q[i]]
    OBVIOUS
  <2> HIDE DEF Q
  <2>7. IsPicks(q, f, n + 1, Q)
    BY <2>5, <2>6 DEF IsPicks
  <2> QED
    BY <2>7
<1> HIDE DEF S
<1>3. 0 .. N \subseteq S
  BY <1>1, <1>2, Induction
<1> QED
  BY <1>3 DEF S

\* So Picks is one.
LEMMA PicksStep ==
  ASSUME NEW f, NEW q, Len(q) \in Nat
  PROVE  \A n \in 0 .. Len(q) : Picks(q, f)[n] = AfterOne(q, f, Picks(q, f), n)
<1>1. \E P : IsPicks(q, f, Len(q), P)
  BY PicksExist
<1>2. IsPicks(q, f, Len(q), Picks(q, f))
  BY <1>1, Zenon DEF Picks, IsPicks, AfterOne
<1> QED
  BY <1>2, Zenon DEF IsPicks

-----------------------------------------------------------------------------

\* Picks, case by case.
ArePicks(q, f, P) ==
  /\ P[0] = <<>>
  /\ \A n \in 0 .. Len(q) - 1 :
       /\ q[n + 1] \in DOMAIN f => P[n + 1] = Append(P[n], f[q[n + 1]])
       /\ q[n + 1] \notin DOMAIN f => P[n + 1] = P[n]

LEMMA PicksAre == \A H, q, f : q \in Seq(H) => ArePicks(q, f, Picks(q, f))
<1> SUFFICES ASSUME NEW H, NEW q, NEW f, q \in Seq(H) PROVE ArePicks(q, f, Picks(q, f))
  OBVIOUS
<1>1. Len(q) \in Nat /\ 0 \in 0 .. Len(q)
  OBVIOUS
<1>2. \A n \in 0 .. Len(q) : Picks(q, f)[n] = AfterOne(q, f, Picks(q, f), n)
  BY <1>1, PicksStep
<1>3. Picks(q, f)[0] = <<>>
  BY <1>1, <1>2, Zenon DEF AfterOne
<1>4. ASSUME NEW n \in 0 .. Len(q) - 1
      PROVE  /\ q[n + 1] \in DOMAIN f => Picks(q, f)[n + 1] = Append(Picks(q, f)[n], f[q[n + 1]])
             /\ q[n + 1] \notin DOMAIN f => Picks(q, f)[n + 1] = Picks(q, f)[n]
  <2>1. n + 1 \in 0 .. Len(q) /\ (n + 1) - 1 = n /\ n + 1 # 0
    BY <1>1
  <2>2. Picks(q, f)[n + 1] = AfterOne(q, f, Picks(q, f), n + 1)
    BY <1>2, <2>1
  <2> QED
    BY <2>1, <2>2, Zenon DEF AfterOne
<1> QED
  BY <1>3, <1>4, Zenon DEF ArePicks

\* f gives members of S.
Into(f, S) == \A x \in DOMAIN f : f[x] \in S

\* Picks yields sequences of images.
LEMMA PicksType ==
  ASSUME NEW H, NEW q \in Seq(H), NEW S, NEW f, Into(f, S)
  PROVE  \A n \in 0 .. Len(q) : Picks(q, f)[n] \in Seq(S)
<1> DEFINE P == Picks(q, f)
           T == {n \in 0 .. Len(q) : P[n] \in Seq(S)}
<1>0. Len(q) \in Nat
  OBVIOUS
<1>1. ArePicks(q, f, P)
  BY PicksAre, Zenon
<1> HIDE DEF P
<1>2. 0 \in T
  <2>1. P[0] = <<>>
    BY <1>1, Zenon DEF ArePicks
  <2>2. P[0] \in Seq(S)
    BY <2>1, EmptySeq
  <2> QED
    BY <1>0, <2>2
<1>3. ASSUME NEW n \in 0 .. Len(q) - 1, n \in T PROVE n + 1 \in T
  <2>1. n + 1 \in 0 .. Len(q) /\ P[n] \in Seq(S)
    BY <1>0, <1>3
  <2>2. CASE q[n + 1] \in DOMAIN f
    <3>1. f[q[n + 1]] \in S
      BY <2>2 DEF Into
    <3>2. Append(P[n], f[q[n + 1]]) \in Seq(S)
      BY <2>1, <3>1, AppendProperties
    <3>3. P[n + 1] = Append(P[n], f[q[n + 1]])
      BY <1>1, <2>2 DEF ArePicks
    <3> QED
      BY <2>1, <3>2, <3>3
  <2>3. CASE q[n + 1] \notin DOMAIN f
    BY <1>1, <2>1, <2>3 DEF ArePicks
  <2> QED
    BY <2>2, <2>3
<1> HIDE DEF T
<1>4. 0 .. Len(q) \subseteq T
  BY <1>0, <1>2, <1>3, Induction
<1> QED
  BY <1>4 DEF T, P

LEMMA PickedType ==
  ASSUME NEW H, NEW q \in Seq(H), NEW S, NEW f, Into(f, S)
  PROVE  Picked(q, f) \in Seq(S)
<1>1. Len(q) \in 0 .. Len(q)
  OBVIOUS
<1> QED
  BY <1>1, PicksType DEF Picked

\* What is picked from one queue behind another.
LEMMA PickedJoin ==
  ASSUME NEW H, NEW q \in Seq(H), NEW r \in Seq(H), NEW S, NEW f, Into(f, S)
  PROVE  Picked(q \o r, f) = Picked(q, f) \o Picked(r, f)
<1> DEFINE j == q \o r
           P == Picks(q, f)
           R == Picks(r, f)
           J == Picks(j, f)
<1>1. /\ j \in Seq(H) /\ Len(j) = Len(q) + Len(r) /\ Len(q) \in Nat /\ Len(r) \in Nat
      /\ \A i \in 1 .. Len(q) : j[i] = q[i]
      /\ \A i \in 1 .. Len(r) : j[Len(q) + i] = r[i]
  OBVIOUS
<1> HIDE DEF j
<1>2. ArePicks(q, f, P)
  BY PicksAre, Zenon
<1>3. ArePicks(r, f, R)
  BY PicksAre, Zenon
<1>4. ArePicks(j, f, J)
  BY <1>1, PicksAre, Zenon
<1>5. /\ \A n \in 0 .. Len(q) : P[n] \in Seq(S)
      /\ \A n \in 0 .. Len(r) : R[n] \in Seq(S)
  BY PicksType
<1> HIDE DEF P, R, J
<1>6. \A n \in 0 .. Len(q) : J[n] = P[n]
  <2> DEFINE T == {n \in 0 .. Len(q) : J[n] = P[n]}
  <2>1. 0 \in T
    BY <1>1, <1>2, <1>4 DEF ArePicks
  <2>2. ASSUME NEW n \in 0 .. Len(q) - 1, n \in T PROVE n + 1 \in T
    <3>1. n + 1 \in 1 .. Len(q) /\ n \in 0 .. Len(j) - 1 /\ n + 1 \in 0 .. Len(q)
      BY <1>1
    <3>2. j[n + 1] = q[n + 1] /\ J[n] = P[n]
      BY <1>1, <2>2, <3>1
    <3>3. J[n + 1] = P[n + 1]
      BY <1>2, <1>4, <3>1, <3>2 DEF ArePicks
    <3> QED
      BY <3>1, <3>3
  <2> HIDE DEF T
  <2>3. 0 .. Len(q) \subseteq T
    BY <1>1, <2>1, <2>2, Induction
  <2> QED
    BY <2>3 DEF T
<1> DEFINE p == P[Len(q)]
<1>7. p \in Seq(S) /\ J[Len(q)] = p
  <2>1. Len(q) \in 0 .. Len(q)
    BY <1>1
  <2> QED
    BY <1>5, <1>6, <2>1
<1> HIDE DEF p
<1>8. \A n \in 0 .. Len(r) : J[Len(q) + n] = p \o R[n]
  <2> DEFINE T == {n \in 0 .. Len(r) : J[Len(q) + n] = p \o R[n]}
  <2>1. 0 \in T
    <3>1. Len(q) + 0 = Len(q) /\ p \o <<>> = p
      BY <1>1, <1>7
    <3> QED
      BY <1>1, <1>3, <1>7, <3>1 DEF ArePicks
  <2>2. ASSUME NEW n \in 0 .. Len(r) - 1, n \in T PROVE n + 1 \in T
    <3>1. /\ n + 1 \in 1 .. Len(r) /\ n + 1 \in 0 .. Len(r) /\ n \in 0 .. Len(r)
          /\ Len(q) + n \in 0 .. Len(j) - 1
          /\ Len(q) + (n + 1) = (Len(q) + n) + 1
      BY <1>1
    <3>2. j[Len(q) + (n + 1)] = r[n + 1] /\ J[Len(q) + n] = p \o R[n] /\ R[n] \in Seq(S)
      BY <1>1, <1>5, <2>2, <3>1
    <3>3. J[Len(q) + (n + 1)] = p \o R[n + 1]
      <4>1. CASE r[n + 1] \in DOMAIN f
        <5>1. f[r[n + 1]] \in S
          BY <4>1 DEF Into
        <5>2. J[Len(q) + (n + 1)] = Append(p \o R[n], f[r[n + 1]])
          BY <1>4, <3>1, <3>2, <4>1 DEF ArePicks
        <5>3. R[n + 1] = Append(R[n], f[r[n + 1]])
          BY <1>3, <4>1 DEF ArePicks
        <5>4. Append(p \o R[n], f[r[n + 1]]) = p \o Append(R[n], f[r[n + 1]])
          <6> DEFINE t == R[n]
                     e == f[r[n + 1]]
          <6>1. p \in Seq(S) /\ t \in Seq(S) /\ e \in S
            BY <1>7, <3>2, <5>1
          <6> HIDE DEF t, e
          <6>2. p \o t \in Seq(S) /\ <<e>> \in Seq(S)
            BY <6>1
          <6>3. Append(p \o t, e) = (p \o t) \o <<e>> /\ Append(t, e) = t \o <<e>>
            BY <6>1, <6>2, AppendIsConcat
          <6>4. (p \o t) \o <<e>> = p \o (t \o <<e>>)
            BY <6>1, <6>2, ConcatAssociative
          <6>5. Append(p \o t, e) = p \o Append(t, e)
            BY <6>3, <6>4
          <6> QED
            BY <6>5 DEF t, e
        <5> QED
          BY <5>2, <5>3, <5>4
      <4>2. CASE r[n + 1] \notin DOMAIN f
        BY <1>3, <1>4, <3>1, <3>2, <4>2 DEF ArePicks
      <4> QED
        BY <4>1, <4>2
    <3> QED
      BY <3>1, <3>3
  <2> HIDE DEF T
  <2>3. 0 .. Len(r) \subseteq T
    BY <1>1, <2>1, <2>2, Induction
  <2> QED
    BY <2>3 DEF T
<1>9. J[Len(j)] = p \o R[Len(r)]
  BY <1>1, <1>8
<1> QED
  BY <1>9 DEF Picked, j, J, P, R, p

LEMMA PickedBehind ==
  \A H, S, q, r, f : q \in Seq(H) /\ r \in Seq(H) /\ Into(f, S)
                      => Picked(q \o r, f) = Picked(q, f) \o Picked(r, f)
BY PickedJoin

\* Nothing is picked from an empty queue.
LEMMA PickedEmpty == \A f : Picked(<<>>, f) = <<>>
<1>1. ASSUME NEW f PROVE Picked(<<>>, f) = <<>>
  <2>1. <<>> \in Seq({}) /\ Len(<<>>) = 0
    OBVIOUS
  <2>2. ArePicks(<<>>, f, Picks(<<>>, f))
    BY <2>1, PicksAre, Zenon
  <2>3. Picks(<<>>, f)[0] = <<>>
    BY <2>2, Zenon DEF ArePicks
  <2> QED
    BY <2>1, <2>3, Zenon DEF Picked
<1> QED
  BY <1>1

\* One handler.
LEMMA PickedOne ==
  ASSUME NEW H, NEW h \in H, NEW S, NEW f, Into(f, S)
  PROVE  Picked(<<h>>, f) = IF h \in DOMAIN f THEN <<f[h]>> ELSE <<>>
<1> DEFINE q == <<h>>
<1>1. q \in Seq(H) /\ Len(q) = 1 /\ q[1] = h
  OBVIOUS
<1> HIDE DEF q
<1>2. ArePicks(q, f, Picks(q, f))
  BY <1>1, PicksAre, Zenon
<1>3. 0 \in 0 .. Len(q) - 1 /\ 0 + 1 = 1
  BY <1>1
<1>4. /\ h \in DOMAIN f => Picks(q, f)[1] = Append(<<>>, f[h])
      /\ h \notin DOMAIN f => Picks(q, f)[1] = <<>>
  BY <1>1, <1>2, <1>3 DEF ArePicks
<1>5. Append(<<>>, f[h]) = <<f[h]>>
  OBVIOUS
<1> QED
  BY <1>1, <1>4, <1>5 DEF Picked, q

\* A handler is appended.
LEMMA PickedAppend ==
  ASSUME NEW H, NEW q \in Seq(H), NEW h \in H, NEW S, NEW f, Into(f, S)
  PROVE  Picked(Append(q, h), f) = IF h \in DOMAIN f THEN Append(Picked(q, f), f[h]) ELSE Picked(q, f)
<1>1. Append(q, h) = q \o <<h>> /\ <<h>> \in Seq(H)
  OBVIOUS
<1>2. Picked(q \o <<h>>, f) = Picked(q, f) \o Picked(<<h>>, f)
  <2> DEFINE r == <<h>>
  <2>1. r \in Seq(H)
    BY <1>1
  <2> HIDE DEF r
  <2>2. Picked(q \o r, f) = Picked(q, f) \o Picked(r, f)
    BY <2>1, PickedBehind
  <2> QED
    BY <2>2 DEF r
<1>3. Picked(q, f) \in Seq(S)
  BY PickedType
<1>4. Picked(<<h>>, f) = IF h \in DOMAIN f THEN <<f[h]>> ELSE <<>>
  BY PickedOne
<1>5. CASE h \in DOMAIN f
  <2>1. f[h] \in S /\ Picked(Append(q, h), f) = Picked(q, f) \o <<f[h]>>
    BY <1>1, <1>2, <1>4, <1>5 DEF Into
  <2>2. Append(Picked(q, f), f[h]) = Picked(q, f) \o <<f[h]>>
    BY <1>3, <2>1, AppendIsConcat
  <2> QED
    BY <1>5, <2>1, <2>2
<1>6. CASE h \notin DOMAIN f
  <2>1. Picked(Append(q, h), f) = Picked(q, f) \o <<>>
    BY <1>1, <1>2, <1>4, <1>6
  <2> QED
    BY <1>3, <1>6, <2>1, ConcatEmptySeq
<1> QED
  BY <1>5, <1>6

\* The head of a queue is taken.
LEMMA PickedTake ==
  ASSUME NEW H, NEW q \in Seq(H), q # <<>>, NEW S, NEW f, Into(f, S)
  PROVE  /\ Picked(Tail(q), f) \in Seq(S)
         /\ Picked(q, f) = IF Head(q) \in DOMAIN f THEN <<f[Head(q)]>> \o Picked(Tail(q), f)
                           ELSE Picked(Tail(q), f)
<1>1. q = <<Head(q)>> \o Tail(q) /\ <<Head(q)>> \in Seq(H) /\ Tail(q) \in Seq(H) /\ Head(q) \in H
  OBVIOUS
<1>2. Picked(<<Head(q)>> \o Tail(q), f) = Picked(<<Head(q)>>, f) \o Picked(Tail(q), f)
  <2> DEFINE r == <<Head(q)>>
             t == Tail(q)
  <2>1. r \in Seq(H) /\ t \in Seq(H)
    BY <1>1
  <2> HIDE DEF r, t
  <2>2. Picked(r \o t, f) = Picked(r, f) \o Picked(t, f)
    BY <2>1, PickedBehind
  <2> QED
    BY <2>2 DEF r, t
<1>3. Picked(Tail(q), f) \in Seq(S)
  BY <1>1, PickedType
<1>4. Picked(<<Head(q)>>, f) = IF Head(q) \in DOMAIN f THEN <<f[Head(q)]>> ELSE <<>>
  BY <1>1, PickedOne
<1>5. Picked(q, f) = IF Head(q) \in DOMAIN f THEN <<f[Head(q)]>> \o Picked(Tail(q), f)
                     ELSE Picked(Tail(q), f)
  <2>1. <<>> \o Picked(Tail(q), f) = Picked(Tail(q), f)
    BY <1>3, ConcatEmptySeq
  <2> QED
    BY <1>1, <1>2, <1>4, <2>1
<1> QED
  BY <1>3, <1>5

\* Handlers of other kinds do not show.
LEMMA PickedNone ==
  ASSUME NEW H, NEW q \in Seq(H), NEW S, NEW f, Into(f, S),
         \A i \in 1 .. Len(q) : q[i] \notin DOMAIN f
  PROVE  Picked(q, f) = <<>>
<1> DEFINE P == Picks(q, f)
           T == {n \in 0 .. Len(q) : P[n] = <<>>}
<1>0. Len(q) \in Nat
  OBVIOUS
<1>1. ArePicks(q, f, P)
  BY PicksAre, Zenon
<1> HIDE DEF P
<1>2. 0 \in T
  BY <1>0, <1>1 DEF ArePicks
<1>3. ASSUME NEW n \in 0 .. Len(q) - 1, n \in T PROVE n + 1 \in T
  <2>1. n + 1 \in 1 .. Len(q) /\ n + 1 \in 0 .. Len(q) /\ P[n] = <<>>
    BY <1>0, <1>3
  <2> QED
    BY <1>1, <2>1 DEF ArePicks
<1> HIDE DEF T
<1>4. 0 .. Len(q) \subseteq T
  BY <1>0, <1>2, <1>3, Induction
<1>5. Len(q) \in T
  BY <1>0, <1>4
<1> QED
  BY <1>5 DEF T, P, Picked
=============================================================================
