------------------------- MODULE MessagePipeProofs -------------------------
(***************************************************************************)
(* What follows from the promise of MessagePipe, for any number of         *)
(* messages and connections.                                               *)
(***************************************************************************)
EXTENDS MessagePipe, TLAPS

Types ==
    /\ sent \in [Ends -> Nat]
    /\ queue \in [Ends -> Seq(Nat)]
    /\ delivered \in [Ends -> Seq(Nat)]

\* The order of sending, over what is handled and what is under way.
Ordered(d, q, n) ==
    /\ Increasing(d) /\ Increasing(q)
    /\ \A i \in 1 .. Len(d), j \in 1 .. Len(q) : d[i] < q[j]
    /\ \A i \in 1 .. Len(d) : d[i] =< n
    /\ \A j \in 1 .. Len(q) : q[j] =< n

PipeInv == Types /\ \A e \in Ends : Ordered(delivered[e], queue[e], sent[e])

LEMMA OrderedAppend ==
  ASSUME NEW d \in Seq(Nat), NEW q \in Seq(Nat), NEW n \in Nat, Ordered(d, q, n)
  PROVE  Ordered(d, Append(q, n + 1), n + 1)
  <1> DEFINE q1 == Append(q, n + 1)
  <1>1. /\ q1 \in Seq(Nat) /\ Len(q1) = Len(q) + 1
        /\ \A j \in 1 .. Len(q) : q1[j] = q[j]
        /\ q1[Len(q) + 1] = n + 1
    OBVIOUS
  <1> HIDE DEF q1
  <1>a. \A j \in 1 .. Len(q) : q[j] \in Nat /\ q[j] =< n
    BY DEF Ordered
  <1>2. \A j \in 1 .. Len(q1) : q1[j] =< n + 1 /\ (j = Len(q) + 1 \/ j \in 1 .. Len(q))
    <2>1. SUFFICES ASSUME NEW j \in 1 .. Len(q1)
                   PROVE  q1[j] =< n + 1 /\ (j = Len(q) + 1 \/ j \in 1 .. Len(q))
      OBVIOUS
    <2>2. j = Len(q) + 1 \/ j \in 1 .. Len(q)
      BY <1>1
    <2>3. CASE j = Len(q) + 1
      BY <1>1, <2>3
    <2>4. CASE j \in 1 .. Len(q)
      <3>1. q1[j] = q[j] /\ q[j] \in Nat /\ q[j] =< n
        BY <1>1, <1>a, <2>4
      <3>2. QED  BY <2>4, <3>1
    <2>5. QED  BY <2>2, <2>3, <2>4
  <1>3. Increasing(q1)
    <2>1. SUFFICES ASSUME NEW i \in 1 .. Len(q1), NEW j \in 1 .. Len(q1), i < j
                   PROVE  q1[i] < q1[j]
      BY DEF Increasing
    <2>a. i \in 1 .. Len(q)
      BY <1>1, <2>1
    <2>2. i \in 1 .. Len(q) /\ q1[i] = q[i] /\ q[i] =< n /\ q[i] \in Nat
      BY <1>1, <1>a, <2>a
    <2>3. CASE j = Len(q) + 1
      BY <1>1, <2>2, <2>3
    <2>4. CASE j \in 1 .. Len(q)
      BY <1>1, <2>1, <2>2, <2>4 DEF Ordered, Increasing
    <2>5. QED  BY <1>2, <2>3, <2>4
  <1>4. \A i \in 1 .. Len(d), j \in 1 .. Len(q1) : d[i] < q1[j]
    <2>1. SUFFICES ASSUME NEW i \in 1 .. Len(d), NEW j \in 1 .. Len(q1) PROVE d[i] < q1[j]
      OBVIOUS
    <2>2. CASE j = Len(q) + 1
      BY <1>1, <2>2 DEF Ordered
    <2>3. CASE j \in 1 .. Len(q)
      BY <1>1, <2>3 DEF Ordered
    <2>4. QED  BY <1>2, <2>2, <2>3
  <1>5. \A i \in 1 .. Len(d) : d[i] =< n + 1
    BY DEF Ordered
  <1>6. QED  BY <1>2, <1>3, <1>4, <1>5 DEF Ordered, q1

LEMMA OrderedDeliver ==
  ASSUME NEW d \in Seq(Nat), NEW q \in Seq(Nat), NEW n \in Nat, Ordered(d, q, n), q # <<>>
  PROVE  Ordered(Append(d, Head(q)), Tail(q), n)
  <1> DEFINE d1 == Append(d, Head(q))
             q1 == Tail(q)
  <1>1. /\ Len(q) > 0 /\ Len(q1) = Len(q) - 1
        /\ \A j \in 1 .. Len(q1) : q1[j] = q[j + 1] /\ j + 1 \in 1 .. Len(q)
    OBVIOUS
  <1>2. /\ Len(d1) = Len(d) + 1 /\ d1[Len(d) + 1] = q[1]
        /\ \A i \in 1 .. Len(d) : d1[i] = d[i]
    OBVIOUS
  <1> HIDE DEF d1, q1
  <1>3. \A i \in 1 .. Len(d1) : i \in 1 .. Len(d) \/ i = Len(d) + 1
    BY <1>2
  <1>a. /\ \A j \in 1 .. Len(q) : q[j] \in Nat /\ q[j] =< n
        /\ \A i, j \in 1 .. Len(q) : i < j => q[i] < q[j]
    BY DEF Ordered, Increasing
  <1>b. \A i \in 1 .. Len(d) : d[i] \in Nat /\ d[i] =< n
    BY DEF Ordered
  <1>4. Increasing(q1)
    <2>1. SUFFICES ASSUME NEW i \in 1 .. Len(q1), NEW j \in 1 .. Len(q1), i < j
                   PROVE  q1[i] < q1[j]
      BY DEF Increasing
    <2>2. i + 1 \in 1 .. Len(q) /\ j + 1 \in 1 .. Len(q) /\ i + 1 < j + 1
      BY <1>1, <2>1
    <2>3. QED  BY <1>1, <1>a, <2>2
  <1>5. Increasing(d1)
    <2>1. SUFFICES ASSUME NEW i \in 1 .. Len(d1), NEW j \in 1 .. Len(d1), i < j
                   PROVE  d1[i] < d1[j]
      BY DEF Increasing
    <2>2. i \in 1 .. Len(d) /\ d1[i] = d[i]
      BY <1>2, <2>1
    <2>3. CASE j = Len(d) + 1
      BY <1>1, <1>2, <2>2, <2>3 DEF Ordered
    <2>4. CASE j \in 1 .. Len(d)
      BY <1>2, <2>1, <2>2, <2>4 DEF Ordered, Increasing
    <2>5. QED  BY <1>3, <2>3, <2>4
  <1>6. \A i \in 1 .. Len(d1), j \in 1 .. Len(q1) : d1[i] < q1[j]
    <2>1. SUFFICES ASSUME NEW i \in 1 .. Len(d1), NEW j \in 1 .. Len(q1) PROVE d1[i] < q1[j]
      OBVIOUS
    <2>2. CASE i = Len(d) + 1
      <3>1. 1 \in 1 .. Len(q) /\ j + 1 \in 1 .. Len(q) /\ 1 < j + 1
        BY <1>1
      <3>2. QED  BY <1>1, <1>2, <1>a, <2>2, <3>1
    <2>3. CASE i \in 1 .. Len(d)
      BY <1>1, <1>2, <2>3 DEF Ordered
    <2>4. QED  BY <1>3, <2>2, <2>3
  <1>7. \A i \in 1 .. Len(d1) : d1[i] =< n
    <2>1. SUFFICES ASSUME NEW i \in 1 .. Len(d1) PROVE d1[i] =< n
      OBVIOUS
    <2>2. 1 \in 1 .. Len(q)
      BY <1>1
    <2>3. CASE i = Len(d) + 1
      BY <1>2, <1>a, <2>2, <2>3
    <2>4. CASE i \in 1 .. Len(d)
      BY <1>2, <1>b, <2>4
    <2>5. QED  BY <1>3, <2>3, <2>4
  <1>8. \A j \in 1 .. Len(q1) : q1[j] =< n
    BY <1>1 DEF Ordered
  <1>9. QED  BY <1>4, <1>5, <1>6, <1>7, <1>8 DEF Ordered, d1, q1

LEMMA OrderedLose ==
  ASSUME NEW d \in Seq(Nat), NEW q \in Seq(Nat), NEW n \in Nat, Ordered(d, q, n),
         NEW k \in 0 .. Len(q)
  PROVE  /\ SubSeq(q, k + 1, Len(q)) \in Seq(Nat)
         /\ Ordered(d, SubSeq(q, k + 1, Len(q)), n)
  <1> DEFINE q1 == SubSeq(q, k + 1, Len(q))
  <1>1. /\ q1 \in Seq(Nat) /\ Len(q1) = Len(q) - k
        /\ \A j \in 1 .. Len(q1) : q1[j] = q[j + k] /\ j + k \in 1 .. Len(q)
    OBVIOUS
  <1> HIDE DEF q1
  <1>2. Increasing(q1)
    <2>1. SUFFICES ASSUME NEW i \in 1 .. Len(q1), NEW j \in 1 .. Len(q1), i < j
                   PROVE  q1[i] < q1[j]
      BY DEF Increasing
    <2>2. i + k \in 1 .. Len(q) /\ j + k \in 1 .. Len(q) /\ i + k < j + k
      BY <1>1, <2>1
    <2>3. QED  BY <1>1, <2>2 DEF Ordered, Increasing
  <1>3. \A i \in 1 .. Len(d), j \in 1 .. Len(q1) : d[i] < q1[j]
    BY <1>1 DEF Ordered
  <1>4. \A j \in 1 .. Len(q1) : q1[j] =< n
    BY <1>1 DEF Ordered
  <1>5. QED  BY <1>1, <1>2, <1>3, <1>4 DEF Ordered, q1

LEMMA PipeInit == Init => PipeInv
  BY DEF Init, PipeInv, Types, Ordered, Increasing

LEMMA PipeStep == PipeInv /\ [Next]_pipeVars => PipeInv'
  <1>1. SUFFICES ASSUME PipeInv, [Next]_pipeVars PROVE PipeInv'
    OBVIOUS
  <1> USE <1>1
  <1>2. CASE UNCHANGED pipeVars
    BY <1>2 DEF pipeVars, PipeInv, Types
  <1>3. ASSUME NEW e \in Ends, Attach(e) PROVE PipeInv'
    BY <1>3 DEF Attach, PipeInv, Types
  <1>4. ASSUME NEW e \in Ends, Send(e) PROVE PipeInv'
    <2>1. Types'
      BY <1>4 DEF Send, PipeInv, Types
    <2>2. Ordered(delivered[e], Append(queue[e], sent[e] + 1), sent[e] + 1)
      BY OrderedAppend DEF PipeInv, Types
    <2>3. ASSUME NEW f \in Ends PROVE Ordered(delivered'[f], queue'[f], sent'[f])
      <3>1. CASE f = e
        BY <1>4, <2>2, <3>1 DEF Send, PipeInv, Types
      <3>2. CASE f # e
        BY <1>4, <3>2 DEF Send, PipeInv, Types
      <3>3. QED  BY <3>1, <3>2
    <2>4. QED  BY <2>1, <2>3 DEF PipeInv
  <1>5. ASSUME NEW e \in Ends, Deliver(e) PROVE PipeInv'
    <2>1. Head(queue[e]) \in Nat /\ Tail(queue[e]) \in Seq(Nat)
      BY <1>5 DEF Deliver, PipeInv, Types
    <2>2. Types'
      BY <1>5, <2>1 DEF Deliver, PipeInv, Types
    <2>3. Ordered(Append(delivered[e], Head(queue[e])), Tail(queue[e]), sent[e])
      BY <1>5, OrderedDeliver DEF Deliver, PipeInv, Types
    <2>4. ASSUME NEW f \in Ends PROVE Ordered(delivered'[f], queue'[f], sent'[f])
      <3>1. CASE f = e
        BY <1>5, <2>3, <3>1 DEF Deliver, PipeInv, Types
      <3>2. CASE f # e
        BY <1>5, <3>2 DEF Deliver, PipeInv, Types
      <3>3. QED  BY <3>1, <3>2
    <2>5. QED  BY <2>2, <2>4 DEF PipeInv
  <1>6. ASSUME NEW r \in Ends, Detach(r) PROVE PipeInv'
    <2> DEFINE e == Peer(r)
    <2>1. e \in Ends
      BY DEF Peer, Ends
    <2> HIDE DEF e
    <2>2. PICK k \in 0 .. Len(queue[e]) :
            queue' = [queue EXCEPT ![e] = SubSeq(queue[e], k + 1, Len(queue[e]))]
      BY <1>6 DEF Detach, e
    <2>3. /\ SubSeq(queue[e], k + 1, Len(queue[e])) \in Seq(Nat)
          /\ Ordered(delivered[e], SubSeq(queue[e], k + 1, Len(queue[e])), sent[e])
      BY <2>1, OrderedLose DEF PipeInv, Types
    <2>4. UNCHANGED <<sent, delivered>>
      BY <1>6 DEF Detach
    <2>5. Types'
      BY <2>1, <2>2, <2>3, <2>4 DEF PipeInv, Types
    <2>6. ASSUME NEW f \in Ends PROVE Ordered(delivered'[f], queue'[f], sent'[f])
      <3>1. CASE f = e
        BY <2>1, <2>2, <2>3, <2>4, <3>1 DEF PipeInv, Types
      <3>2. CASE f # e
        BY <2>1, <2>2, <2>4, <3>2 DEF PipeInv, Types
      <3>3. QED  BY <3>1, <3>2
    <2>7. QED  BY <2>5, <2>6 DEF PipeInv
  <1>7. QED  BY <1>2, <1>3, <1>4, <1>5, <1>6 DEF Next

\* Whatever is lost with a connection, no message of the daemon or the session is
\* handled twice or before one sent earlier.
THEOREM PipeInOrder == Safety => []InOrder
  <1>1. Init => PipeInv
    BY PipeInit
  <1>2. PipeInv /\ [Next]_pipeVars => PipeInv'
    BY PipeStep
  <1>3. PipeInv => InOrder
    BY DEF PipeInv, Ordered, InOrder
  <1>4. QED  BY <1>1, <1>2, <1>3, PTL DEF Safety
=============================================================================
