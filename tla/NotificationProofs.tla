------------------------- MODULE NotificationProofs -------------------------
(***************************************************************************)
(* The ZMQ subscriber implements the link Game relies on, for every number *)
(* of topics and sockets, every modulus of the sequence numbers and every  *)
(* bound: the theorem SubscriberImplementsLink.  The comparison of two     *)
(* numbers modulo SeqModulus tells a gap only because gaps are shorter     *)
(* than the modulus, so the invariant has to follow the gaps through the   *)
(* unread messages: they form, per topic, a chain from the last message    *)
(* read to the last one queued, with steps of at most MaxGap + 1.          *)
(***************************************************************************)
EXTENDS ZmqSubscriber, StateWaiters, Integers, TLAPS

(* The messages of topic t in the queue q lead from number p, read last,   *)
(* to number e: in order, and with at most MaxGap missing before each.     *)
Chain(q, t, p, e) ==
    /\ \A i \in 1 .. Len(q) : q[i].topic = t =>
          /\ p < q[i].number /\ q[i].number <= e
          /\ \A j \in 1 .. i - 1 : q[j].topic = t => q[j].number < q[i].number
          /\ \/ q[i].number <= p + MaxGap + 1
             \/ \E j \in 1 .. i - 1 : /\ q[j].topic = t
                                      /\ q[i].number <= q[j].number + MaxGap + 1
    /\ p = e \/ \E i \in 1 .. Len(q) : q[i].topic = t /\ q[i].number = e

(* While connected, what is unread leads to the last message not lost. *)
ChainInv ==
    IsRunning => \A t \in Topics :
        Chain(sockets[SocketOf[t]], t, position[t], published[t] - gap[t])

(* A topic's messages are on its socket; a socket is closed without worker, *)
(* and has a message when the worker is about to read from it.              *)
SocketInv ==
    /\ \A s \in Sockets : \A i \in 1 .. Len(sockets[s]) :
          SocketOf[sockets[s][i].topic] = s
    /\ ~IsRunning => \A s \in Sockets : sockets[s] = <<>>
    /\ worker = "reading" => ready \in Sockets /\ sockets[ready] # <<>>

SeqInv ==
    \A t \in Topics : /\ position[t] <= published[t]
                      /\ lastSeq[t] # NoSeq => lastSeq[t] = SeqOf(position[t])

LinkInv == TypeOK /\ ChainInv /\ SocketInv /\ SeqInv

-----------------------------------------------------------------------------
(* Sequence numbers: quotient and remainder. *)
LEMMA DivMod ==
    ASSUME NEW m \in Nat \ {0}, NEW n \in Nat
    PROVE  /\ n % m \in 0 .. m - 1
           /\ \E q \in Int : n = m * q + (n % m)
<1>1. n \div m \in Int /\ n % m \in 0 .. m - 1 /\ n = m * (n \div m) + (n % m)
  OBVIOUS
<1>2. QED
  BY <1>1, Zenon

(* The only multiple of m between -m and m is 0. *)
LEMMA SmallMultiple ==
    ASSUME NEW m \in Nat \ {0}, NEW k \in Int, m * k < m, m * k > -m
    PROVE  k = 0
  OBVIOUS

(* The remainder is the only number below m at a multiple's distance. *)
LEMMA ModUnique ==
    ASSUME NEW m \in Nat \ {0}, NEW n \in Nat, NEW q \in Int,
           NEW r \in 0 .. m - 1, n = m * q + r
    PROVE  n % m = r
<1>1. PICK k \in Int : n = m * k + (n % m)
  BY DivMod
<1>2. n % m \in 0 .. m - 1
  BY DivMod
<1>3. m * (q - k) = (n % m) - r
  BY <1>1, <1>2
<1>4. q - k = 0
  BY <1>2, <1>3, SmallMultiple
<1>5. QED
  BY <1>2, <1>3, <1>4

(* Of the numbers up to m after p, only the next one has the sequence      *)
(* number that is expected after that of p, also when it wraps around.     *)
LEMMA SeqNext ==
    ASSUME NEW m \in Nat \ {0}, NEW p \in Nat, NEW n \in Nat, n > p, n - p <= m
    PROVE  n % m = ((p % m) + 1) % m <=> n = p + 1
<1>1. PICK k \in Int : p = m * k + (p % m)
  BY DivMod
<1>2. PICK l \in Int : n = m * l + (n % m)
  BY DivMod
<1>3. p % m \in 0 .. m - 1 /\ n % m \in 0 .. m - 1
  BY DivMod
<1>4. CASE (p % m) + 1 < m
  <2>1. (p % m) + 1 = m * 0 + ((p % m) + 1) /\ (p % m) + 1 \in 0 .. m - 1
    BY <1>3, <1>4
  <2>2. ((p % m) + 1) % m = (p % m) + 1
    BY <2>1, ModUnique
  <2>3. ASSUME n = p + 1 PROVE n % m = (p % m) + 1
    <3>1. n = m * k + ((p % m) + 1)
      BY <1>1, <1>3, <2>3
    <3>2. QED
      BY <2>1, <3>1, ModUnique
  <2>4. ASSUME n % m = (p % m) + 1 PROVE n = p + 1
    <3>1. m * (l - k) = n - p - 1
      BY <1>1, <1>2, <1>3, <2>4
    <3>2. l - k = 0
      BY <3>1, SmallMultiple
    <3>3. QED
      BY <3>1, <3>2
  <2>5. QED
    BY <2>2, <2>3, <2>4
<1>5. CASE (p % m) + 1 = m
  <2>1. ((p % m) + 1) % m = 0
    BY <1>5, ModUnique, m = m * 1 + 0
  <2>2. p + 1 = m * (k + 1) + 0 /\ 0 \in 0 .. m - 1
    BY <1>1, <1>3, <1>5
  <2>3. ASSUME n = p + 1 PROVE n % m = 0
    <3>1. n = m * (k + 1) + 0 /\ k + 1 \in Int
      BY <2>2, <2>3
    <3>2. QED
      BY <2>2, <3>1, ModUnique
  <2>4. ASSUME n % m = 0 PROVE n = p + 1
    <3>1. m * (l - k - 1) = n - p - 1
      BY <1>1, <1>2, <1>3, <2>2, <2>4
    <3>2. l - k - 1 = 0
      BY <3>1, SmallMultiple
    <3>3. QED
      BY <3>1, <3>2
  <2>5. QED
    BY <2>1, <2>3, <2>4
<1>6. QED
  BY <1>3, <1>4, <1>5

-----------------------------------------------------------------------------
(* What is in a queue of messages. *)
LEMMA QueueElements ==
    ASSUME NEW q \in Seq(Message)
    PROVE  /\ Len(q) \in Nat
           /\ \A i \in 1 .. Len(q) :
                 q[i] \in Message /\ q[i].topic \in Topics /\ q[i].number \in Nat
<1>1. Len(q) \in Nat /\ \A i \in 1 .. Len(q) : q[i] \in Message
  OBVIOUS
<1>2. \A m \in Message : m.topic \in Topics /\ m.number \in Nat
  BY DEF Message
<1>3. QED
  BY <1>1, <1>2

(* The types, per topic. *)
LEMMA TopicTypes ==
    ASSUME TypeOK, NEW t \in Topics
    PROVE  /\ published[t] \in Nat /\ gap[t] \in Nat /\ gap[t] <= MaxGap
           /\ position[t] \in Nat /\ lastSeq[t] \in 0 .. SeqModulus
           /\ SocketOf[t] \in Sockets /\ sockets[SocketOf[t]] \in Seq(Message)
<1>1. SocketOf[t] \in Sockets
  BY ZmqAssumption DEF Sockets
<1>2. gap[t] \in 0 .. MaxGap
  BY DEF TypeOK
<1>3. published[t] \in Nat /\ position[t] \in Nat /\ lastSeq[t] \in 0 .. SeqModulus
  BY DEF TypeOK
<1>4. sockets[SocketOf[t]] \in Seq(Message)
  BY <1>1 DEF TypeOK
<1>5. QED
  BY <1>1, <1>2, <1>3, <1>4, ZmqAssumption

(* A new message of the topic continues the chain. *)
LEMMA ChainAppend ==
    ASSUME NEW q \in Seq(Message), NEW t \in Topics, NEW p \in Nat, NEW e \in Nat,
           NEW n \in Nat, Chain(q, t, p, e), p <= e, e < n, n <= e + MaxGap + 1
    PROVE  Chain(Append(q, [topic |-> t, number |-> n]), t, p, n)
<1> DEFINE msg == [topic |-> t, number |-> n]
           new == Append(q, msg)
<1> USE ZmqAssumption
<1>1. /\ Len(q) \in Nat /\ Len(new) = Len(q) + 1
      /\ \A i \in 1 .. Len(q) : new[i] = q[i] /\ q[i].number \in Nat
      /\ new[Len(q) + 1] = msg /\ msg.topic = t /\ msg.number = n
  BY QueueElements
<1>2. HIDE DEF new, msg
<1>3. ASSUME NEW i \in 1 .. Len(new), new[i].topic = t
      PROVE  /\ p < new[i].number /\ new[i].number <= n
             /\ \A j \in 1 .. i - 1 :
                   new[j].topic = t => new[j].number < new[i].number
             /\ \/ new[i].number <= p + MaxGap + 1
                \/ \E j \in 1 .. i - 1 :
                      /\ new[j].topic = t
                      /\ new[i].number <= new[j].number + MaxGap + 1
  <2>1. CASE i \in 1 .. Len(q)
    <3>1. /\ q[i].topic = t /\ new[i] = q[i] /\ q[i].number \in Nat
          /\ \A j \in 1 .. i - 1 : new[j] = q[j] /\ j \in 1 .. Len(q)
      <4>1. \A j \in 1 .. i - 1 : j \in 1 .. Len(q)
        BY <1>1, <2>1
      <4>2. q[i].topic = t /\ new[i] = q[i] /\ q[i].number \in Nat
        BY <1>1, <1>3, <2>1
      <4>3. QED
        BY <1>1, <4>1, <4>2
    <3>2. p < new[i].number /\ new[i].number <= n
      BY <2>1, <3>1, SMTT(30) DEF Chain
    <3>3. \A j \in 1 .. i - 1 : new[j].topic = t => new[j].number < new[i].number
      BY <2>1, <3>1 DEF Chain
    <3>4. \/ q[i].number <= p + MaxGap + 1
          \/ \E j \in 1 .. i - 1 :
                q[j].topic = t /\ q[i].number <= q[j].number + MaxGap + 1
      BY <2>1, <3>1 DEF Chain
    <3>5. QED
      BY <3>1, <3>2, <3>3, <3>4
  <2>2. CASE i = Len(q) + 1
    <3>1. \A j \in 1 .. i - 1 : new[j].topic = t => new[j].number <= e
      BY <1>1, <2>2 DEF Chain
    <3>2. \/ new[i].number <= p + MaxGap + 1
          \/ \E j \in 1 .. i - 1 :
                new[j].topic = t /\ new[i].number <= new[j].number + MaxGap + 1
      <4>1. CASE p = e
        BY <1>1, <2>2, <4>1
      <4>2. ASSUME NEW j \in 1 .. Len(q), q[j].topic = t, q[j].number = e
            PROVE  /\ j \in 1 .. i - 1 /\ new[j].topic = t
                   /\ new[i].number <= new[j].number + MaxGap + 1
        BY <1>1, <2>2, <4>2, SMTT(30)
      <4>3. QED
        BY <4>1, <4>2 DEF Chain
    <3>3. QED
      BY <1>1, <2>2, <3>1, <3>2, SMTT(30)
  <2>3. QED
    BY <1>1, <2>1, <2>2
<1>4. \E i \in 1 .. Len(new) : new[i].topic = t /\ new[i].number = n
  BY <1>1, Len(q) + 1 \in 1 .. Len(new)
<1>5. Chain(new, t, p, n)
  BY <1>3, <1>4 DEF Chain
<1>6. QED
  BY <1>5 DEF new, msg

(* A message of another topic leaves it as it is. *)
LEMMA ChainAppendOther ==
    ASSUME NEW q \in Seq(Message), NEW t \in Topics, NEW p \in Nat, NEW e \in Nat,
           NEW msg \in Message, msg.topic # t, Chain(q, t, p, e)
    PROVE  Chain(Append(q, msg), t, p, e)
<1> DEFINE new == Append(q, msg)
<1>1. /\ Len(q) \in Nat /\ Len(new) = Len(q) + 1
      /\ \A i \in 1 .. Len(q) : new[i] = q[i]
      /\ new[Len(q) + 1] = msg
  OBVIOUS
<1>2. \A i \in 1 .. Len(new) : new[i].topic = t => i \in 1 .. Len(q)
  BY <1>1
<1>3. HIDE DEF new
<1>4. Chain(new, t, p, e)
  BY <1>1, <1>2, SMTT(30) DEF Chain
<1>5. QED
  BY <1>4 DEF new

(* A chain leads forward. *)
LEMMA ChainEnd ==
    ASSUME NEW q \in Seq(Message), NEW t \in Topics, NEW p \in Nat, NEW e \in Int,
           Chain(q, t, p, e)
    PROVE  p <= e
  BY QueueElements DEF Chain

(* Reading the topic's oldest message takes the chain's first step. *)
LEMMA ChainTail ==
    ASSUME NEW q \in Seq(Message), q # <<>>, NEW t \in Topics, NEW p \in Nat,
           NEW e \in Nat, q[1].topic = t, Chain(q, t, p, e)
    PROVE  /\ q[1].number \in p + 1 .. p + MaxGap + 1 /\ q[1].number <= e
           /\ Chain(Tail(q), t, q[1].number, e)
<1> DEFINE new == Tail(q)
<1> USE ZmqAssumption
<1>1. /\ Len(q) \in Nat \ {0} /\ Len(new) = Len(q) - 1
      /\ \A i \in 1 .. Len(new) : new[i] = q[i + 1]
      /\ \A i \in 1 .. Len(q) : q[i].number \in Nat
  BY QueueElements
<1>2. HIDE DEF new
<1>3. q[1].number \in p + 1 .. p + MaxGap + 1 /\ q[1].number <= e
  BY <1>1 DEF Chain
<1>4. ASSUME NEW i \in 1 .. Len(new), new[i].topic = t
      PROVE  /\ q[1].number < new[i].number /\ new[i].number <= e
             /\ \A j \in 1 .. i - 1 :
                   new[j].topic = t => new[j].number < new[i].number
             /\ \/ new[i].number <= q[1].number + MaxGap + 1
                \/ \E j \in 1 .. i - 1 :
                      /\ new[j].topic = t
                      /\ new[i].number <= new[j].number + MaxGap + 1
  <2>1. /\ i + 1 \in 1 .. Len(q) /\ new[i] = q[i + 1] /\ 1 \in 1 .. (i + 1) - 1
        /\ \A j \in 1 .. i - 1 : new[j] = q[j + 1] /\ j + 1 \in 1 .. (i + 1) - 1
    BY <1>1
  <2>2. q[1].number < new[i].number /\ new[i].number <= e
    BY <1>4, <2>1 DEF Chain
  <2>3. \A j \in 1 .. i - 1 : new[j].topic = t => new[j].number < new[i].number
    BY <1>4, <2>1 DEF Chain
  <2>4. ASSUME q[i + 1].number <= p + MaxGap + 1
        PROVE  new[i].number <= q[1].number + MaxGap + 1
    <3>1. q[i + 1].number \in Nat /\ q[1].number \in Nat /\ p < q[1].number
      <4>1. q[i + 1].number \in Nat
        BY <1>1, <2>1
      <4>2. QED
        BY <1>3, <4>1
    <3>2. new[i].number = q[i + 1].number /\ MaxGap \in Nat
      BY <2>1
    <3>3. HIDE ZmqAssumption
    <3>4. QED
      BY <2>4, <3>1, <3>2, SMTT(30)
  <2>5. ASSUME NEW j \in 1 .. (i + 1) - 1, q[j].topic = t,
               q[i + 1].number <= q[j].number + MaxGap + 1
        PROVE  \/ new[i].number <= q[1].number + MaxGap + 1
               \/ \E k \in 1 .. i - 1 :
                     /\ new[k].topic = t
                     /\ new[i].number <= new[k].number + MaxGap + 1
    <3>1. CASE j = 1
      BY <2>1, <2>5, <3>1
    <3>2. CASE j # 1
      <4>1. j - 1 \in 1 .. i - 1 /\ new[j - 1] = q[j]
        BY <1>1, <3>2
      <4>2. QED
        BY <2>1, <2>5, <4>1
    <3>3. QED
      BY <3>1, <3>2
  <2>6. \/ q[i + 1].number <= p + MaxGap + 1
        \/ \E j \in 1 .. (i + 1) - 1 :
              q[j].topic = t /\ q[i + 1].number <= q[j].number + MaxGap + 1
    BY <1>4, <2>1 DEF Chain
  <2>7. QED
    BY <1>1, <1>3, <2>1, <2>2, <2>3, <2>4, <2>5, <2>6
<1>5. q[1].number = e \/ \E i \in 1 .. Len(new) : new[i].topic = t /\ new[i].number = e
  <2>1. PICK i \in 1 .. Len(q) : q[i].topic = t /\ q[i].number = e
    BY <1>1, <1>3 DEF Chain
  <2>2. CASE i = 1
    BY <2>1, <2>2
  <2>3. CASE i # 1
    <3>1. i - 1 \in 1 .. Len(new) /\ new[i - 1] = q[i]
      BY <1>1, <2>3
    <3>2. QED
      BY <2>1, <3>1
  <2>4. QED
    BY <2>2, <2>3
<1>6. Chain(new, t, q[1].number, e)
  BY <1>4, <1>5 DEF Chain
<1>7. QED
  BY <1>3, <1>6 DEF new

(* Reading a message of another topic leaves it as it is. *)
LEMMA ChainTailOther ==
    ASSUME NEW q \in Seq(Message), q # <<>>, NEW t \in Topics, NEW p \in Nat,
           NEW e \in Nat, q[1].topic # t, Chain(q, t, p, e)
    PROVE  Chain(Tail(q), t, p, e)
<1> DEFINE new == Tail(q)
<1>1. /\ Len(q) \in Nat \ {0} /\ Len(new) = Len(q) - 1
      /\ \A i \in 1 .. Len(new) : new[i] = q[i + 1]
  OBVIOUS
<1>2. HIDE DEF new
<1>3. \A j \in 1 .. Len(q) : q[j].topic = t => /\ j - 1 \in 1 .. Len(new)
                                               /\ new[j - 1] = q[j]
  BY <1>1
<1>4. ASSUME NEW i \in 1 .. Len(new), new[i].topic = t
      PROVE  /\ p < new[i].number /\ new[i].number <= e
             /\ \A j \in 1 .. i - 1 :
                   new[j].topic = t => new[j].number < new[i].number
             /\ \/ new[i].number <= p + MaxGap + 1
                \/ \E j \in 1 .. i - 1 :
                      /\ new[j].topic = t
                      /\ new[i].number <= new[j].number + MaxGap + 1
  <2>1. /\ i + 1 \in 1 .. Len(q) /\ new[i] = q[i + 1]
        /\ \A j \in 1 .. i - 1 : new[j] = q[j + 1] /\ j + 1 \in 1 .. (i + 1) - 1
    BY <1>1
  <2>2. \A j \in 1 .. i - 1 : new[j].topic = t => new[j].number < new[i].number
    BY <1>4, <2>1 DEF Chain
  <2>3. ASSUME NEW j \in 1 .. (i + 1) - 1, q[j].topic = t,
               q[i + 1].number <= q[j].number + MaxGap + 1
        PROVE  \E k \in 1 .. i - 1 :
                     /\ new[k].topic = t
                     /\ new[i].number <= new[k].number + MaxGap + 1
    <3>1. j - 1 \in 1 .. i - 1 /\ new[j - 1] = q[j]
      BY <1>1, <1>3, <2>3
    <3>2. QED
      BY <2>1, <2>3, <3>1
  <2>4. \/ q[i + 1].number <= p + MaxGap + 1
        \/ \E j \in 1 .. (i + 1) - 1 :
              q[j].topic = t /\ q[i + 1].number <= q[j].number + MaxGap + 1
    BY <1>4, <2>1 DEF Chain
  <2>5. p < new[i].number /\ new[i].number <= e
    BY <1>4, <2>1 DEF Chain
  <2>6. QED
    BY <2>1, <2>2, <2>3, <2>4, <2>5
<1>5. p = e \/ \E i \in 1 .. Len(new) : new[i].topic = t /\ new[i].number = e
  BY <1>3 DEF Chain
<1>6. Chain(new, t, p, e)
  BY <1>4, <1>5 DEF Chain
<1>7. QED
  BY <1>6 DEF new

-----------------------------------------------------------------------------
(* LinkInv holds before the subscriber is started. *)
LEMMA InitLinkInv == Init => LinkInv
<1> SUFFICES ASSUME Init PROVE LinkInv
  OBVIOUS
<1> USE ZmqAssumption
<1>1. TypeOK
  <2>1. shouldStop \in BOOLEAN
    BY Zenon DEF Init
  <2>2. callback \in Link!Callback \cup {Link!NoCallback}
    BY Zenon DEF Init
  <2>3. QED
    BY <2>1, <2>2 DEF Init, TypeOK, NoSeq, Workers, Sockets
<1>2. ChainInv /\ SocketInv /\ SeqInv
  BY DEF Init, ChainInv, SocketInv, SeqInv, IsRunning
<1>3. QED
  BY <1>1, <1>2 DEF LinkInv

(* What the worker reads is the oldest message of its socket. *)
LEMMA ReadMessage ==
    ASSUME LinkInv, NEW s \in Sockets, Listen(s)
    PROVE  /\ sockets[s] # <<>> /\ sockets[s] \in Seq(Message)
           /\ Head(sockets[s]) = sockets[s][1] /\ Head(sockets[s]) \in Message
           /\ SocketOf[Head(sockets[s]).topic] = s
<1>1. sockets[s] # <<>> /\ sockets[s] \in Seq(Message)
  BY DEF LinkInv, SocketInv, Listen, TypeOK
<1>2. Head(sockets[s]) = sockets[s][1] /\ 1 \in 1 .. Len(sockets[s])
  BY <1>1
<1>3. Head(sockets[s]) \in Message
  BY <1>1
<1>4. QED
  BY <1>1, <1>2, <1>3 DEF LinkInv, SocketInv

(* The variables keep their types. *)
LEMMA TypeKept ==
    ASSUME LinkInv, Next
    PROVE  TypeOK'
<1> USE ZmqAssumption DEF LinkInv, TypeOK
<1>1. ASSUME NEW t \in Topics, Queue(t)
      PROVE  TypeOK'
  <2>1. [topic |-> t, number |-> published[t] + 1] \in Message
    BY DEF Message
  <2>2. sockets' \in [Sockets -> Seq(Message)]
    BY <1>1, <2>1 DEF Queue, Sockets
  <2>3. QED
    BY <1>1, <2>2, SMTT(30) DEF Queue, Publish
<1>2. ASSUME NEW t \in Topics, Lose(t)
      PROVE  TypeOK'
  BY <1>2 DEF Lose, Publish
<1>3. ASSUME NEW t \in Topics, NotConnected(t)
      PROVE  TypeOK'
  BY <1>3 DEF NotConnected, Publish
<1>4. CASE Start
  <2>1. shouldStop' \in BOOLEAN
    BY <1>4, Zenon DEF Start
  <2>2. QED
    BY <1>4, <2>1 DEF Start, Workers, NoSeq
<1>5. CASE StopRequested
  <2>1. shouldStop' \in BOOLEAN
    BY <1>5, Zenon DEF StopRequested
  <2>2. QED
    BY <1>5, <2>1 DEF StopRequested
<1>6. CASE StopJoined
  BY <1>6 DEF StopJoined, Workers
<1>7. CASE PollStop
  BY <1>7 DEF PollStop, Workers
<1>8. ASSUME NEW s \in Sockets, PollReady(s)
      PROVE  TypeOK'
  BY <1>8 DEF PollReady, Workers, Sockets
<1>9. ASSUME NEW s \in Sockets, Listen(s)
      PROVE  TypeOK'
  <2> DEFINE msg == Head(sockets[s])
  <2>1. msg.topic \in Topics /\ msg.number \in Nat /\ sockets[s] # <<>>
    BY <1>9, ReadMessage DEF Message
  <2>2. SeqOf(msg.number) \in 0 .. SeqModulus
    <3>1. SeqOf(msg.number) \in 0 .. SeqModulus - 1
      BY <2>1, DivMod DEF SeqOf
    <3>2. QED
      BY <3>1
  <2>3. lastSeq' \in [Topics -> 0 .. SeqModulus]
    BY <1>9, <2>1, <2>2 DEF Listen
  <2>4. position' \in [Topics -> Nat]
    BY <1>9, <2>1 DEF Listen
  <2>5. sockets' \in [Sockets -> Seq(Message)]
    BY <1>9, <2>1 DEF Listen
  <2>6. callback' \in Link!Callback \cup {Link!NoCallback}
    <3>1. SeqMismatch(msg.topic, SeqOf(msg.number)) \in BOOLEAN
      BY Zenon DEF SeqMismatch
    <3>2. ASSUME NEW b \in BOOLEAN, msg.topic \in Listened
          PROVE  [topic |-> msg.topic, number |-> msg.number, mismatch |-> b]
                    \in Link!Callback
      BY <2>1, <3>2 DEF Link!Callback
    <3>3. QED
      BY <1>9, <3>1, <3>2, Zenon DEF Listen
  <2>7. /\ published' \in [Topics -> Nat] /\ gap' \in [Topics -> 0 .. MaxGap]
        /\ worker' \in Workers /\ ready' \in 0 .. NumSockets
        /\ shouldStop' \in BOOLEAN /\ starts' \in 0 .. MaxStarts
    BY <1>9 DEF Listen, Workers
  <2>8. QED
    BY <2>3, <2>4, <2>5, <2>6, <2>7
<1>10. QED
  BY <1>1, <1>2, <1>3, <1>4, <1>5, <1>6, <1>7, <1>8, <1>9 DEF Next, Worker

(* Steps that leave the messages and the counters alone. *)
LEMMA ControlKeepsInv ==
    ASSUME LinkInv, TypeOK',
           StopRequested \/ PollStop \/ \E s \in Sockets : PollReady(s)
    PROVE  LinkInv'
  BY DEF LinkInv, ChainInv, SocketInv, SeqInv, StopRequested, PollStop,
         PollReady, IsRunning, TypeOK

(* Without a worker nothing is queued, and a session starts with no gap. *)
LEMMA SessionKeepsInv ==
    ASSUME LinkInv, TypeOK',
           Start \/ StopJoined \/ \E t \in Topics : NotConnected(t)
    PROVE  LinkInv'
<1> USE ZmqAssumption
<1>1. CASE Start
  <2>1. \A t \in Topics : /\ sockets'[SocketOf[t]] = <<>>
                          /\ position'[t] = published'[t] - gap'[t]
                          /\ position'[t] \in Nat
    BY <1>1 DEF Start, LinkInv, SocketInv, TypeOK, Sockets
  <2>2. ChainInv'
    BY <2>1 DEF ChainInv, Chain
  <2>3. SocketInv'
    BY <1>1 DEF Start, LinkInv, SocketInv, IsRunning
  <2>4. SeqInv'
    BY <1>1 DEF Start, LinkInv, SeqInv, TypeOK
  <2>5. QED
    BY <2>2, <2>3, <2>4 DEF LinkInv
<1>2. CASE StopJoined
  BY <1>2 DEF StopJoined, LinkInv, ChainInv, SocketInv, SeqInv, IsRunning, Sockets
<1>3. ASSUME NEW t \in Topics, NotConnected(t)
      PROVE  LinkInv'
  BY <1>3 DEF NotConnected, Publish, LinkInv, ChainInv, SocketInv, SeqInv,
              IsRunning, TypeOK
<1>4. QED
  BY <1>1, <1>2, <1>3

(* A message continues its topic's chain, or makes the gap longer. *)
LEMMA PublishKeepsInv ==
    ASSUME LinkInv, TypeOK', NEW t \in Topics, Queue(t) \/ Lose(t)
    PROVE  LinkInv'
<1> USE ZmqAssumption
<1>1. /\ IsRunning /\ IsRunning' /\ SocketOf[t] \in Sockets
      /\ published'[t] = published[t] + 1 /\ position' = position
      /\ \A u \in Topics \ {t} : published'[u] = published[u] /\ gap'[u] = gap[u]
      /\ UNCHANGED <<lastSeq, worker, ready>>
  BY DEF Queue, Lose, Publish, IsRunning, LinkInv, TypeOK, Sockets
<1>2. SeqInv'
  <2>1. \A u \in Topics : /\ published[u] \in Nat /\ position[u] \in Nat
                          /\ published'[u] >= published[u]
    <3>1. \A u \in Topics : published[u] \in Nat /\ position[u] \in Nat
      BY TopicTypes DEF LinkInv
    <3>2. QED
      BY <1>1, <3>1
  <2>2. QED
    BY <1>1, <2>1 DEF LinkInv, SeqInv
<1>3. \A u \in Topics :
         /\ sockets[SocketOf[u]] \in Seq(Message) /\ position[u] \in Nat
         /\ Chain(sockets[SocketOf[u]], u, position[u], published[u] - gap[u])
         /\ published[u] - gap[u] \in Nat /\ position[u] <= published[u] - gap[u]
  <2>1. SUFFICES ASSUME NEW u \in Topics
                 PROVE  published[u] - gap[u] >= position[u]
    BY <1>1, <2>1, TopicTypes DEF LinkInv, ChainInv
  <2>2. /\ sockets[SocketOf[u]] \in Seq(Message) /\ position[u] \in Nat
        /\ published[u] \in Nat /\ gap[u] \in Nat
        /\ Chain(sockets[SocketOf[u]], u, position[u], published[u] - gap[u])
    BY <1>1, TopicTypes DEF LinkInv, ChainInv
  <2>3. QED
    BY <2>2, ChainEnd
<1>4. CASE Lose(t)
  <2>1. sockets' = sockets /\ gap'[t] = gap[t] + 1
    BY <1>4 DEF Lose, LinkInv, TypeOK
  <2>2. \A u \in Topics : published'[u] - gap'[u] = published[u] - gap[u]
    <3>1. \A u \in Topics : published[u] \in Nat /\ gap[u] \in Nat
      BY TopicTypes DEF LinkInv
    <3>2. QED
      BY <1>1, <2>1, <3>1
  <2>3. ChainInv'
    BY <1>1, <1>3, <2>1, <2>2 DEF ChainInv
  <2>4. SocketInv'
    BY <1>1, <2>1 DEF LinkInv, SocketInv, IsRunning
  <2>5. QED
    BY <1>2, <2>3, <2>4 DEF LinkInv
<1>5. CASE Queue(t)
  <2> DEFINE s == SocketOf[t]
             n == published[t] + 1
             msg == [topic |-> t, number |-> n]
  <2>1. /\ sockets' = [sockets EXCEPT ![s] = Append(@, msg)] /\ gap'[t] = 0
        /\ published[t] \in Nat /\ gap[t] \in 0 .. MaxGap
    BY <1>5 DEF Queue, LinkInv, TypeOK
  <2>2. msg \in Message /\ msg.topic = t /\ sockets \in [Sockets -> Seq(Message)]
    <3>1. msg \in Message
      BY <2>1 DEF Message
    <3>2. QED
      BY <3>1 DEF LinkInv, TypeOK
  <2>3. /\ sockets'[s] = Append(sockets[s], msg) /\ s \in Sockets
        /\ \A r \in Sockets \ {s} : sockets'[r] = sockets[r]
    BY <1>1, <2>1, <2>2
  <2>4. Chain(sockets'[s], t, position'[t], published'[t] - gap'[t])
    <3>1. /\ n \in Nat /\ published[t] - gap[t] < n
          /\ n <= (published[t] - gap[t]) + MaxGap + 1
          /\ published'[t] - gap'[t] = n
      BY <1>1, <2>1, SMTT(30)
    <3>2. QED
      BY <1>1, <1>3, <2>3, <3>1, ChainAppend
  <2>5. ASSUME NEW u \in Topics \ {t}
        PROVE  Chain(sockets'[SocketOf[u]], u, position'[u], published'[u] - gap'[u])
    <3>1. CASE SocketOf[u] = s
      <4>1. msg.topic # u /\ Chain(sockets[s], u, position[u], published[u] - gap[u])
        BY <1>3, <2>2, <3>1
      <4>2. /\ sockets[s] \in Seq(Message) /\ position[u] \in Nat
            /\ published[u] - gap[u] \in Nat
        BY <1>3, <3>1
      <4>3. HIDE DEF s, msg
      <4>4. Chain(Append(sockets[s], msg), u, position[u], published[u] - gap[u])
        BY <2>2, <4>1, <4>2, ChainAppendOther
      <4>5. QED
        BY <1>1, <2>3, <3>1, <4>4
    <3>2. CASE SocketOf[u] # s
      BY <1>1, <1>3, <2>3, <3>2 DEF Sockets
    <3>3. QED
      BY <3>1, <3>2
  <2>6. ChainInv'
    BY <2>4, <2>5 DEF ChainInv
  <2>7. SocketInv'
    <3>1. ASSUME NEW r \in Sockets, NEW i \in 1 .. Len(sockets'[r])
          PROVE  SocketOf[sockets'[r][i].topic] = r
      <4>1. CASE r = s
        <5>1. sockets[s] \in Seq(Message)
          BY <2>2, <2>3
        <5>2. CASE i \in 1 .. Len(sockets[s])
          <6>1. sockets'[s][i] = sockets[s][i]
            BY <2>3, <5>1, <5>2
          <6>2. SocketOf[sockets[s][i].topic] = s
            BY <2>3, <5>2, Zenon DEF LinkInv, SocketInv
          <6>3. QED
            BY <4>1, <6>1, <6>2, Zenon
        <5>3. CASE i = Len(sockets[s]) + 1
          BY <2>2, <2>3, <4>1, <5>1, <5>3
        <5>4. QED
          BY <2>2, <2>3, <4>1, <5>1, <5>2, <5>3
      <4>2. CASE r # s
        BY <2>3, <3>1, <4>2 DEF LinkInv, SocketInv
      <4>3. QED
        BY <4>1, <4>2
    <3>2. worker' = "reading" => ready' \in Sockets /\ sockets'[ready'] # <<>>
      <4>1. \A r \in Sockets : sockets[r] # <<>> => sockets'[r] # <<>>
        BY <2>2, <2>3
      <4>2. QED
        BY <1>1, <4>1 DEF LinkInv, SocketInv
    <3>3. QED
      BY <1>1, <3>1, <3>2 DEF SocketInv
  <2>8. QED
    BY <1>2, <2>6, <2>7 DEF LinkInv
<1>6. QED
  BY <1>4, <1>5

(* Reading a message takes the first step of its topic's chain. *)
LEMMA ListenKeepsInv ==
    ASSUME LinkInv, TypeOK', NEW s \in Sockets, Listen(s)
    PROVE  LinkInv'
<1> DEFINE q == sockets[s]
           t == q[1].topic
           n == q[1].number
<1> USE ZmqAssumption
<1>1. /\ q \in Seq(Message) /\ q # <<>> /\ t \in Topics /\ n \in Nat
      /\ SocketOf[t] = s /\ IsRunning
  BY ReadMessage DEF Listen, IsRunning, Message
<1>2. /\ position' = [position EXCEPT ![t] = n]
      /\ lastSeq' = [lastSeq EXCEPT ![t] = SeqOf(n)]
      /\ sockets' = [sockets EXCEPT ![s] = Tail(@)]
      /\ worker' = "polling" /\ UNCHANGED <<published, gap>>
  BY ReadMessage DEF Listen
<1>3. /\ sockets'[s] = Tail(q) /\ \A r \in Sockets \ {s} : sockets'[r] = sockets[r]
      /\ position'[t] = n /\ lastSeq'[t] = SeqOf(n)
      /\ \A u \in Topics \ {t} : position'[u] = position[u] /\ lastSeq'[u] = lastSeq[u]
  BY <1>1, <1>2 DEF LinkInv, TypeOK
<1>4. \A u \in Topics :
         /\ Chain(sockets[SocketOf[u]], u, position[u], published[u] - gap[u])
         /\ sockets[SocketOf[u]] \in Seq(Message) /\ position[u] \in Nat
         /\ published[u] - gap[u] \in Nat /\ published[u] - gap[u] <= published[u]
  <2>1. SUFFICES ASSUME NEW u \in Topics
                 PROVE  published[u] - gap[u] \in Nat
    BY <1>1, <2>1, TopicTypes DEF LinkInv, ChainInv
  <2>2. published[u] - gap[u] >= position[u]
    <3>1. /\ Chain(sockets[SocketOf[u]], u, position[u], published[u] - gap[u])
          /\ sockets[SocketOf[u]] \in Seq(Message) /\ position[u] \in Nat
          /\ published[u] \in Nat /\ gap[u] \in Nat
      BY <1>1, TopicTypes DEF LinkInv, ChainInv
    <3>2. QED
      BY <3>1, ChainEnd
  <2>3. QED
    BY <2>2, TopicTypes DEF LinkInv
<1>5. /\ n \in position[t] + 1 .. position[t] + MaxGap + 1
      /\ n <= published[t] - gap[t]
      /\ Chain(sockets'[s], t, n, published[t] - gap[t])
  BY <1>1, <1>3, <1>4, ChainTail, SMTT(60)
<1>6. ASSUME NEW u \in Topics \ {t}
      PROVE  Chain(sockets'[SocketOf[u]], u, position'[u], published'[u] - gap'[u])
  <2>1. CASE SocketOf[u] = s
    BY <1>1, <1>2, <1>3, <1>4, <2>1, ChainTailOther
  <2>2. CASE SocketOf[u] # s
    BY <1>2, <1>3, <1>4, <2>2 DEF Sockets
  <2>3. QED
    BY <2>1, <2>2
<1>7. ChainInv'
  <2>1. Chain(sockets'[SocketOf[t]], t, position'[t], published'[t] - gap'[t])
    BY <1>1, <1>2, <1>3, <1>5
  <2>2. \A u \in Topics :
           Chain(sockets'[SocketOf[u]], u, position'[u], published'[u] - gap'[u])
    BY <1>6, <2>1, Zenon
  <2>3. IsRunning'
    BY <1>2 DEF IsRunning
  <2>4. QED
    BY <2>2, <2>3 DEF ChainInv
<1>8. SocketInv'
  <2>1. \A i \in 1 .. Len(Tail(q)) : Tail(q)[i] = q[i + 1] /\ i + 1 \in 1 .. Len(q)
    BY <1>1
  <2>2. \A i \in 1 .. Len(q) : SocketOf[q[i].topic] = s
    BY Zenon DEF LinkInv, SocketInv
  <2>3. sockets'[s] = Tail(q)
    BY <1>3
  <2> HIDE DEF q
  <2>4. \A i \in 1 .. Len(sockets'[s]) : SocketOf[sockets'[s][i].topic] = s
    BY <2>1, <2>2, <2>3
  <2>5. QED
    <3>1. worker' = "polling" /\ IsRunning'
      BY <1>2 DEF IsRunning
    <3>2. \A r \in Sockets : \A i \in 1 .. Len(sockets'[r]) :
             SocketOf[sockets'[r][i].topic] = r
      <4>1. ASSUME NEW r \in Sockets \ {s}, NEW i \in 1 .. Len(sockets'[r])
            PROVE  SocketOf[sockets'[r][i].topic] = r
        <5>1. sockets'[r] = sockets[r]
          BY <1>3
        <5>2. QED
          BY <5>1, Zenon DEF LinkInv, SocketInv
      <4>2. QED
        BY <2>4, <4>1, Zenon
    <3>3. QED
      BY <3>1, <3>2 DEF SocketInv
<1>9. SeqInv'
  <2>1. \A u \in Topics : published[u] \in Nat /\ gap[u] \in Nat
    BY TopicTypes DEF LinkInv
  <2>2. position'[t] <= published'[t] /\ lastSeq'[t] = SeqOf(position'[t])
    BY <1>1, <1>2, <1>3, <1>5, <2>1
  <2>3. ASSUME NEW u \in Topics \ {t}
        PROVE  /\ position'[u] <= published'[u]
               /\ lastSeq'[u] # NoSeq => lastSeq'[u] = SeqOf(position'[u])
    <3>1. /\ position'[u] = position[u] /\ lastSeq'[u] = lastSeq[u]
          /\ published'[u] = published[u]
      BY <1>2, <1>3, Zenon
    <3>2. QED
      BY <3>1 DEF LinkInv, SeqInv
  <2>4. QED
    BY <1>1, <2>2, <2>3 DEF SeqInv
<1>10. QED
  BY <1>7, <1>8, <1>9 DEF LinkInv

(* Every step keeps LinkInv. *)
LEMMA NextLinkInv == LinkInv /\ [Next]_vars => LinkInv'
<1> SUFFICES ASSUME LinkInv, [Next]_vars PROVE LinkInv'
  OBVIOUS
<1>1. CASE Next
  <2>1. TypeOK'
    BY <1>1, TypeKept
  <2>2. QED
    BY <1>1, <2>1, ControlKeepsInv, SessionKeepsInv, PublishKeepsInv, ListenKeepsInv
       DEF Next, Worker
<1>2. CASE UNCHANGED vars
  BY <1>2 DEF vars, LinkInv, TypeOK, ChainInv, SocketInv, SeqInv, IsRunning
<1>3. QED
  BY <1>1, <1>2

-----------------------------------------------------------------------------
(***************************************************************************)
(* The types of the subscriber's variables, whatever Start, Stop, the      *)
(* worker thread and the publisher do.                                     *)
(***************************************************************************)
THEOREM SubscriberTypeCorrect == Spec => []TypeOK
<1>1. LinkInv => TypeOK
  BY DEF LinkInv
<1>2. QED
  BY <1>1, InitLinkInv, NextLinkInv, PTL DEF Spec
(* The flag handed over says exactly: first of the session, or a gap. *)
LEMMA MismatchIsGap ==
    ASSUME LinkInv, NEW s \in Sockets, Listen(s)
    PROVE  LET t == Head(sockets[s]).topic
               n == Head(sockets[s]).number
           IN  /\ n \in position[t] + 1 .. published[t]
               /\ SeqMismatch(t, SeqOf(n)) <=> lastSeq[t] = NoSeq \/ n > position[t] + 1
               /\ SeqOf(n) # NoSeq
<1> DEFINE t == Head(sockets[s]).topic
           n == Head(sockets[s]).number
<1> USE ZmqAssumption
<1>1. t \in Topics /\ n \in Nat /\ SocketOf[t] = s
  BY ReadMessage DEF Message
<1>2. sockets[s] \in Seq(Message) /\ sockets[s] # <<>> /\ Head(sockets[s]) = sockets[s][1]
  BY ReadMessage
<1>3. /\ position[t] \in Nat /\ published[t] \in Nat /\ gap[t] \in Nat
      /\ Chain(sockets[s], t, position[t], published[t] - gap[t])
  BY <1>1, TopicTypes DEF LinkInv, ChainInv, Listen, IsRunning
<1>4. published[t] - gap[t] \in Nat
  BY <1>1, <1>2, <1>3, ChainEnd
<1>5. n \in position[t] + 1 .. position[t] + MaxGap + 1 /\ n <= published[t] - gap[t]
  BY <1>1, <1>2, <1>3, <1>4, ChainTail, SMTT(60)
<1>6. SeqOf(n) # NoSeq
  <2>1. SeqOf(n) \in 0 .. SeqModulus - 1
    BY <1>1, DivMod DEF SeqOf
  <2>2. QED
    BY <2>1 DEF NoSeq
<1>7. CASE lastSeq[t] = NoSeq
  BY <1>3, <1>5, <1>6, <1>7 DEF SeqMismatch
<1>8. CASE lastSeq[t] # NoSeq
  <2>1. lastSeq[t] = position[t] % SeqModulus
    BY <1>1, <1>8 DEF LinkInv, SeqInv, SeqOf
  <2>2. n > position[t] /\ n - position[t] <= SeqModulus
    BY <1>1, <1>3, <1>5
  <2>3. n % SeqModulus = ((position[t] % SeqModulus) + 1) % SeqModulus
           <=> n = position[t] + 1
    BY <1>1, <1>3, <2>2, SeqNext
  <2>4. SeqMismatch(t, SeqOf(n)) <=> n # position[t] + 1
    BY <1>8, <2>1, <2>3, Zenon DEF SeqMismatch, SeqOf
  <2>5. n # position[t] + 1 <=> n > position[t] + 1
    BY <1>1, <1>3, <2>2
  <2>6. n \in position[t] + 1 .. published[t]
    BY <1>3, <1>5
  <2>7. QED
    BY <1>6, <1>8, <2>4, <2>5, <2>6
<1>9. QED
  BY <1>7, <1>8

(* Reading a message is a step of the link: the message is handed over, or *)
(* nobody listens to its topic.                                            *)
LEMMA ListenHandsOver ==
    ASSUME LinkInv, NEW s \in Sockets, Listen(s)
    PROVE  [Link!Next]_Link!vars
<1> SUFFICES ASSUME NEW t \in Topics, NEW n \in Nat,
                    t = Head(sockets[s]).topic, n = Head(sockets[s]).number
             PROVE  [Link!Next]_Link!vars
  BY ReadMessage DEF Message
<1>1. /\ t \in Topics /\ n \in position[t] + 1 .. published[t]
      /\ SeqMismatch(t, SeqOf(n)) <=> lastSeq[t] = NoSeq \/ n > position[t] + 1
      /\ SeqOf(n) # NoSeq
  BY MismatchIsGap
<1>2. /\ lastSeq' = [lastSeq EXCEPT ![t] = SeqOf(n)]
      /\ position' = [position EXCEPT ![t] = n] /\ published' = published
      /\ t \in Listened => callback' = [topic |-> t, number |-> n,
                                        mismatch |-> SeqMismatch(t, SeqOf(n))]
      /\ t \notin Listened => callback' = callback
      /\ lastSeq \in [Topics -> 0 .. SeqModulus] /\ position \in [Topics -> Nat]
  BY DEF Listen, LinkInv, TypeOK
<1>3. Listened \subseteq Topics
  BY ZmqAssumption
<1>4. CASE t \in Listened
  <2>1. [u \in Listened |-> published[u]]' = [u \in Listened |-> published[u]]
    BY <1>2
  <2>2. [u \in Listened |-> position[u]]'
           = [[u \in Listened |-> position[u]] EXCEPT ![t] = n]
    BY <1>2, <1>3
  <2>3. [u \in Listened |-> lastSeq[u] = NoSeq]'
           = [[u \in Listened |-> lastSeq[u] = NoSeq] EXCEPT ![t] = FALSE]
    <3>1. \A u \in Listened : (lastSeq'[u] = NoSeq) <=>
             (IF u = t THEN FALSE ELSE lastSeq[u] = NoSeq)
      BY <1>1, <1>2, <1>3
    <3>2. QED
      BY <3>1, Zenon DEF NoSeq
  <2>4. SeqMismatch(t, SeqOf(n)) =
           ([u \in Listened |-> lastSeq[u] = NoSeq][t]
              \/ n > [u \in Listened |-> position[u]][t] + 1)
    <3>1. [u \in Listened |-> position[u]][t] = position[t]
      BY <1>4
    <3>2. [u \in Listened |-> lastSeq[u] = NoSeq][t] = (lastSeq[t] = NoSeq)
      BY <1>4, Zenon
    <3>3. SeqMismatch(t, SeqOf(n)) = (lastSeq[t] = NoSeq \/ n > position[t] + 1)
      BY <1>1, Zenon DEF SeqMismatch
    <3>4. QED
      BY <3>1, <3>2, <3>3, Zenon
  <2>5. n \in [u \in Listened |-> position[u]][t] + 1 ..
                [u \in Listened |-> published[u]][t]
    BY <1>1, <1>4
  <2>6. Link!HandOver(t)
    BY <1>2, <1>4, <2>1, <2>2, <2>3, <2>4, <2>5, Zenon DEF Link!HandOver
  <2>7. QED
    BY <1>4, <2>6 DEF Link!Next
<1>5. CASE t \notin Listened
  <2>1. \A u \in Listened : lastSeq'[u] = lastSeq[u] /\ position'[u] = position[u]
    BY <1>2, <1>3, <1>5
  <2>2. QED
    BY <1>2, <1>5, <2>1 DEF Link!vars
<1>6. QED
  BY <1>4, <1>5

(* Every step of the subscriber is one of the link, or changes nothing the *)
(* link shows.                                                             *)
LEMMA StepIsLinkStep ==
    ASSUME LinkInv, [Next]_vars
    PROVE  [Link!Next]_Link!vars
<1> USE ZmqAssumption
<1>1. ASSUME NEW t \in Topics, Publish(t)
      PROVE  [Link!Next]_Link!vars
  <2>1. /\ published' = [published EXCEPT ![t] = @ + 1]
        /\ published \in [Topics -> Nat] /\ UNCHANGED <<lastSeq, position, callback>>
    BY <1>1 DEF Publish, LinkInv, TypeOK
  <2>2. CASE t \in Listened
    <3>1. [u \in Listened |-> published[u]]'
             = [[u \in Listened |-> published[u]] EXCEPT ![t] = @ + 1]
      BY <2>1, <2>2
    <3>2. Link!Publish(t)
      BY <2>1, <3>1, Zenon DEF Link!Publish
    <3>3. QED
      BY <2>2, <3>2 DEF Link!Next
  <2>3. CASE t \notin Listened
    BY <2>1, <2>3 DEF Link!vars
  <2>4. QED
    BY <2>2, <2>3
<1>2. CASE Start
  <2>1. /\ position' = published /\ UNCHANGED <<published, callback>>
        /\ lastSeq' = [t \in Topics |-> NoSeq]
    BY <1>2 DEF Start
  <2>2. [u \in Listened |-> position[u]]' = [u \in Listened |-> published[u]]
    BY <2>1
  <2>3. [u \in Listened |-> lastSeq[u] = NoSeq]' = [u \in Listened |-> TRUE]
    <3>1. \A u \in Listened : (lastSeq'[u] = NoSeq) <=> TRUE
      BY <2>1
    <3>2. QED
      BY <3>1, Zenon DEF NoSeq
  <2>4. Link!StartSession
    BY <2>1, <2>2, <2>3, Zenon DEF Link!StartSession
  <2>5. QED
    BY <2>4 DEF Link!Next
<1>3. ASSUME NEW s \in Sockets, Listen(s)
      PROVE  [Link!Next]_Link!vars
  BY <1>3, ListenHandsOver
<1>4. CASE \/ StopRequested \/ StopJoined \/ PollStop \/ UNCHANGED vars
           \/ \E s \in Sockets : PollReady(s)
  <2>1. UNCHANGED <<published, lastSeq, position, callback>>
    BY <1>4 DEF StopRequested, StopJoined, PollStop, PollReady, vars
  <2>2. QED
    BY <2>1 DEF Link!vars
<1>5. QED
  BY <1>1, <1>2, <1>3, <1>4 DEF Next, Worker, Queue, Lose, NotConnected

(***************************************************************************)
(* ZmqSubscriber::Listen implements the link Game relies on, for every     *)
(* modulus of the sequence numbers that no gap can jump over: over losses, *)
(* restarts of the subscriber, wrap-around and messages of foreign topics, *)
(* a listener's mismatch flag is TRUE exactly for a topic's first message  *)
(* of the session and for one after a gap.                                 *)
(***************************************************************************)
THEOREM SubscriberImplementsLink == Spec => LinkImplemented
<1>1. Init => Link!Init
  <2> SUFFICES ASSUME Init PROVE Link!Init
    OBVIOUS
  <2>1. /\ published = [t \in Topics |-> 0] /\ position = [t \in Topics |-> 0]
        /\ lastSeq = [t \in Topics |-> NoSeq] /\ callback = Link!NoCallback
        /\ Listened \subseteq Topics
    BY ZmqAssumption DEF Init
  <2>2. /\ [t \in Listened |-> published[t]] = [t \in Listened |-> 0]
        /\ [t \in Listened |-> position[t]] = [t \in Listened |-> 0]
    BY <2>1
  <2>3. [t \in Listened |-> lastSeq[t] = NoSeq] = [t \in Listened |-> TRUE]
    <3>1. \A t \in Listened : (lastSeq[t] = NoSeq) <=> TRUE
      BY <2>1
    <3>2. QED
      BY <3>1, Zenon
  <2>4. QED
    BY <2>1, <2>2, <2>3, Zenon DEF Link!Init
<1>2. LinkInv /\ [Next]_vars => [Link!Next]_Link!vars
  BY StepIsLinkStep
<1>3. QED
  BY <1>1, <1>2, InitLinkInv, NextLinkInv, PTL DEF Spec, LinkImplemented, Link!Spec

-----------------------------------------------------------------------------
(***************************************************************************)
(* The other side of the notifications: the threads that wait in Game's    *)
(* long-polling calls for what the subscriber's handlers change.  For      *)
(* every number of waiters and of calls, the conjunction WaitInv of module *)
(* StateWaiters is inductive.                                              *)
(***************************************************************************)

(* WaitInv holds when Game has been constructed. *)
LEMMA InitWaitInv == WaitInit => WaitInv
<1> SUFFICES ASSUME WaitInit PROVE WaitInv
  OBVIOUS
<1>1. WaitTypeOK
  <2>1. zmqRunning \in BOOLEAN /\ unnotified \in BOOLEAN
    BY Zenon DEF WaitInit
  <2>2. version \in Nat \ {0} /\ stops \in Nat
    BY DEF WaitInit, FirstVersion
  <2>3. /\ mut \in Waiters \cup {ZmqThread, "none"} /\ block \in Blocks \cup {NoBlock}
        /\ phase \in Phases /\ pc \in [Waiters -> Places]
    BY DEF WaitInit, Phases, Places
  <2>4. call \in [Waiters -> StateCall \cup PendingCall]
    BY DEF WaitInit, StateCall, NoCall
  <2>5. QED
    BY <2>1, <2>2, <2>3, <2>4 DEF WaitTypeOK
<1>2. LockInv /\ PhaseInv /\ KnowledgeInv
  BY WaitersAssumption DEF WaitInit, LockInv, PhaseInv, KnowledgeInv, HoldingPlaces
<1>3. StopWakesWaiters /\ NoMissedState /\ NoMissedPending
  BY DEF WaitInit, StopWakesWaiters, NoMissedState, NoMissedPending
<1>4. QED
  BY <1>1, <1>2, <1>3 DEF WaitInv

(* notify_all only moves sleepers of the one condition variable. *)
LEMMA WokenType ==
    ASSUME WaitTypeOK, NEW kind
    PROVE  /\ Woken(kind) \in [Waiters -> Places]
           /\ \A w \in Waiters :
                 \/ /\ pc[w] = "sleeping" /\ call[w].kind = kind
                    /\ Woken(kind)[w] = "woken"
                 \/ /\ ~(pc[w] = "sleeping" /\ call[w].kind = kind)
                    /\ Woken(kind)[w] = pc[w]
  BY DEF WaitTypeOK, Woken, Places

(* A call has one of the two kinds. *)
LEMMA CallKind ==
    ASSUME WaitTypeOK, NEW w \in Waiters
    PROVE  /\ call[w].kind \in {"state", "pending"}
           /\ call[w].kind = "state" => call[w].old \in Blocks \cup {NoBlock}
           /\ call[w].kind = "pending" => call[w].old \in Nat
  BY DEF WaitTypeOK, StateCall, PendingCall

(* The steps of one waiter keep WaitInv. *)
LEMMA WaiterKeepsInv ==
    ASSUME WaitInv, NEW w \in Waiters, WaiterStep(w)
    PROVE  WaitInv'
<1> USE WaitersAssumption
      DEF WaitInv, WaitTypeOK, LockInv, PhaseInv, KnowledgeInv, StopWakesWaiters,
          NoMissedState, NoMissedPending, KnowsState, KnowsPending, Phases,
          Places, HoldingPlaces, mainVars
<1>1. ASSUME NEW c \in StateCall \cup PendingCall, Enter(w, c)
      PROVE  WaitInv'
  <2>1. WaitTypeOK'
    BY <1>1 DEF Enter
  <2>2. (LockInv /\ PhaseInv /\ StopWakesWaiters)'
    BY <1>1 DEF Enter
  <2>3. KnowledgeInv'
    BY <1>1, CallKind DEF Enter, ReturnsAtOnce, AlwaysBlock, StateCall, PendingCall
  <2>4. (NoMissedState /\ NoMissedPending)'
    BY <1>1 DEF Enter
  <2>5. QED
    BY <2>1, <2>2, <2>3, <2>4
<1>2. CASE WaitForChange(w)
  BY <1>1, <1>2 DEF WaitForChange, StateCall
<1>3. CASE WaitForPendingChange(w)
  BY <1>1, <1>3 DEF WaitForPendingChange, PendingCall
<1>4. CASE CheckRunning(w)
  BY <1>4 DEF CheckRunning, NoCall, StateCall
<1>5. CASE Sleep(w)
  BY <1>5 DEF Sleep
<1>6. CASE TimeOut(w)
  BY <1>6 DEF TimeOut
<1>7. CASE Return(w)
  BY <1>7 DEF Return, NoCall, StateCall
<1>8. QED
  BY <1>2, <1>3, <1>4, <1>5, <1>6, <1>7 DEF WaiterStep

(* A step of a handler keeps WaitInv. *)
LEMMA HandlerKeepsInv ==
    ASSUME WaitInv, HandlerStep
    PROVE  WaitInv'
<1> USE WaitersAssumption
      DEF WaitInv, WaitTypeOK, LockInv, PhaseInv, KnowledgeInv, StopWakesWaiters,
          NoMissedState, NoMissedPending, KnowsState, KnowsPending, Phases,
          HoldingPlaces, mainVars, HandlerRuns
<1>1. CASE ChangeState
  <2>1. unnotified' \in BOOLEAN
    BY <1>1, Zenon DEF ChangeState
  <2>2. WaitTypeOK'
    BY <1>1, <2>1, WokenType DEF ChangeState
  <2>3. (LockInv /\ PhaseInv /\ StopWakesWaiters)'
    BY <1>1, WokenType, CallKind DEF ChangeState
  <2>4. (KnowledgeInv /\ NoMissedState /\ NoMissedPending)'
    BY <1>1, WokenType, CallKind DEF ChangeState
  <2>5. QED
    BY <2>2, <2>3, <2>4
<1>2. CASE ChangeStateQuietly
  BY <1>2 DEF ChangeStateQuietly
<1>3. CASE ChangePending
  BY <1>3, WokenType, CallKind DEF ChangePending, NotifyPendingStateChange
<1>4. CASE HandlerEnter
  BY <1>4 DEF HandlerEnter
<1>5. CASE HandlerReturn
  BY <1>5 DEF HandlerReturn
<1>6. QED
  BY <1>1, <1>2, <1>3, <1>4, <1>5 DEF HandlerStep

(* A step of Start or of Stop keeps WaitInv. *)
LEMMA MainKeepsInv ==
    ASSUME WaitInv,
           \/ TrackGame \/ StartZmq \/ StartReinitialised
           \/ StopZmq \/ UntrackGame \/ StopNotify \/ StopNotifyPending
    PROVE  WaitInv'
<1> USE WaitersAssumption
      DEF WaitInv, WaitTypeOK, LockInv, PhaseInv, KnowledgeInv, StopWakesWaiters,
          NoMissedState, NoMissedPending, KnowsState, KnowsPending, Phases,
          HoldingPlaces
<1>1. CASE TrackGame
  BY <1>1 DEF TrackGame
<1>2. CASE StartZmq
  BY <1>2 DEF StartZmq
<1>3. CASE StartReinitialised
  BY <1>3 DEF StartReinitialised
<1>4. CASE StopZmq
  <2>1. zmqRunning' \in BOOLEAN /\ ~zmqRunning'
    BY <1>4, Zenon DEF StopZmq
  <2>2. QED
    BY <1>4, <2>1 DEF StopZmq
<1>5. CASE UntrackGame
  BY <1>5 DEF UntrackGame
<1>6. CASE StopNotify
  BY <1>6, WokenType, CallKind DEF StopNotify
<1>7. CASE StopNotifyPending
  BY <1>7, WokenType, CallKind DEF StopNotifyPending, NotifyPendingStateChange
<1>8. QED
  BY <1>1, <1>2, <1>3, <1>4, <1>5, <1>6, <1>7

(* WaitInv is an invariant of the waiting calls. *)
THEOREM WaitTheorem == WaitSpec => []WaitInv
<1>1. WaitInv /\ [WaitNext]_waitVars => WaitInv'
  <2> SUFFICES ASSUME WaitInv, [WaitNext]_waitVars PROVE WaitInv'
    OBVIOUS
  <2>1. CASE WaitNext
    BY <2>1, WaiterKeepsInv, HandlerKeepsInv, MainKeepsInv DEF WaitNext
  <2>2. CASE UNCHANGED waitVars
    BY <2>2
    DEF waitVars, WaitInv, WaitTypeOK, LockInv, PhaseInv, KnowledgeInv, StopWakesWaiters,
        NoMissedState, NoMissedPending, KnowsState, KnowsPending, Phases,
        HoldingPlaces
  <2>3. QED
    BY <2>1, <2>2
<1>2. QED
  BY InitWaitInv, <1>1, PTL DEF WaitSpec

(***************************************************************************)
(* For every set of RPC threads: when Game::Stop has returned, no call of  *)
(* WaitForChange or WaitForPendingChange sleeps.                           *)
(***************************************************************************)
THEOREM StopWakesTheorem == WaitSpec => []StopWakesWaiters
<1>1. WaitInv => StopWakesWaiters
  BY DEF WaitInv
<1>2. QED
  BY WaitTheorem, <1>1, PTL

(***************************************************************************)
(* For every set of RPC threads and of blocks: WaitForChange never sleeps  *)
(* over a block the handlers have notified, nor WaitForPendingChange on an *)
(* outdated version.                                                       *)
(***************************************************************************)
THEOREM NoMissedChangeTheorem == WaitSpec => []NoMissedChange
<1>1. WaitInv => NoMissedChange
  BY DEF WaitInv, NoMissedChange
<1>2. QED
  BY WaitTheorem, <1>1, PTL
=============================================================================
