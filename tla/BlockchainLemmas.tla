-------------------------- MODULE BlockchainLemmas --------------------------
(***************************************************************************)
(* Facts about the block tree that the proofs of Game and of the storages  *)
(* rest on.                                                                *)
(***************************************************************************)
EXTENDS Blockchain, FiniteSetTheorems, SequenceTheorems, TLAPS

\* The parent of a block is a block one lower.
LEMMA ParentType ==
    ASSUME NEW b \in Seq(Labels) \ {<<>>}
    PROVE  /\ Parent(b) \in Seq(Labels)
           /\ Len(Parent(b)) = Len(b) - 1
           /\ Len(b) \in Nat \ {0}
           /\ b[Len(b)] \in Labels
<1>1. Len(b) \in Nat \ {0}
  BY EmptySeq
<1>2. \A i \in 1..Len(b) : b[i] \in Labels
  BY ElementOfSeq
<1>3. /\ SubSeq(b, 1, Len(b) - 1) \in Seq(Labels)
      /\ Len(SubSeq(b, 1, Len(b) - 1)) = Len(b) - 1
  BY <1>1, <1>2
<1>4. QED
  BY <1>1, <1>2, <1>3 DEF Parent, Prefix

\* A block is its parent extended by its own label.
LEMMA AppendParent ==
    ASSUME NEW b \in Seq(Labels) \ {<<>>}
    PROVE  Append(Parent(b), b[Len(b)]) = b
  BY ParentType, SubSeqProperties, AppendProperties DEF Parent, Prefix

\* A block's ancestors are blocks.
LEMMA PrefixType ==
    ASSUME NEW b \in Seq(Labels), NEW h \in 1..Len(b)
    PROVE  Prefix(b, h) \in Seq(Labels) \ {<<>>}
  BY SubSeqProperties DEF Prefix

\* Two blocks fork no higher than either of them.
LEMMA ForkHeightType ==
    ASSUME NEW a \in Seq(Labels), NEW b \in Seq(Labels)
    PROVE  ForkHeight(a, b) \in 0..Len(a) /\ ForkHeight(a, b) <= Len(b)
<1> DEFINE S == {h \in 1..Len(a) : OnChain(Prefix(a, h), b)}
<1>1. S \subseteq 1..Len(a) /\ S \subseteq 1..Len(b)
  BY PrefixType, SubSeqProperties DEF OnChain, Prefix
<1>2. IsFiniteSet(S) /\ Cardinality(S) <= Len(a) /\ Cardinality(S) <= Len(b)
  BY <1>1, FS_Subset, FS_Interval
<1>3. QED
  BY <1>2, FS_CardinalityType DEF ForkHeight

\* What the daemon sends for a reorg or for game_sendupdates are messages.
LEMMA UpdatesType ==
    ASSUME NEW a \in Seq(Labels), NEW b \in Seq(Labels)
    PROVE  Updates(a, b) \in Seq(Step)
<1> DEFINE f == ForkHeight(a, b)
           det == [i \in 1..(Len(a) - f) |->
                     [type |-> "detach", block |-> Prefix(a, Len(a) + 1 - i)]]
           att == [i \in 1..(Len(b) - f) |->
                     [type |-> "attach", block |-> Prefix(b, f + i)]]
<1>1. f \in Nat /\ f <= Len(a) /\ f <= Len(b) /\ Len(a) \in Nat /\ Len(b) \in Nat
  BY ForkHeightType
<1>2. det \in Seq(Step)
  <2>1. \A i \in 1..(Len(a) - f) : Len(a) + 1 - i \in 1..Len(a)
    BY <1>1
  <2>2. \A i \in 1..(Len(a) - f) :
          [type |-> "detach", block |-> Prefix(a, Len(a) + 1 - i)] \in Step
    BY <2>1, PrefixType DEF Step
  <2>3. Len(a) - f \in Nat
    BY <1>1
  <2>4. QED
    BY <2>2, <2>3, IsASeq
<1>3. att \in Seq(Step)
  <2>1. \A i \in 1..(Len(b) - f) : f + i \in 1..Len(b)
    BY <1>1
  <2>2. \A i \in 1..(Len(b) - f) :
          [type |-> "attach", block |-> Prefix(b, f + i)] \in Step
    BY <2>1, PrefixType DEF Step
  <2>3. Len(b) - f \in Nat
    BY <1>1
  <2>4. QED
    BY <2>2, <2>3, IsASeq
<1>4. QED
  BY <1>2, <1>3, ConcatProperties DEF Updates

\* What a prefix of a block is made of, the empty one included.
LEMMA PrefixParts ==
    ASSUME NEW b \in Seq(Labels), NEW h \in 0..Len(b)
    PROVE  /\ Prefix(b, h) \in Seq(Labels) /\ Len(Prefix(b, h)) = h
           /\ \A i \in 1..h : Prefix(b, h)[i] = b[i]
<1>1. Len(b) \in Nat /\ h \in Int /\ 1 \in Int
  BY LenProperties
<1>2. \A i \in 1..h : b[i] \in Labels
  BY <1>1, ElementOfSeq
<1>3. /\ SubSeq(b, 1, h) \in Seq(Labels)
      /\ Len(SubSeq(b, 1, h)) = IF 1 <= h THEN h - 1 + 1 ELSE 0
      /\ \A i \in 1..(h - 1 + 1) : SubSeq(b, 1, h)[i] = b[1 + i - 1]
  BY <1>1, <1>2, SubSeqProperties
<1>4. QED
  BY <1>1, <1>3 DEF Prefix

\* An ancestor has the labels of its descendant.
LEMMA OnChainParts ==
    ASSUME NEW a \in Seq(Labels), NEW b \in Seq(Labels)
    PROVE  OnChain(a, b) <=> /\ Len(a) <= Len(b)
                             /\ \A i \in 1..Len(a) : a[i] = b[i]
<1>1. Len(a) \in Nat /\ Len(b) \in Nat
  BY LenProperties
<1>2. CASE Len(a) <= Len(b)
  <2>1. Len(a) \in 0..Len(b)
    BY <1>1, <1>2
  <2>2. /\ Prefix(b, Len(a)) \in Seq(Labels) /\ Len(Prefix(b, Len(a))) = Len(a)
        /\ \A i \in 1..Len(a) : Prefix(b, Len(a))[i] = b[i]
    BY <2>1, PrefixParts
  <2>3. (Prefix(b, Len(a)) = a) <=> \A i \in 1..Len(a) : a[i] = b[i]
    BY <2>2, SeqEqual
  <2>4. QED
    BY <1>2, <2>3 DEF OnChain
<1>3. CASE ~(Len(a) <= Len(b))
  BY <1>3 DEF OnChain
<1>4. QED
  BY <1>2, <1>3

\* A block is its own highest prefix.
LEMMA PrefixSelf ==
    ASSUME NEW a \in Seq(Labels)
    PROVE  Prefix(a, Len(a)) = a
<1>1. Len(a) \in 0..Len(a)
  BY LenProperties
<1>2. /\ Prefix(a, Len(a)) \in Seq(Labels) /\ Len(Prefix(a, Len(a))) = Len(a)
      /\ \A i \in 1..Len(a) : Prefix(a, Len(a))[i] = a[i]
  BY <1>1, PrefixParts
<1>3. QED
  BY <1>2, SeqEqual

\* An ancestor of a block's parent is a lower ancestor of the block.
LEMMA OnChainOfParent ==
    ASSUME NEW a \in Seq(Labels), NEW b \in Seq(Labels) \ {<<>>}, OnChain(a, Parent(b))
    PROVE  OnChain(a, b) /\ Len(a) < Len(b)
<1>1. /\ Parent(b) \in Seq(Labels) /\ Len(Parent(b)) = Len(b) - 1 /\ Len(b) \in Nat \ {0}
      /\ Len(a) \in Nat
  BY ParentType, LenProperties
<1>2. \A i \in 1..(Len(b) - 1) : Parent(b)[i] = b[i]
  <2>1. Len(b) - 1 \in 0..Len(b) /\ b \in Seq(Labels)
    BY <1>1
  <2>2. \A i \in 1..(Len(b) - 1) : Prefix(b, Len(b) - 1)[i] = b[i]
    BY <2>1, PrefixParts
  <2>3. QED
    BY <2>2 DEF Parent
<1>3. Len(a) <= Len(Parent(b)) /\ \A i \in 1..Len(a) : a[i] = Parent(b)[i]
  BY <1>1, OnChainParts
<1>4. Len(a) < Len(b) /\ Len(a) <= Len(b) /\ \A i \in 1..Len(a) : a[i] = b[i]
  BY <1>1, <1>2, <1>3
<1>5. QED
  BY <1>4, OnChainParts

\* Block a is an ancestor of b when they fork at a.
LEMMA ForkAtTop ==
    ASSUME NEW a \in Seq(Labels), NEW b \in Seq(Labels), ForkHeight(a, b) = Len(a)
    PROVE  OnChain(a, b)
<1> DEFINE S == {h \in 1..Len(a) : OnChain(Prefix(a, h), b)}
<1>1. Len(a) \in Nat /\ Len(b) \in Nat
  BY LenProperties
<1>2. CASE Len(a) = 0
  <2>1. Len(a) <= Len(b) /\ \A i \in 1..Len(a) : a[i] = b[i]
    BY <1>1, <1>2
  <2>2. QED
    BY <2>1, OnChainParts
<1>3. CASE Len(a) # 0
  <2>1. IsFiniteSet(1..Len(a)) /\ Cardinality(1..Len(a)) = Len(a)
    BY <1>1, <1>3, FS_Interval
  <2>2. S = 1..Len(a)
    <3>1. S \subseteq 1..Len(a)
      OBVIOUS
    <3>2. Cardinality(S) = Len(a)
      BY DEF ForkHeight
    <3> HIDE DEF S
    <3>3. QED
      BY <2>1, <3>1, <3>2, FS_Subset
  <2>3. OnChain(Prefix(a, Len(a)), b)
    <3>1. Len(a) \in 1..Len(a)
      BY <1>1, <1>3
    <3>2. QED
      BY <2>2, <3>1
  <2>4. Prefix(a, Len(a)) = a
    BY PrefixSelf
  <2>5. QED
    BY <2>3, <2>4
<1>4. QED
  BY <1>2, <1>3

\* The steps from a to b one by one: the detached blocks, then the attached.
LEMMA UpdateParts ==
    ASSUME NEW a \in Seq(Labels), NEW b \in Seq(Labels)
    PROVE  LET f == ForkHeight(a, b)
               u == Updates(a, b)
           IN  /\ f \in Nat /\ f <= Len(a) /\ f <= Len(b)
               /\ Len(a) \in Nat /\ Len(b) \in Nat
               /\ Len(u) = (Len(a) - f) + (Len(b) - f)
               /\ \A i \in 1..(Len(a) - f) :
                    u[i] = [type |-> "detach", block |-> Prefix(a, Len(a) + 1 - i)]
               /\ \A i \in 1..(Len(b) - f) :
                    u[Len(a) - f + i] = [type |-> "attach", block |-> Prefix(b, f + i)]
<1> DEFINE f == ForkHeight(a, b)
           det == [i \in 1..(Len(a) - f) |->
                     [type |-> "detach", block |-> Prefix(a, Len(a) + 1 - i)]]
           att == [i \in 1..(Len(b) - f) |->
                     [type |-> "attach", block |-> Prefix(b, f + i)]]
           Steps == [type : {"attach", "detach"}, block : Seq(Labels)]
<1>1. f \in Nat /\ f <= Len(a) /\ f <= Len(b) /\ Len(a) \in Nat /\ Len(b) \in Nat
  BY ForkHeightType
<1>2. Updates(a, b) = det \o att
  BY DEF Updates
<1> HIDE DEF f
<1>3. Len(a) - f \in Nat /\ Len(b) - f \in Nat
  BY <1>1
<1>4. det \in Seq(Steps)
  <2>1. \A i \in 1..(Len(a) - f) : Len(a) + 1 - i \in 0..Len(a)
    BY <1>1
  <2>2. \A i \in 1..(Len(a) - f) :
          [type |-> "detach", block |-> Prefix(a, Len(a) + 1 - i)] \in Steps
    BY <2>1, PrefixParts
  <2> HIDE DEF Steps
  <2>3. QED
    BY <1>3, <2>2, IsASeq
<1>5. att \in Seq(Steps)
  <2>1. \A i \in 1..(Len(b) - f) : f + i \in 0..Len(b)
    BY <1>1
  <2>2. \A i \in 1..(Len(b) - f) :
          [type |-> "attach", block |-> Prefix(b, f + i)] \in Steps
    BY <2>1, PrefixParts
  <2> HIDE DEF Steps
  <2>3. QED
    BY <1>3, <2>2, IsASeq
<1>6. /\ \A i \in 1..(Len(a) - f) :
            det[i] = [type |-> "detach", block |-> Prefix(a, Len(a) + 1 - i)]
      /\ \A i \in 1..(Len(b) - f) :
            att[i] = [type |-> "attach", block |-> Prefix(b, f + i)]
  OBVIOUS
<1>7. DOMAIN det = 1..(Len(a) - f) /\ DOMAIN att = 1..(Len(b) - f)
  OBVIOUS
<1> HIDE DEF det, att, Steps
<1>8. Len(det) = Len(a) - f /\ Len(att) = Len(b) - f
  BY <1>3, <1>4, <1>5, <1>7, LenProperties
<1>9. /\ Len(det \o att) = Len(det) + Len(att)
      /\ \A i \in 1..(Len(det) + Len(att)) :
            (det \o att)[i] = IF i <= Len(det) THEN det[i] ELSE att[i - Len(det)]
  BY <1>4, <1>5, ConcatProperties
<1>10. ASSUME NEW i \in 1..(Len(a) - f) PROVE (det \o att)[i] = det[i]
  BY <1>1, <1>8, <1>9
<1>11. ASSUME NEW i \in 1..(Len(b) - f) PROVE (det \o att)[Len(a) - f + i] = att[i]
  <2> DEFINE k == Len(a) - f + i
  <2>1. k \in 1..(Len(det) + Len(att)) /\ ~(k <= Len(det)) /\ k - Len(det) = i
    BY <1>1, <1>8
  <2> HIDE DEF k
  <2>2. (det \o att)[k] = IF k <= Len(det) THEN det[k] ELSE att[k - Len(det)]
    BY <1>9, <2>1, Zenon
  <2>3. (det \o att)[k] = att[i]
    BY <2>1, <2>2, Zenon
  <2>4. QED
    BY <2>3 DEF k
<1>12. QED
  BY <1>1, <1>2, <1>6, <1>8, <1>9, <1>10, <1>11 DEF f

\* The parent of an ancestor is the ancestor one lower.
LEMMA ParentOfPrefix ==
    ASSUME NEW a \in Seq(Labels), NEW h \in 1..Len(a)
    PROVE  Parent(Prefix(a, h)) = Prefix(a, h - 1)
<1> DEFINE c == Prefix(a, h)
<1>1. Len(a) \in Nat /\ h \in 0..Len(a) /\ h - 1 \in 0..Len(a)
  BY LenProperties
<1>2. c \in Seq(Labels) /\ Len(c) = h /\ \A i \in 1..h : c[i] = a[i]
  BY <1>1, PrefixParts
<1> HIDE DEF c
<1>3. h - 1 \in 0..Len(c)
  BY <1>1, <1>2
<1>4. /\ Prefix(c, h - 1) \in Seq(Labels) /\ Len(Prefix(c, h - 1)) = h - 1
      /\ \A i \in 1..(h - 1) : Prefix(c, h - 1)[i] = c[i]
  BY <1>2, <1>3, PrefixParts
<1>5. /\ Prefix(a, h - 1) \in Seq(Labels) /\ Len(Prefix(a, h - 1)) = h - 1
      /\ \A i \in 1..(h - 1) : Prefix(a, h - 1)[i] = a[i]
  BY <1>1, PrefixParts
<1>6. \A i \in 1..(h - 1) : Prefix(c, h - 1)[i] = Prefix(a, h - 1)[i]
  BY <1>1, <1>2, <1>4, <1>5, SMTT(30)
<1>7. Prefix(c, h - 1) = Prefix(a, h - 1)
  BY <1>4, <1>5, <1>6, SeqEqual
<1>8. QED
  BY <1>2, <1>7 DEF Parent, c

\* The first step from block a to another: a child of a, or a itself.
LEMMA FirstUpdate ==
    ASSUME NEW a \in Seq(Labels), NEW b \in Seq(Labels), a # b
    PROVE  LET u == Updates(a, b)[1]
           IN  \/ /\ u.type = "attach" /\ u.block \in Seq(Labels) \ {<<>>}
                  /\ Parent(u.block) = a
               \/ u.type = "detach" /\ u.block = a
<1> DEFINE f == ForkHeight(a, b)
           u == Updates(a, b)
<1>1. /\ f \in Nat /\ f <= Len(a) /\ f <= Len(b)
      /\ Len(a) \in Nat /\ Len(b) \in Nat
      /\ \A i \in 1..(Len(a) - f) :
            u[i] = [type |-> "detach", block |-> Prefix(a, Len(a) + 1 - i)]
      /\ \A i \in 1..(Len(b) - f) :
            u[Len(a) - f + i] = [type |-> "attach", block |-> Prefix(b, f + i)]
  BY UpdateParts
<1>2. CASE f < Len(a)
  <2>1. 1 \in 1..(Len(a) - f) /\ Len(a) + 1 - 1 = Len(a)
    BY <1>1, <1>2
  <2>2. u[1] = [type |-> "detach", block |-> Prefix(a, Len(a))]
    BY <1>1, <2>1
  <2>3. QED
    BY <2>2, PrefixSelf
<1>3. CASE ~(f < Len(a))
  <2>1. f = Len(a) /\ OnChain(a, b)
    BY <1>1, <1>3, ForkAtTop
  <2>2. Len(a) <= Len(b) /\ \A i \in 1..Len(a) : a[i] = b[i]
    BY <2>1, OnChainParts
  <2>3. Len(a) < Len(b)
    BY <1>1, <2>2, SeqEqual
  <2> DEFINE h == f + 1
  <2>4. /\ 1 \in 1..(Len(b) - f) /\ Len(a) - f + 1 = 1
        /\ h \in 1..Len(b) /\ h - 1 = Len(a)
    BY <1>1, <2>1, <2>3
  <2>5. u[1] = [type |-> "attach", block |-> Prefix(b, h)]
    BY <1>1, <2>4
  <2> HIDE DEF h
  <2>6. Prefix(b, h) \in Seq(Labels) \ {<<>>} /\ Parent(Prefix(b, h)) = Prefix(b, Len(a))
    BY <2>4, PrefixType, ParentOfPrefix
  <2>7. Prefix(b, Len(a)) = a
    BY <2>1 DEF OnChain
  <2>8. QED
    BY <2>5, <2>6, <2>7
<1>4. QED
  BY <1>2, <1>3

\* Block b is an ancestor of a when they fork at b.
LEMMA ForkAtBottom ==
    ASSUME NEW a \in Seq(Labels), NEW b \in Seq(Labels), ForkHeight(a, b) = Len(b)
    PROVE  Prefix(a, Len(b)) = b
<1> DEFINE S == {h \in 1..Len(a) : OnChain(Prefix(a, h), b)}
<1>1. Len(a) \in Nat /\ Len(b) \in Nat /\ Len(b) \in 0..Len(a)
  BY ForkHeightType, LenProperties
<1>2. /\ Prefix(a, Len(b)) \in Seq(Labels) /\ Len(Prefix(a, Len(b))) = Len(b)
  BY <1>1, PrefixParts
<1>3. CASE Len(b) = 0
  BY <1>2, <1>3, SeqEqual
<1>4. CASE Len(b) # 0
  <2>1. IsFiniteSet(1..Len(b)) /\ Cardinality(1..Len(b)) = Len(b)
    BY <1>1, <1>4, FS_Interval
  <2>2. S \subseteq 1..Len(b)
    BY PrefixType, SubSeqProperties DEF OnChain, Prefix
  <2>3. Cardinality(S) = Len(b)
    BY DEF ForkHeight
  <2> HIDE DEF S
  <2>4. S = 1..Len(b)
    BY <2>1, <2>2, <2>3, FS_Subset
  <2>5. Len(b) \in S
    BY <1>1, <1>4, <2>4
  <2>6. OnChain(Prefix(a, Len(b)), b)
    BY <2>5 DEF S
  <2>7. Prefix(b, Len(b)) = Prefix(a, Len(b))
    BY <1>2, <2>6 DEF OnChain
  <2>8. QED
    BY <2>7, PrefixSelf
<1>5. QED
  BY <1>3, <1>4

\* The step u ends at block b.
LeadsTo(u, b) ==
    \/ u.type = "attach" /\ u.block = b
    \/ u.type = "detach" /\ Parent(u.block) = b

\* Between different blocks there is a step, and the last one ends at b.
LEMMA LastUpdate ==
    ASSUME NEW a \in Seq(Labels), NEW b \in Seq(Labels), a # b
    PROVE  LET u == Updates(a, b)
           IN  Len(u) \in Nat \ {0} /\ LeadsTo(u[Len(u)], b)
<1> DEFINE f == ForkHeight(a, b)
           u == Updates(a, b)
<1>1. /\ f \in Nat /\ f <= Len(a) /\ f <= Len(b)
      /\ Len(a) \in Nat /\ Len(b) \in Nat
      /\ Len(u) = (Len(a) - f) + (Len(b) - f)
      /\ \A i \in 1..(Len(a) - f) :
            u[i] = [type |-> "detach", block |-> Prefix(a, Len(a) + 1 - i)]
      /\ \A i \in 1..(Len(b) - f) :
            u[Len(a) - f + i] = [type |-> "attach", block |-> Prefix(b, f + i)]
  BY UpdateParts
<1>2. CASE f < Len(b)
  <2>1. /\ Len(b) - f \in 1..(Len(b) - f) /\ f + (Len(b) - f) = Len(b)
        /\ Len(u) = Len(a) - f + (Len(b) - f) /\ Len(u) \in Nat \ {0}
    BY <1>1, <1>2
  <2>2. u[Len(u)] = [type |-> "attach", block |-> Prefix(b, Len(b))]
    BY <1>1, <2>1
  <2>3. QED
    BY <2>1, <2>2, PrefixSelf DEF LeadsTo
<1>3. CASE f = Len(b)
  <2>1. Prefix(a, f) = b
    BY <1>3, ForkAtBottom
  <2>2. f < Len(a)
    <3>1. CASE f = Len(a)
      BY <2>1, <3>1, PrefixSelf
    <3>2. QED
      BY <1>1, <3>1
  <2>3. /\ Len(a) - f \in 1..(Len(a) - f) /\ Len(a) + 1 - (Len(a) - f) = f + 1
        /\ Len(u) = Len(a) - f /\ Len(u) \in Nat \ {0}
        /\ f + 1 \in 1..Len(a) /\ f + 1 - 1 = f
    BY <1>1, <1>3, <2>2
  <2>4. u[Len(u)] = [type |-> "detach", block |-> Prefix(a, f + 1)]
    BY <1>1, <2>3
  <2> HIDE DEF f, u
  <2>5. Parent(Prefix(a, f + 1)) = Prefix(a, f)
    <3> DEFINE h == f + 1
    <3>1. h \in 1..Len(a) /\ h - 1 = f
      BY <1>1, <2>2
    <3> HIDE DEF h
    <3>2. Parent(Prefix(a, h)) = Prefix(a, h - 1)
      BY <3>1, ParentOfPrefix
    <3>3. QED
      BY <3>1, <3>2 DEF h
  <2>6. QED
    BY <2>1, <2>3, <2>4, <2>5 DEF LeadsTo, u
<1>4. QED
  BY <1>1, <1>2, <1>3

\* On the way up, every ancestor of b above a is attached.
LEMMA UpdatesThrough ==
    ASSUME NEW a \in Seq(Labels), NEW b \in Seq(Labels), NEW g \in Seq(Labels),
           Len(a) < Len(g), Len(g) <= Len(b), Prefix(b, Len(g)) = g
    PROVE  \E i \in 1..Len(Updates(a, b)) :
              Updates(a, b)[i] = [type |-> "attach", block |-> g]
<1> DEFINE f == ForkHeight(a, b)
           u == Updates(a, b)
           i == Len(a) - f + (Len(g) - f)
<1>1. /\ f \in Nat /\ f <= Len(a) /\ f <= Len(b)
      /\ Len(a) \in Nat /\ Len(b) \in Nat
      /\ Len(u) = (Len(a) - f) + (Len(b) - f)
      /\ \A k \in 1..(Len(b) - f) :
            u[Len(a) - f + k] = [type |-> "attach", block |-> Prefix(b, f + k)]
  BY UpdateParts
<1>2. /\ Len(g) - f \in 1..(Len(b) - f) /\ f + (Len(g) - f) = Len(g)
      /\ i \in 1..Len(u)
  BY <1>1, LenProperties
<1>3. u[i] = [type |-> "attach", block |-> Prefix(b, Len(g))]
  BY <1>1, <1>2
<1> HIDE DEF i, u
<1>4. QED
  BY <1>2, <1>3 DEF u

\* No step is about a block higher than both ends.
LEMMA UpdatesLow ==
    ASSUME NEW a \in Seq(Labels), NEW b \in Seq(Labels),
           NEW i \in 1..Len(Updates(a, b))
    PROVE  LET c == Updates(a, b)[i].block IN Len(c) <= Len(a) \/ Len(c) <= Len(b)
<1> DEFINE f == ForkHeight(a, b)
           u == Updates(a, b)
<1>1. /\ f \in Nat /\ f <= Len(a) /\ f <= Len(b)
      /\ Len(a) \in Nat /\ Len(b) \in Nat
      /\ Len(u) = (Len(a) - f) + (Len(b) - f)
      /\ \A k \in 1..(Len(a) - f) :
            u[k] = [type |-> "detach", block |-> Prefix(a, Len(a) + 1 - k)]
      /\ \A k \in 1..(Len(b) - f) :
            u[Len(a) - f + k] = [type |-> "attach", block |-> Prefix(b, f + k)]
  BY UpdateParts
<1>2. i \in 1..Len(u)
  OBVIOUS
<1> HIDE DEF f, u
<1>3. CASE i <= Len(a) - f
  <2>1. i \in 1..(Len(a) - f) /\ Len(a) + 1 - i \in 0..Len(a)
    BY <1>1, <1>2, <1>3
  <2>a. u[i] = [type |-> "detach", block |-> Prefix(a, Len(a) + 1 - i)]
    BY <1>1, <2>1, Zenon
  <2>2. u[i].block = Prefix(a, Len(a) + 1 - i)
    BY <2>a
  <2>3. Len(Prefix(a, Len(a) + 1 - i)) = Len(a) + 1 - i
    BY <2>1, PrefixParts
  <2>4. QED
    BY <1>1, <2>1, <2>2, <2>3 DEF u
<1>4. CASE ~(i <= Len(a) - f)
  <2> DEFINE k == i - (Len(a) - f)
  <2>1. k \in 1..(Len(b) - f) /\ f + k \in 0..Len(b) /\ Len(a) - f + k = i
    BY <1>1, <1>2, <1>4
  <2> HIDE DEF k
  <2>a. u[i] = [type |-> "attach", block |-> Prefix(b, f + k)]
    BY <1>1, <2>1, Zenon
  <2>2. u[i].block = Prefix(b, f + k)
    BY <2>a
  <2>3. Len(Prefix(b, f + k)) = f + k
    BY <2>1, PrefixParts
  <2>4. QED
    BY <1>1, <2>1, <2>2, <2>3 DEF u
<1>5. QED
  BY <1>3, <1>4

\* Every block of the tree that is high enough descends from the genesis block.
LEMMA AboveGenesis ==
    ASSUME NEW b \in Blocks, b \in Seq(Labels), Len(Genesis) <= Len(b)
    PROVE  Prefix(b, Len(Genesis)) = Genesis
<1>1. Genesis \in Seq(Labels) /\ Len(Genesis) \in Nat /\ Len(b) \in Nat
  BY BlockchainAssumption, LenProperties
<1>2. CASE OnChain(b, Genesis)
  <2>1. Len(b) = Len(Genesis) /\ Prefix(Genesis, Len(Genesis)) = b
    BY <1>1, <1>2 DEF OnChain
  <2>2. QED
    BY <1>1, <2>1, PrefixSelf
<1>3. CASE OnChain(Genesis, b)
  BY <1>3 DEF OnChain
<1>4. QED
  BY <1>2, <1>3 DEF Blocks

\* The numbers up to n are n.
LEMMA CountTo ==
    ASSUME NEW n \in Nat
    PROVE  IsFiniteSet(1..n) /\ Cardinality(1..n) = n
<1>1. 1 \in Int /\ n \in Int
  OBVIOUS
<1>2. /\ IsFiniteSet(1..n)
      /\ Cardinality(1..n) = IF 1 > n THEN 0 ELSE n - 1 + 1
  BY <1>1, FS_Interval, Zenon
<1>3. (IF 1 > n THEN 0 ELSE n - 1 + 1) = n
  OBVIOUS
<1>4. QED
  BY <1>2, <1>3

\* The ancestors two blocks have in common are those up to a height.
LEMMA CommonBelow ==
    ASSUME NEW a \in Seq(Labels), NEW b \in Seq(Labels),
           NEW h \in 1..Len(a), NEW k \in 1..h, OnChain(Prefix(a, h), b)
    PROVE  k \in 1..Len(a) /\ OnChain(Prefix(a, k), b)
<1>1. Len(a) \in Nat /\ Len(b) \in Nat /\ h \in 0..Len(a) /\ k \in 0..Len(a)
      /\ k \in Nat /\ h \in Nat /\ k <= h
  BY LenProperties
<1>2. /\ Prefix(a, h) \in Seq(Labels) /\ Len(Prefix(a, h)) = h
      /\ \A i \in 1..h : Prefix(a, h)[i] = a[i]
  BY <1>1, PrefixParts
<1>3. /\ Prefix(a, k) \in Seq(Labels) /\ Len(Prefix(a, k)) = k
      /\ \A i \in 1..k : Prefix(a, k)[i] = a[i]
  BY <1>1, PrefixParts
<1>4. h <= Len(b) /\ \A i \in 1..h : Prefix(a, h)[i] = b[i]
  BY <1>2, OnChainParts
<1>5. k <= Len(b) /\ \A i \in 1..k : Prefix(a, k)[i] = b[i]
  BY <1>1, <1>2, <1>3, <1>4
<1>6. QED
  BY <1>1, <1>3, <1>5, OnChainParts

\* Two blocks agree up to the height at which they fork.
LEMMA ForkPrefix ==
    ASSUME NEW a \in Seq(Labels), NEW b \in Seq(Labels)
    PROVE  Prefix(a, ForkHeight(a, b)) = Prefix(b, ForkHeight(a, b))
<1> DEFINE S == {h \in 1..Len(a) : OnChain(Prefix(a, h), b)}
           f == ForkHeight(a, b)
<1>1. /\ Len(a) \in Nat /\ Len(b) \in Nat
      /\ f \in Nat /\ f <= Len(a) /\ f <= Len(b) /\ f = Cardinality(S)
  BY LenProperties, ForkHeightType DEF ForkHeight
<1>2. CASE f = 0
  <2>1. f \in 0..Len(a) /\ f \in 0..Len(b)
    BY <1>1
  <2>2. /\ Prefix(a, f) \in Seq(Labels) /\ Len(Prefix(a, f)) = f
        /\ Prefix(b, f) \in Seq(Labels) /\ Len(Prefix(b, f)) = f
    BY <2>1, PrefixParts
  <2>3. QED
    BY <1>2, <2>2, EmptySeq
<1>3. CASE f # 0
  <2>1. f \in S
    <3> SUFFICES ASSUME f \notin S PROVE FALSE
      OBVIOUS
    <3>1. ASSUME NEW h \in S PROVE h \in 1..(f - 1)
      <4>1. h \in 1..Len(a) /\ OnChain(Prefix(a, h), b)
        OBVIOUS
      <4>2. ASSUME f <= h PROVE FALSE
        <5>1. f \in 1..h
          BY <1>1, <1>3, <4>1, <4>2
        <5>2. f \in 1..Len(a) /\ OnChain(Prefix(a, f), b)
          BY <4>1, <5>1, CommonBelow
        <5>3. QED
          BY <5>2
      <4>3. QED
        BY <1>1, <4>1, <4>2
    <3>2. IsFiniteSet(1..(f - 1)) /\ Cardinality(1..(f - 1)) = f - 1
      BY <1>1, <1>3, CountTo
    <3> HIDE DEF S
    <3>3. S \in SUBSET (1..(f - 1))
      BY <3>1
    <3>4. Cardinality(S) <= f - 1
      BY <3>2, <3>3, FS_Subset
    <3>5. QED
      BY <1>1, <3>4
  <2>2. f \in 0..Len(a) /\ OnChain(Prefix(a, f), b)
    BY <1>1, <2>1
  <2>3. Len(Prefix(a, f)) = f
    BY <2>2, PrefixParts
  <2>4. QED
    BY <2>2, <2>3 DEF OnChain
<1>4. QED
  BY <1>2, <1>3

\* Two blocks fork no lower than a common ancestor.
LEMMA ForkAbove ==
    ASSUME NEW a \in Seq(Labels), NEW b \in Seq(Labels),
           NEW g \in Seq(Labels), OnChain(g, a), OnChain(g, b)
    PROVE  ForkHeight(a, b) >= Len(g)
<1> DEFINE S == {h \in 1..Len(a) : OnChain(Prefix(a, h), b)}
           f == ForkHeight(a, b)
<1>1. /\ Len(a) \in Nat /\ Len(b) \in Nat /\ Len(g) \in Nat
      /\ f \in Nat /\ f = Cardinality(S)
  BY LenProperties, ForkHeightType DEF ForkHeight
<1>2. Len(g) <= Len(a) /\ Prefix(a, Len(g)) = g
  BY DEF OnChain
<1>3. ASSUME NEW k \in 1..Len(g) PROVE k \in S
  <2>1. Len(g) \in 1..Len(a)
    BY <1>1, <1>2
  <2>2. QED
    BY <1>2, <2>1, CommonBelow
<1>4. IsFiniteSet(S)
  <2>1. IsFiniteSet(1..Len(a))
    BY <1>1, FS_Interval
  <2>2. S \in SUBSET (1..Len(a))
    OBVIOUS
  <2> HIDE DEF S
  <2>3. QED
    BY <2>1, <2>2, FS_Subset
<1>5. Cardinality(1..Len(g)) = Len(g)
  BY <1>1, CountTo
<1> HIDE DEF S, f
<1>6. 1..Len(g) \in SUBSET S
  BY <1>3
<1>7. Len(g) <= Cardinality(S)
  BY <1>4, <1>5, <1>6, FS_Subset
<1>8. QED
  BY <1>1, <1>7 DEF f

\* A block is the genesis block, an ancestor or a descendant of it.
NearGenesis(b) == OnChain(b, Genesis) \/ OnChain(Genesis, b)

\* The way from one block of the tree to another one that is not lower leaves
\* the genesis block where it is: it is detached by no step.
LEMMA ForkAboveGenesis ==
    ASSUME NEW a \in Seq(Labels), NEW b \in Seq(Labels),
           NearGenesis(a), NearGenesis(b), Len(a) <= Len(b)
    PROVE  ForkHeight(a, b) >= Len(Genesis) \/ ForkHeight(a, b) >= Len(a)
<1>1. /\ Genesis \in Seq(Labels) /\ Len(Genesis) \in Nat
      /\ Len(a) \in Nat /\ Len(b) \in Nat
  BY BlockchainAssumption, LenProperties
<1>2. CASE OnChain(Genesis, a) /\ OnChain(Genesis, b)
  BY <1>1, <1>2, ForkAbove
<1>3. CASE OnChain(a, Genesis)
  <2>1. Len(a) <= Len(Genesis) /\ \A i \in 1..Len(a) : a[i] = Genesis[i]
    BY <1>1, <1>3, OnChainParts
  <2>2. \/ Len(b) <= Len(Genesis) /\ \A i \in 1..Len(b) : b[i] = Genesis[i]
        \/ Len(Genesis) <= Len(b) /\ \A i \in 1..Len(Genesis) : Genesis[i] = b[i]
    BY <1>1, OnChainParts DEF NearGenesis
  <2>3. \A i \in 1..Len(a) : a[i] = b[i]
    <3> SUFFICES ASSUME NEW i \in 1..Len(a) PROVE a[i] = b[i]
      OBVIOUS
    <3>1. i \in 1..Len(b) /\ i \in 1..Len(Genesis)
      BY <1>1, <2>1
    <3>2. QED
      BY <2>1, <2>2, <3>1
  <2>4. OnChain(a, b)
    BY <2>3, OnChainParts
  <2>5. OnChain(a, a)
    BY <1>1, OnChainParts
  <2>6. QED
    BY <2>4, <2>5, ForkAbove
<1>4. CASE OnChain(Genesis, a) /\ OnChain(b, Genesis)
  <2>1. /\ Len(Genesis) <= Len(a) /\ \A i \in 1..Len(Genesis) : Genesis[i] = a[i]
        /\ Len(b) <= Len(Genesis) /\ \A i \in 1..Len(b) : b[i] = Genesis[i]
    BY <1>1, <1>4, OnChainParts
  <2>2. Len(b) = Len(Genesis) /\ Len(a) = Len(Genesis)
    BY <1>1, <2>1
  <2>3. OnChain(Genesis, b)
    BY <1>1, <2>1, <2>2, OnChainParts
  <2>4. QED
    BY <1>2, <1>4, <2>3
<1>5. QED
  BY <1>2, <1>3, <1>4 DEF NearGenesis

\* The ancestors of a block of the tree are blocks of the tree.
LEMMA PrefixNear ==
    ASSUME NEW a \in Seq(Labels), NearGenesis(a), NEW h \in 0..Len(a)
    PROVE  NearGenesis(Prefix(a, h))
<1>1. /\ Genesis \in Seq(Labels) /\ Len(Genesis) \in Nat
      /\ Len(a) \in Nat /\ h \in Nat /\ h <= Len(a)
  BY BlockchainAssumption, LenProperties
<1>2. /\ Prefix(a, h) \in Seq(Labels) /\ Len(Prefix(a, h)) = h
      /\ \A i \in 1..h : Prefix(a, h)[i] = a[i]
  BY PrefixParts
<1>3. \/ Len(a) <= Len(Genesis) /\ \A i \in 1..Len(a) : a[i] = Genesis[i]
      \/ Len(Genesis) <= Len(a) /\ \A i \in 1..Len(Genesis) : Genesis[i] = a[i]
  BY <1>1, OnChainParts DEF NearGenesis
<1>4. CASE h <= Len(Genesis)
  <2>1. \A i \in 1..h : Prefix(a, h)[i] = Genesis[i]
    <3> SUFFICES ASSUME NEW i \in 1..h PROVE Prefix(a, h)[i] = Genesis[i]
      OBVIOUS
    <3>1. i \in 1..Len(a) /\ i \in 1..Len(Genesis) /\ Prefix(a, h)[i] = a[i]
      BY <1>1, <1>2, <1>4
    <3>2. QED
      BY <1>3, <3>1
  <2>2. QED
    BY <1>1, <1>2, <1>4, <2>1, OnChainParts DEF NearGenesis
<1>5. CASE ~(h <= Len(Genesis))
  <2>1. \A i \in 1..Len(Genesis) : Genesis[i] = Prefix(a, h)[i]
    <3> SUFFICES ASSUME NEW i \in 1..Len(Genesis) PROVE Genesis[i] = Prefix(a, h)[i]
      OBVIOUS
    <3>1. i \in 1..Len(a) /\ i \in 1..h /\ Prefix(a, h)[i] = a[i]
      BY <1>1, <1>2, <1>5
    <3>2. QED
      BY <1>3, <3>1
  <2>2. QED
    BY <1>1, <1>2, <1>5, <2>1, OnChainParts DEF NearGenesis
<1>6. QED
  BY <1>4, <1>5

\* The block a step leads from, and the one it leads to.
StepFrom(u) == IF u.type = "attach" THEN Parent(u.block) ELSE u.block
StepTo(u) == IF u.type = "attach" THEN u.block ELSE Parent(u.block)

\* The steps from block a to block b are connected: each starts where the one
\* before ended.  To a block that is not lower, they keep the genesis block.
LEMMA UpdatesPath ==
    ASSUME NEW a \in Seq(Labels), NEW b \in Seq(Labels),
           NearGenesis(a), NearGenesis(b), Len(a) <= Len(b)
    PROVE  LET u == Updates(a, b)
           IN  \E p \in [0..Len(u) -> Seq(Labels)] :
                  /\ p[0] = a /\ p[Len(u)] = b
                  /\ \A i \in 0..Len(u) :
                        /\ NearGenesis(p[i])
                        /\ Len(a) < Len(b) => p[i] = b \/ Len(p[i]) < Len(b)
                  /\ \A i \in 1..Len(u) :
                        /\ p[i - 1] = StepFrom(u[i]) /\ p[i] = StepTo(u[i])
                        /\ u[i].type = "detach" => Len(u[i].block) > Len(Genesis)
                        /\ Len(a) < Len(b) => Len(p[i - 1]) < Len(b)
<1> DEFINE u == Updates(a, b)
           f == ForkHeight(a, b)
           d == Len(a) - f
           e == Len(b) - f
           p == [i \in 0..Len(u) |-> IF i <= d THEN Prefix(a, Len(a) - i)
                                     ELSE Prefix(b, f + (i - d))]
<1>1. /\ f \in Nat /\ f <= Len(a) /\ f <= Len(b)
      /\ Len(a) \in Nat /\ Len(b) \in Nat /\ Len(Genesis) \in Nat
      /\ Len(u) = d + e /\ d \in Nat /\ e \in Nat
  <2>1. /\ f \in Nat /\ f <= Len(a) /\ f <= Len(b)
        /\ Len(a) \in Nat /\ Len(b) \in Nat /\ Len(u) = d + e
    BY UpdateParts
  <2>2. Len(Genesis) \in Nat
    BY BlockchainAssumption, LenProperties
  <2> HIDE DEF u, f
  <2>3. QED
    BY <2>1, <2>2
<1>2. \A i \in 1..d :
         u[i] = [type |-> "detach", block |-> Prefix(a, Len(a) + 1 - i)]
  BY UpdateParts
<1>3. \A j \in 1..e : u[d + j] = [type |-> "attach", block |-> Prefix(b, f + j)]
  BY UpdateParts
<1>4. f >= Len(Genesis) \/ f >= Len(a)
  BY ForkAboveGenesis
<1>5. Prefix(a, f) = Prefix(b, f)
  BY ForkPrefix
<1> HIDE DEF u, f
<1>6. \A i \in 0..d : i \in 0..Len(u) /\ p[i] = Prefix(a, Len(a) - i)
  BY <1>1
<1>7. \A j \in 0..e : d + j \in 0..Len(u) /\ p[d + j] = Prefix(b, f + j)
  <2> SUFFICES ASSUME NEW j \in 0..e
               PROVE  d + j \in 0..Len(u) /\ p[d + j] = Prefix(b, f + j)
    OBVIOUS
  <2>1. d + j \in 0..Len(u)
    BY <1>1
  <2>2. CASE j = 0
    <3>1. d + j = d /\ d \in 0..d /\ Len(a) - d = f /\ f + j = f
      BY <1>1, <2>2
    <3> HIDE DEF p, d
    <3>2. p[d] = Prefix(a, Len(a) - d)
      BY <1>6, <3>1
    <3>3. QED
      BY <1>5, <2>1, <3>1, <3>2
  <2>3. CASE j # 0
    <3>1. ~(d + j <= d) /\ f + ((d + j) - d) = f + j
      BY <1>1, <2>3
    <3>2. p[d + j] = IF d + j <= d THEN Prefix(a, Len(a) - (d + j))
                     ELSE Prefix(b, f + ((d + j) - d))
      BY <2>1
    <3> HIDE DEF p, d
    <3>3. QED
      BY <2>1, <3>1, <3>2
  <2>4. QED
    BY <2>2, <2>3
<1>8. \A i \in 0..Len(u) : \/ i \in 0..d
                           \/ \E j \in 1..e : i = d + j
  <2> SUFFICES ASSUME NEW i \in 0..Len(u), ~(i \in 0..d)
               PROVE  \E j \in 1..e : i = d + j
    OBVIOUS
  <2>1. i - d \in 1..e /\ i = d + (i - d)
    BY <1>1
  <2>2. QED
    BY <2>1
<1>9. p \in [0..Len(u) -> Seq(Labels)]
      /\ \A i \in 0..Len(u) :
            /\ NearGenesis(p[i])
            /\ Len(a) < Len(b) => p[i] = b \/ Len(p[i]) < Len(b)
  <2>1. DOMAIN p = 0..Len(u) /\ p = [i \in 0..Len(u) |-> p[i]]
    OBVIOUS
  <2> HIDE DEF p
  <2>2. ASSUME NEW i \in 0..Len(u)
        PROVE  /\ p[i] \in Seq(Labels) /\ NearGenesis(p[i])
               /\ Len(a) < Len(b) => p[i] = b \/ Len(p[i]) < Len(b)
    <3>1. CASE i \in 0..d
      <4>1. Len(a) - i \in 0..Len(a)
        BY <1>1, <3>1
      <4>2. Prefix(a, Len(a) - i) \in Seq(Labels) /\ Len(Prefix(a, Len(a) - i)) = Len(a) - i
        BY <4>1, PrefixParts
      <4>3. NearGenesis(Prefix(a, Len(a) - i))
        BY <4>1, PrefixNear
      <4>4. p[i] = Prefix(a, Len(a) - i)
        BY <1>6, <3>1
      <4> HIDE DEF d, e
      <4>5. QED
        BY <1>1, <4>1, <4>2, <4>3, <4>4
    <3>2. CASE \E j \in 1..e : i = d + j
      <4>1. PICK j \in 1..e : i = d + j
        BY <3>2
      <4>2. j \in 0..e /\ f + j \in 0..Len(b)
        BY <1>1
      <4>3. Prefix(b, f + j) \in Seq(Labels) /\ Len(Prefix(b, f + j)) = f + j
        BY <4>2, PrefixParts
      <4>4. NearGenesis(Prefix(b, f + j))
        BY <4>2, PrefixNear
      <4>5. p[i] = Prefix(b, f + j)
        BY <1>7, <4>1, <4>2
      <4>6. Prefix(b, Len(b)) = b
        BY PrefixSelf
      <4>7. f + j = Len(b) \/ f + j < Len(b)
        BY <1>1, <4>2
      <4> HIDE DEF d, e
      <4>8. QED
        BY <4>3, <4>4, <4>5, <4>6, <4>7
    <3>3. QED
      BY <1>8, <3>1, <3>2
  <2>3. QED
    BY <2>1, <2>2
<1>10. ASSUME NEW i \in 1..Len(u)
       PROVE  /\ p[i - 1] = StepFrom(u[i]) /\ p[i] = StepTo(u[i])
              /\ u[i].type = "detach" => Len(u[i].block) > Len(Genesis)
              /\ Len(a) < Len(b) => Len(p[i - 1]) < Len(b)
  <2> HIDE DEF p
  <2>1. CASE i \in 0..d
    <3>1. /\ i \in 1..d /\ i - 1 \in 0..d /\ Len(a) + 1 - i \in 1..Len(a)
          /\ Len(a) - (i - 1) = Len(a) + 1 - i /\ (Len(a) + 1 - i) - 1 = Len(a) - i
          /\ Len(a) + 1 - i \in 0..Len(a) /\ Len(a) + 1 - i > f
          /\ i \in Nat /\ i >= 1
      BY <1>1, <2>1
    <3>a. u[i] = [type |-> "detach", block |-> Prefix(a, Len(a) + 1 - i)]
      BY <1>2, <3>1, Zenon
    <3>2. u[i].type = "detach" /\ u[i].block = Prefix(a, Len(a) + 1 - i)
      BY <3>a
    <3>3. p[i - 1] = Prefix(a, Len(a) + 1 - i) /\ p[i] = Prefix(a, Len(a) - i)
      <4>1. p[i - 1] = Prefix(a, Len(a) - (i - 1))
        BY <1>6, <3>1
      <4>2. p[i] = Prefix(a, Len(a) - i)
        BY <1>6, <2>1
      <4>3. QED
        BY <3>1, <4>1, <4>2
    <3>4. Parent(Prefix(a, Len(a) + 1 - i)) = Prefix(a, Len(a) - i)
      BY <3>1, ParentOfPrefix
    <3>5. Len(Prefix(a, Len(a) + 1 - i)) = Len(a) + 1 - i
      BY <3>1, PrefixParts
    <3>6. Len(a) + 1 - i > Len(Genesis) /\ Len(a) + 1 - i <= Len(a)
      <4> HIDE DEF d, e
      <4>1. i \in Nat /\ i >= 1 /\ Len(a) + 1 - i > f
        BY <3>1
      <4>2. QED
        BY <1>1, <1>4, <4>1
    <3>7. p[i - 1] = StepFrom(u[i]) /\ p[i] = StepTo(u[i])
      BY <3>2, <3>3, <3>4 DEF StepFrom, StepTo
    <3> HIDE DEF d, e
    <3>8. Len(u[i].block) > Len(Genesis)
      BY <3>2, <3>5, <3>6
    <3>9. Len(a) < Len(b) => Len(p[i - 1]) < Len(b)
      <4>1. Len(p[i - 1]) = Len(a) + 1 - i /\ i \in Nat
        BY <3>1, <3>3, <3>5
      <4>2. QED
        BY <1>1, <3>6, <4>1
    <3>10. QED
      BY <3>7, <3>8, <3>9
  <2>2. CASE \E j \in 1..e : i = d + j
    <3>1. PICK j \in 1..e : i = d + j
      BY <2>2
    <3>2. /\ j \in 0..e /\ j - 1 \in 0..e /\ i - 1 = d + (j - 1)
          /\ f + j \in 1..Len(b) /\ (f + j) - 1 = f + (j - 1)
          /\ f + (j - 1) \in 0..Len(b) /\ f + (j - 1) < Len(b)
      BY <1>1, <3>1
    <3>a. u[d + j] = [type |-> "attach", block |-> Prefix(b, f + j)]
      BY <1>3, <3>1, Zenon
    <3>3. u[i].type = "attach" /\ u[i].block = Prefix(b, f + j)
      BY <3>1, <3>a
    <3>4. p[i - 1] = Prefix(b, f + (j - 1)) /\ p[i] = Prefix(b, f + j)
      <4>1. p[d + (j - 1)] = Prefix(b, f + (j - 1))
        BY <1>7, <3>2
      <4>2. p[d + j] = Prefix(b, f + j)
        BY <1>7, <3>2
      <4>3. QED
        BY <3>1, <3>2, <4>1, <4>2
    <3>5. Parent(Prefix(b, f + j)) = Prefix(b, f + (j - 1))
      BY <3>2, ParentOfPrefix
    <3>6. Len(Prefix(b, f + (j - 1))) = f + (j - 1)
      BY <3>2, PrefixParts
    <3>7. p[i - 1] = StepFrom(u[i]) /\ p[i] = StepTo(u[i])
      BY <3>3, <3>4, <3>5 DEF StepFrom, StepTo
    <3> HIDE DEF d, e
    <3>8. Len(p[i - 1]) < Len(b)
      BY <3>2, <3>4, <3>6
    <3>9. QED
      BY <3>3, <3>7, <3>8
  <2>3. i \in 0..Len(u)
    BY <1>1
  <2>4. QED
    BY <1>8, <2>1, <2>2, <2>3
<1>11. p[0] = a /\ p[Len(u)] = b
  <2>1. 0 \in 0..d /\ e \in 0..e /\ Len(a) - 0 = Len(a) /\ f + e = Len(b) /\ d + e = Len(u)
    BY <1>1
  <2>2. Prefix(a, Len(a)) = a /\ Prefix(b, Len(b)) = b
    BY PrefixSelf
  <2> HIDE DEF p
  <2>3. p[0] = Prefix(a, Len(a) - 0)
    BY <1>6, <2>1
  <2>4. p[d + e] = Prefix(b, f + e)
    BY <1>7, <2>1
  <2> HIDE DEF d, e
  <2>5. QED
    BY <2>1, <2>2, <2>3, <2>4
<1> HIDE DEF p
<1>12. QED
  BY <1>9, <1>10, <1>11 DEF u

\* The blocks of the tree.
LEMMA BlockType ==
    ASSUME NEW b \in Blocks
    PROVE  b \in Seq(Labels) /\ NearGenesis(b)
<1>1. PICK h \in 0..MaxHeight : b \in [1..h -> Labels]
  BY DEF Blocks
<1>2. b \in Seq(Labels)
  BY <1>1, BlockchainAssumption, IsASeq
<1>3. QED
  BY <1>2 DEF Blocks, NearGenesis

\* The only ancestor of a block that its parent has not is the block itself.
LEMMA OnChainTop ==
    ASSUME NEW c \in Seq(Labels), NEW b \in Seq(Labels) \ {<<>>},
           OnChain(c, b), ~OnChain(c, Parent(b))
    PROVE  c = b
<1>1. /\ b \in Seq(Labels) /\ Parent(b) \in Seq(Labels) /\ Len(Parent(b)) = Len(b) - 1
      /\ Len(b) \in Nat \ {0} /\ Len(c) \in Nat
  BY ParentType, LenProperties
<1>2. Len(c) <= Len(b) /\ \A i \in 1..Len(c) : c[i] = b[i]
  BY <1>1, OnChainParts
<1>3. CASE Len(c) = Len(b)
  <2>1. Prefix(b, Len(b)) = c
    BY <1>3 DEF OnChain
  <2>2. QED
    BY <1>1, <2>1, PrefixSelf
<1>4. CASE Len(c) # Len(b)
  <2>1. Len(b) - 1 \in 0..Len(b) /\ Len(c) <= Len(b) - 1
    BY <1>1, <1>2, <1>4
  <2>2. \A i \in 1..(Len(b) - 1) : Parent(b)[i] = b[i]
    BY <1>1, <2>1, PrefixParts DEF Parent
  <2>3. \A i \in 1..Len(c) : c[i] = Parent(b)[i]
    BY <1>1, <1>2, <2>1, <2>2
  <2>4. QED
    BY <1>1, <2>1, <2>3, OnChainParts
<1>5. QED
  BY <1>3, <1>4
=============================================================================
