-------------------------- MODULE ShipsLogicProofs --------------------------
(***************************************************************************)
(* Safety of the on-chain part of Xayaships for every board game of two    *)
(* players, every set of names and txids, and every bound on heights and   *)
(* moves.                                                                  *)
(***************************************************************************)
EXTENDS ShipsLogic, StateProofTheorems, FiniteSetTheorems, SequenceTheorems

-----------------------------------------------------------------------------
(* Sums over a finite set, as the fold in Total computes them. *)

Picked(s) == CHOOSE x \in s : TRUE

SumStep(f, S, g) ==
    [s \in SUBSET S |-> IF s = {} THEN 0
                        ELSE f[Picked(s)] + g[s \ {Picked(s)}]]

Sums(f, S) == CHOOSE g : g = SumStep(f, S, g)

LEMMA PickedIn ==
    ASSUME NEW s, s # {}
    PROVE  Picked(s) \in s
  BY Zenon DEF Picked

(* What holds of the empty set, and of a set if of that set without the    *)
(* element that the fold picks, holds of all subsets.                      *)
LEMMA SubsetInduction ==
    ASSUME NEW S, IsFiniteSet(S), NEW G, {} \in G,
           \A s \in SUBSET S : s # {} /\ s \ {Picked(s)} \in G => s \in G
    PROVE  SUBSET S \subseteq G
<1> DEFINE T == {n \in Nat : \E s \in SUBSET S : s \notin G /\ Cardinality(s) = n}
<1>1. ASSUME NEW s \in SUBSET S
      PROVE  IsFiniteSet(s) /\ Cardinality(s) \in Nat
  BY FS_Subset, FS_CardinalityType
<1>2. T = {}
  <2> SUFFICES ASSUME T # {} PROVE FALSE
    OBVIOUS
  <2>1. PICK n \in T : \A y \in T : n <= y
    BY LeastNumber
  <2>2. PICK s \in SUBSET S : s \notin G /\ Cardinality(s) = n
    BY <2>1
  <2>3. s # {} /\ Picked(s) \in s
    BY <2>2, PickedIn
  <2> DEFINE t == s \ {Picked(s)}
  <2>4. t \in SUBSET S /\ Cardinality(t) = n - 1 /\ Cardinality(t) \in Nat
    BY <1>1, <2>2, <2>3, FS_RemoveElement
  <2>5. t \notin G
    BY <2>2, <2>3
  <2>6. n - 1 \in T
    BY <2>4, <2>5
  <2>7. n \in Nat /\ n <= n - 1
    BY <2>1, <2>6
  <2>8. QED
    BY <2>7
<1>3. QED
  BY <1>1, <1>2

(* The fold is well defined. *)
LEMMA SumsDefined ==
    ASSUME NEW S, IsFiniteSet(S), NEW f \in [S -> Nat]
    PROVE  Sums(f, S) = SumStep(f, S, Sums(f, S))
<1> DEFINE Small(n) == {s \in SUBSET S : Cardinality(s) <= n}
           Partly(n) == {g \in [Small(n) -> Nat] : \A s \in Small(n) :
                           g[s] = IF s = {} THEN 0
                                  ELSE f[Picked(s)] + g[s \ {Picked(s)}]}
           T == {n \in Nat : Partly(n) = {}}
<1>1. ASSUME NEW s \in SUBSET S
      PROVE  IsFiniteSet(s) /\ Cardinality(s) \in Nat /\ Cardinality(s) <= Cardinality(S)
  BY FS_Subset, FS_CardinalityType
<1>2. ASSUME NEW s \in SUBSET S, s # {}
      PROVE  /\ Picked(s) \in S /\ s \ {Picked(s)} \in SUBSET S
             /\ Cardinality(s \ {Picked(s)}) = Cardinality(s) - 1
             /\ Cardinality(s) > 0
  <2>1. Picked(s) \in s
    BY <1>2, PickedIn
  <2>2. IsFiniteSet(s) /\ Cardinality(s) \in Nat
    BY <1>1
  <2>3. Cardinality(s \ {Picked(s)}) = Cardinality(s) - 1
    BY <2>1, <2>2, FS_RemoveElement
  <2>4. Cardinality(s) # 0
    BY <1>2, <2>2, FS_EmptySet
  <2>5. QED
    BY <2>1, <2>2, <2>3, <2>4
<1>3. T = {}
  <2> SUFFICES ASSUME T # {} PROVE FALSE
    OBVIOUS
  <2>1. PICK n \in T : \A y \in T : n <= y
    BY LeastNumber
  <2>2. n \in Nat /\ Partly(n) = {}
    BY <2>1
  <2>3. CASE n = 0
    <3>1. Small(0) = {{}}
      <4>1. ASSUME NEW s \in Small(0), s # {} PROVE FALSE
        <5>1. s \in SUBSET S /\ Cardinality(s) <= 0
          OBVIOUS
        <5>2. Cardinality(s) > 0 /\ Cardinality(s) \in Nat
          BY <1>1, <1>2, <4>1, <5>1
        <5>3. QED
          BY <5>1, <5>2
      <4>2. {} \in Small(0)
        BY FS_EmptySet
      <4>3. QED
        BY <4>1, <4>2
    <3> DEFINE z == [s \in Small(0) |-> 0]
    <3>2. z \in [Small(0) -> Nat] /\ \A s \in Small(0) : s = {} /\ z[s] = 0
      BY <3>1
    <3>3. z \in Partly(0)
      BY <3>2
    <3>4. QED
      BY <2>2, <2>3, <3>3
  <2>4. CASE n # 0
    <3>1. n - 1 \in Nat /\ n - 1 \notin T
      <4> HIDE DEF T
      <4>1. n - 1 \in Nat /\ ~(n <= n - 1)
        BY <2>2, <2>4
      <4>2. QED
        BY <2>1, <4>1
    <3>2. PICK g \in Partly(n - 1) : TRUE
      BY <3>1
    <3>3. /\ g \in [Small(n - 1) -> Nat]
          /\ \A s \in Small(n - 1) :
                g[s] = IF s = {} THEN 0 ELSE f[Picked(s)] + g[s \ {Picked(s)}]
      BY <3>2
    <3>4. \A s \in Small(n) : s # {} => /\ Picked(s) \in S
                                        /\ s \ {Picked(s)} \in Small(n - 1)
                                        /\ s \ {Picked(s)} \in Small(n)
      BY <1>1, <1>2, <2>2
    <3>5. \A s \in Small(n) : s \in Small(n - 1) => g[s] \in Nat
      BY <3>3
    <3> DEFINE h == [s \in Small(n) |->
                        IF s = {} THEN 0
                        ELSE f[Picked(s)] + g[s \ {Picked(s)}]]
    <3>6. \A s \in Small(n) : s \in Small(n - 1) => h[s] = g[s]
      BY <3>3
    <3>7. h \in [Small(n) -> Nat]
      BY <3>3, <3>4
    <3>8. \A s \in Small(n) : h[s] = IF s = {} THEN 0
                                     ELSE f[Picked(s)] + h[s \ {Picked(s)}]
      <4> HIDE DEF Small
      <4> SUFFICES ASSUME NEW s \in Small(n)
                   PROVE  h[s] = IF s = {} THEN 0
                                 ELSE f[Picked(s)] + h[s \ {Picked(s)}]
        OBVIOUS
      <4>1. h[s] = IF s = {} THEN 0 ELSE f[Picked(s)] + g[s \ {Picked(s)}]
        OBVIOUS
      <4>2. s # {} => h[s \ {Picked(s)}] = g[s \ {Picked(s)}]
        <5> HIDE DEF h
        <5>1. QED
          BY <3>4, <3>6
      <4> HIDE DEF h
      <4>3. QED
        BY <4>1, <4>2
    <3>9. h \in Partly(n)
      BY <3>7, <3>8
    <3>10. QED
      BY <2>2, <3>9
  <2>5. QED
    BY <2>3, <2>4
<1>4. Cardinality(S) \in Nat /\ Small(Cardinality(S)) = SUBSET S
  BY <1>1
<1>5. PICK g \in Partly(Cardinality(S)) : TRUE
  <2> HIDE DEF Partly
  <2>1. QED
    BY <1>3, <1>4
<1>6. g = SumStep(f, S, g)
  <2>1. /\ g \in [SUBSET S -> Nat]
        /\ \A s \in SUBSET S :
              g[s] = IF s = {} THEN 0 ELSE f[Picked(s)] + g[s \ {Picked(s)}]
    BY <1>4, <1>5
  <2>2. QED
    BY <2>1 DEF SumStep
<1>7. QED
  BY <1>6, Zenon DEF Sums

LEMMA SumsSteps ==
    ASSUME NEW S, IsFiniteSet(S), NEW f \in [S -> Nat]
    PROVE  /\ Sums(f, S)[{}] = 0
           /\ \A s \in SUBSET S : s # {} =>
                 Sums(f, S)[s] = f[Picked(s)] + Sums(f, S)[s \ {Picked(s)}]
<1> DEFINE g == Sums(f, S)
<1>1. g = SumStep(f, S, g)
  BY SumsDefined
<1> HIDE DEF g
<1>2. g[{}] = 0 /\ \A s \in SUBSET S : s # {} =>
                      g[s] = f[Picked(s)] + g[s \ {Picked(s)}]
  BY <1>1 DEF SumStep
<1>3. QED
  BY <1>2 DEF g

(* Sums are numbers, and add up pointwise. *)
LEMMA SumsAdd ==
    ASSUME NEW S, IsFiniteSet(S), NEW f \in [S -> Nat], NEW g \in [S -> Nat],
           NEW h \in [S -> Nat], \A n \in S : h[n] = f[n] + g[n]
    PROVE  \A s \in SUBSET S :
              /\ Sums(f, S)[s] \in Nat /\ Sums(g, S)[s] \in Nat
              /\ Sums(h, S)[s] = Sums(f, S)[s] + Sums(g, S)[s]
<1> DEFINE F == Sums(f, S)
           G == Sums(g, S)
           H == Sums(h, S)
           Good == {s \in SUBSET S : /\ F[s] \in Nat /\ G[s] \in Nat
                                     /\ H[s] = F[s] + G[s]}
<1>1. /\ F[{}] = 0 /\ G[{}] = 0 /\ H[{}] = 0
      /\ \A s \in SUBSET S : s # {} =>
            /\ F[s] = f[Picked(s)] + F[s \ {Picked(s)}]
            /\ G[s] = g[Picked(s)] + G[s \ {Picked(s)}]
            /\ H[s] = h[Picked(s)] + H[s \ {Picked(s)}]
  BY SumsSteps
<1> HIDE DEF F, G, H
<1>2. {} \in Good
  BY <1>1
<1>3. ASSUME NEW s \in SUBSET S, s # {}, s \ {Picked(s)} \in Good
      PROVE  s \in Good
  <2> DEFINE x == Picked(s)
             t == s \ {x}
  <2>1. x \in S
    BY <1>3, PickedIn
  <2>2. f[x] \in Nat /\ g[x] \in Nat /\ h[x] = f[x] + g[x]
    BY <2>1
  <2>3. F[t] \in Nat /\ G[t] \in Nat /\ H[t] = F[t] + G[t]
    BY <1>3
  <2>4. F[s] = f[x] + F[t] /\ G[s] = g[x] + G[t] /\ H[s] = h[x] + H[t]
    BY <1>1, <1>3
  <2> HIDE DEF x, t
  <2>5. QED
    BY <2>2, <2>3, <2>4
<1>4. SUBSET S \subseteq Good
  <2> HIDE DEF Good
  <2>1. QED
    BY <1>2, <1>3, SubsetInduction
<1>5. QED
  BY <1>4 DEF F, G, H

(* Counting the members of a set by a value of theirs counts all of them. *)
LEMMA SumsCount ==
    ASSUME NEW S, IsFiniteSet(S), NEW D, IsFiniteSet(D), NEW v \in [D -> S],
           NEW f \in [S -> Nat],
           \A n \in S : f[n] = Cardinality({id \in D : v[id] = n})
    PROVE  Sums(f, S)[S] = Cardinality(D)
<1> DEFINE F == Sums(f, S)
           At(s) == {id \in D : v[id] \in s}
           Good == {s \in SUBSET S : F[s] = Cardinality(At(s))}
<1>1. /\ F[{}] = 0
      /\ \A s \in SUBSET S : s # {} => F[s] = f[Picked(s)] + F[s \ {Picked(s)}]
  BY SumsSteps
<1> HIDE DEF F
<1>2. {} \in Good
  <2>1. At({}) = {}
    OBVIOUS
  <2>2. QED
    BY <1>1, <2>1, FS_EmptySet
<1>3. ASSUME NEW s \in SUBSET S, s # {}, s \ {Picked(s)} \in Good
      PROVE  s \in Good
  <2> DEFINE x == Picked(s)
             A == {id \in D : v[id] = x}
             B == At(s \ {x})
  <2>1. x \in s /\ x \in S
    BY <1>3, PickedIn
  <2>2. F[s] = f[x] + F[s \ {x}] /\ F[s \ {x}] = Cardinality(B)
    BY <1>1, <1>3
  <2>3. f[x] = Cardinality(A)
    BY <2>1
  <2>4. At(s) = A \cup B /\ A \cap B = {}
    BY <2>1
  <2>5. IsFiniteSet(A) /\ IsFiniteSet(B)
    BY FS_Subset
  <2> HIDE DEF A, B
  <2>6. /\ Cardinality(A \cup B) = Cardinality(A) + Cardinality(B) - Cardinality(A \cap B)
        /\ Cardinality(A \cap B) = 0
    BY <2>4, <2>5, FS_Union, FS_EmptySet
  <2>7. Cardinality(A) \in Nat /\ Cardinality(B) \in Nat
    BY <2>5, FS_CardinalityType
  <2>8. F[s] = Cardinality(At(s))
    <3>1. F[s] = Cardinality(A) + Cardinality(B)
      BY <2>2, <2>3
    <3>2. Cardinality(A \cup B) = Cardinality(A) + Cardinality(B)
      BY <2>6, <2>7
    <3>3. QED
      BY <2>4, <3>1, <3>2
  <2>9. QED
    BY <2>8
<1>4. SUBSET S \subseteq Good
  <2> HIDE DEF Good
  <2>1. QED
    BY <1>2, <1>3, SubsetInduction
<1>5. F[S] = Cardinality(At(S)) /\ At(S) = D
  BY <1>4
<1>6. QED
  BY <1>5 DEF F

LEMMA TotalIsSum ==
    ASSUME NEW f \in [Names -> Nat]
    PROVE  Total(f) = Sums(f, Names)[Names]
  BY Zenon DEF Total, MapThenSumSet, MapThenFoldSet, Sums, SumStep, Picked

(* Adding to f, for each name, the number of channels in D that have it    *)
(* raises the total by the number of channels.                             *)
LEMMA TotalGrows ==
    ASSUME NEW f \in [Names -> Nat], NEW D, IsFiniteSet(D), NEW v \in [D -> Names],
           NEW h, h = [n \in Names |-> f[n] + Cardinality({id \in D : v[id] = n})]
    PROVE  /\ h \in [Names -> Nat]
           /\ Total(f) \in Nat
           /\ Total(h) = Total(f) + Cardinality(D)
<1> DEFINE c == [n \in Names |-> Cardinality({id \in D : v[id] = n})]
<1>1. \A n \in Names : Cardinality({id \in D : v[id] = n}) \in Nat
  BY FS_Subset, FS_CardinalityType
<1>2. c \in [Names -> Nat] /\ \A n \in Names : c[n] = Cardinality({id \in D : v[id] = n})
  BY <1>1
<1>3. h \in [Names -> Nat] /\ \A n \in Names : h[n] = f[n] + c[n]
  BY <1>1
<1> HIDE DEF c
<1>4. IsFiniteSet(Names) /\ Names \in SUBSET Names
  BY LogicAssumption
<1>5. Sums(c, Names)[Names] = Cardinality(D)
  BY <1>2, <1>4, SumsCount
<1>6. /\ Sums(f, Names)[Names] \in Nat
      /\ Sums(h, Names)[Names] = Sums(f, Names)[Names] + Sums(c, Names)[Names]
  <2>1. \A s \in SUBSET Names :
           /\ Sums(f, Names)[s] \in Nat /\ Sums(c, Names)[s] \in Nat
           /\ Sums(h, Names)[s] = Sums(f, Names)[s] + Sums(c, Names)[s]
    BY <1>2, <1>3, <1>4, SumsAdd, ZenonT(60)
  <2>2. QED
    BY <1>4, <2>1
<1>7. QED
  BY <1>3, <1>5, <1>6, TotalIsSum

-----------------------------------------------------------------------------
(* The invariant, by parts.  The tables are parameters of the parts, for   *)
(* the steps that replace one of them.                                     *)

NoData == [reinit |-> NoReinit, proof |-> NoProof, disputeHeight |-> 0]

Row == [names : Seq(Names), data : Channels \cup {NoData}]
Extra == [createdheight : Nat, participants : 1 .. 2]

(* A channel that waits for its second player. *)
Waiting(c, e, h) ==
    /\ Len(c.names) = 1 /\ e.participants = 1
    /\ c.data = NoData
    /\ e.createdheight + CHANNEL_TIMEOUT_BLOCKS >= h

(* A match on chain that is not over. *)
Match(c, e, h) ==
    /\ Len(c.names) = 2 /\ e.participants = 2
    /\ c.data \in Channels
    /\ WhoseTurn(LatestOnChain(c.data)) # NO_TURN
    /\ HasDispute(c.data) => c.data.disputeHeight + DISPUTE_BLOCKS >= h

GoodRow(c, e, h) == /\ c \in Row /\ e \in Extra
                    /\ Waiting(c, e, h) \/ Match(c, e, h)

GoodTables(ch, ex, h) ==
    /\ DOMAIN ex = DOMAIN ch
    /\ ch = [id \in DOMAIN ch |-> ch[id]] /\ ex = [id \in DOMAIN ch |-> ex[id]]
    /\ \A id \in DOMAIN ch : GoodRow(ch[id], ex[id], h)

Joined(ch) == {id \in DOMAIN ch : Len(ch[id].names) = 2}

GoodAgreed(ag) ==
    /\ ag = [r \in DOMAIN ag |-> ag[r]]
    /\ \A r \in DOMAIN ag :
          /\ r \in Reinits /\ ag[r] \in Seq(StateProofs) /\ Len(ag[r]) > 0
          /\ \A i \in 1 .. Len(ag[r]) : VerifyStateProof(r, ag[r][i])

(* Joined matches that are not open are won once and lost once. *)
GoodStats(w, l, n, open) ==
    /\ w \in [Names -> Nat] /\ l \in [Names -> Nat] /\ n \in Nat
    /\ Total(w) = n - Cardinality(open) /\ Total(l) = n - Cardinality(open)

PendingShape(p) ==
    p = [create |-> p.create, join |-> p.join, abort |-> p.abort,
         channels |-> p.channels]

PendingProof(e, c) ==
    /\ Len(c.names) = 2
    /\ e.turnCount = TurnCount(UnverifiedProofEndState(e.proof))
    /\ e.turnCount \in Nat
    /\ e.turnCount > TurnCount(LatestOnChain(c.data))

PendingFits(p, ch) ==
    /\ \A id \in DOMAIN p.channels :
          id \in DOMAIN ch /\ PendingProof(p.channels[id], ch[id])
    /\ \A id \in p.abort \cup {j[2] : j \in p.join} :
          id \in DOMAIN ch /\ Len(ch[id].names) # 2

BlockInv == /\ height \in 0 .. MaxHeight /\ moves \in Nat
            /\ IsFiniteSet(usedTxids) /\ usedTxids \subseteq Txids
            /\ DOMAIN channels \subseteq usedTxids

LogicInv ==
    /\ BlockInv
    /\ GoodTables(channels, extradata, height)
    /\ GoodAgreed(agreed)
    /\ GoodStats(won, lost, joined, Joined(channels))
    /\ PendingShape(pending)
    /\ moves = 0 => PendingFits(pending, channels)

-----------------------------------------------------------------------------
(* The rows of the tables. *)

(* Writing a row back keeps its state and its dispute. *)
LEMMA StoredRow ==
    ASSUME NEW ch \in Channels
    PROVE  /\ Stored(ch) \in Channels
           /\ LatestOnChain(Stored(ch)) = LatestOnChain(ch)
           /\ Stored(ch).disputeHeight = ch.disputeHeight
<1>1. ch.reinit \in Reinits /\ ch.proof \in StateProofs /\ ch.disputeHeight \in Nat
  BY DEF Channels
<1> DEFINE p == StateProofFromReinit(ch.reinit)
           new == [ch EXCEPT !.proof = p]
<1>2. p \in StateProofs /\ UnverifiedProofEndState(p) = ReinitState(ch.reinit)
  BY <1>1, ReinitProofVerifies
<1> HIDE DEF p
<1>3. new \in Channels /\ new.proof = p /\ new.disputeHeight = ch.disputeHeight
  BY <1>1, <1>2 DEF Channels
<1>4. Stored(ch) = IF LatestOnChain(ch) = ReinitState(ch.reinit) THEN new ELSE ch
  BY DEF Stored, p
<1> HIDE DEF new
<1>5. QED
  BY <1>2, <1>3, <1>4 DEF LatestOnChain

LEMMA WithProof ==
    ASSUME NEW ch \in Channels, NEW proof \in StateProofs, NEW h \in Nat
    PROVE  LET new == Stored([ch EXCEPT !.proof = proof, !.disputeHeight = h])
           IN  new \in Channels /\ new.disputeHeight = h
<1> DEFINE d == [ch EXCEPT !.proof = proof, !.disputeHeight = h]
<1>1. d \in Channels /\ d.disputeHeight = h
  BY DEF Channels
<1> HIDE DEF d
<1>2. Stored(d) \in Channels /\ Stored(d).disputeHeight = h
  BY <1>1, StoredRow
<1>3. QED
  BY <1>2 DEF d

(* A dispute or resolution leads to a row with a proof, and a dispute to   *)
(* one that is dated from the block.                                       *)
LEMMA NewRow ==
    ASSUME NEW ch \in Channels, NEW proof \in StateProofs, NEW h \in Nat
    PROVE  /\ ValidDispute(ch, proof) =>
                 /\ ProcessDispute(ch, h, proof) \in Channels
                 /\ ProcessDispute(ch, h, proof).disputeHeight = h
           /\ ValidResolution(ch, proof) =>
                 /\ ProcessResolution(ch, proof) \in Channels
                 /\ ProcessResolution(ch, proof).disputeHeight = 0
<1> DEFINE d == [ch EXCEPT !.disputeHeight = h]
<1>1. d \in Channels /\ d.disputeHeight = h
  BY DEF Channels
<1>2. Stored(d) \in Channels /\ Stored(d).disputeHeight = h
  <2> HIDE DEF d
  <2>1. QED
    BY <1>1, StoredRow
<1>3. ASSUME ValidDispute(ch, proof)
      PROVE  /\ ProcessDispute(ch, h, proof) \in Channels
             /\ ProcessDispute(ch, h, proof).disputeHeight = h
  <2> DEFINE e == [ch EXCEPT !.proof = proof, !.disputeHeight = h]
  <2>1. Stored(e) \in Channels /\ Stored(e).disputeHeight = h
    BY WithProof, ZenonT(60)
  <2>2. ProcessDispute(ch, h, proof) = Stored(e) \/ ProcessDispute(ch, h, proof) = Stored(d)
    BY <1>3, Zenon DEF ProcessDispute
  <2> HIDE DEF d, e
  <2>3. QED
    BY <1>2, <2>1, <2>2
<1>4. ASSUME ValidResolution(ch, proof)
      PROVE  /\ ProcessResolution(ch, proof) \in Channels
             /\ ProcessResolution(ch, proof).disputeHeight = 0
  <2> DEFINE e(g) == [ch EXCEPT !.proof = proof, !.disputeHeight = g]
  <2>1. \A g \in Nat : Stored(e(g)) \in Channels /\ Stored(e(g)).disputeHeight = g
    BY WithProof
  <2>2. ProcessResolution(ch, proof) = Stored(e(0))
    BY <1>4, Zenon DEF ProcessResolution
  <2> HIDE DEF e
  <2>3. QED
    BY <2>1, <2>2
<1>5. QED
  BY <1>3, <1>4

(* The row of a channel that is joined. *)
LEMMA JoinedRow ==
    ASSUME NEW r \in Reinits
    PROVE  /\ Reinitialise(NoData, r) \in Channels
           /\ LatestOnChain(Reinitialise(NoData, r)) = ReinitState(r)
           /\ Reinitialise(NoData, r).disputeHeight = 0
<1> DEFINE p == StateProofFromReinit(r)
           d == [NoData EXCEPT !.reinit = r, !.proof = p]
<1>1. p \in StateProofs /\ UnverifiedProofEndState(p) = ReinitState(r)
  BY ReinitProofVerifies
<1>2. Reinitialise(NoData, r) = Stored(d)
  BY DEF Reinitialise
<1> HIDE DEF p
<1>3. d \in Channels /\ d.proof = p /\ d.disputeHeight = 0
  BY <1>1 DEF Channels, NoData
<1> HIDE DEF d
<1>4. QED
  BY <1>1, <1>2, <1>3, StoredRow DEF LatestOnChain

LEMMA TablesWith ==
    ASSUME NEW ch, NEW ex, NEW h, GoodTables(ch, ex, h), NEW id, NEW c, NEW e,
           GoodRow(c, e, h)
    PROVE  GoodTables(With(ch, id, c), With(ex, id, e), h)
<1> DEFINE ch1 == With(ch, id, c)
           ex1 == With(ex, id, e)
<1>1. DOMAIN ch1 = (DOMAIN ch) \cup {id} /\ DOMAIN ex1 = (DOMAIN ch) \cup {id}
  BY DEF GoodTables, With
<1>2. ch1 = [i \in DOMAIN ch1 |-> ch1[i]] /\ ex1 = [i \in DOMAIN ch1 |-> ex1[i]]
  BY DEF GoodTables, With
<1>3. ASSUME NEW i \in DOMAIN ch1
      PROVE  \/ i = id /\ ch1[i] = c /\ ex1[i] = e
             \/ i \in DOMAIN ch /\ ch1[i] = ch[i] /\ ex1[i] = ex[i]
  BY DEF GoodTables, With
<1> HIDE DEF ch1, ex1
<1>4. \A i \in DOMAIN ch1 : GoodRow(ch1[i], ex1[i], h)
  BY <1>3 DEF GoodTables
<1>5. GoodTables(ch1, ex1, h)
  BY <1>1, <1>2, <1>4 DEF GoodTables
<1>6. QED
  BY <1>5 DEF ch1, ex1

LEMMA TablesExcept ==
    ASSUME NEW ch, NEW ex, NEW h, GoodTables(ch, ex, h), NEW id \in DOMAIN ch,
           NEW c, NEW e, GoodRow(c, e, h)
    PROVE  GoodTables([ch EXCEPT ![id] = c], [ex EXCEPT ![id] = e], h)
<1> DEFINE ch1 == [ch EXCEPT ![id] = c]
           ex1 == [ex EXCEPT ![id] = e]
<1>1. DOMAIN ch1 = DOMAIN ch /\ DOMAIN ex1 = DOMAIN ch /\ DOMAIN ex = DOMAIN ch
  BY DEF GoodTables
<1>2. ch1 = [i \in DOMAIN ch1 |-> ch1[i]] /\ ex1 = [i \in DOMAIN ch1 |-> ex1[i]]
  BY <1>1
<1>3. ASSUME NEW i \in DOMAIN ch1
      PROVE  \/ i = id /\ ch1[i] = c /\ ex1[i] = e
             \/ i \in DOMAIN ch /\ ch1[i] = ch[i] /\ ex1[i] = ex[i]
  BY <1>1
<1> HIDE DEF ch1, ex1
<1>4. \A i \in DOMAIN ch1 : GoodRow(ch1[i], ex1[i], h)
  BY <1>3 DEF GoodTables
<1>5. GoodTables(ch1, ex1, h)
  BY <1>1, <1>2, <1>4 DEF GoodTables
<1>6. QED
  BY <1>5 DEF ch1, ex1

(* What is left of the tables without the rows ids. *)
RowsLeft(ch, ex, ids, h) ==
    /\ GoodTables(Without(ch, ids), Without(ex, ids), h)
    /\ DOMAIN Without(ch, ids) = (DOMAIN ch) \ ids
    /\ Joined(Without(ch, ids)) = Joined(ch) \ ids

LEMMA TablesWithout ==
    ASSUME NEW ch, NEW ex, NEW h, NEW g, GoodTables(ch, ex, h), NEW ids,
           \A id \in (DOMAIN ch) \ ids : GoodRow(ch[id], ex[id], g)
    PROVE  RowsLeft(ch, ex, ids, g)
<1> DEFINE ch1 == Without(ch, ids)
           ex1 == Without(ex, ids)
<1>1. DOMAIN ch1 = (DOMAIN ch) \ ids /\ DOMAIN ex1 = (DOMAIN ch) \ ids
  BY DEF GoodTables, Without
<1>2. ch1 = [i \in DOMAIN ch1 |-> ch1[i]] /\ ex1 = [i \in DOMAIN ch1 |-> ex1[i]]
  BY DEF GoodTables, Without
<1>3. \A i \in DOMAIN ch1 : ch1[i] = ch[i] /\ ex1[i] = ex[i]
  BY DEF GoodTables, Without
<1> HIDE DEF ch1, ex1
<1>4. GoodTables(ch1, ex1, g)
  BY <1>1, <1>2, <1>3 DEF GoodTables
<1>5. Joined(ch1) = Joined(ch) \ ids
  BY <1>1, <1>3 DEF Joined
<1>6. QED
  BY <1>1, <1>4, <1>5 DEF ch1, ex1, RowsLeft

-----------------------------------------------------------------------------
(* The stats. *)

LEMMA RowParts ==
    ASSUME LogicInv, NEW id \in DOMAIN channels
    PROVE  /\ GoodRow(channels[id], extradata[id], height)
           /\ channels[id].names \in Seq(Names)
           /\ DOMAIN channels[id].names = 1 .. Len(channels[id].names)
           /\ Seats(id) \in 1 .. 2
           /\ Seats(id) = 1 => Waiting(channels[id], extradata[id], height)
           /\ Seats(id) = 2 => Match(channels[id], extradata[id], height)
<1>1. GoodRow(channels[id], extradata[id], height)
  BY DEF LogicInv, GoodTables
<1>2. QED
  BY <1>1 DEF GoodRow, Row, Seats, Waiting, Match

LEMMA OpenFinite ==
    ASSUME LogicInv
    PROVE  /\ IsFiniteSet(Joined(channels))
           /\ Cardinality(Joined(channels)) \in Nat
           /\ OpenMatches = Joined(channels)
<1>1. Joined(channels) \subseteq usedTxids /\ IsFiniteSet(usedTxids)
  BY DEF LogicInv, BlockInv, Joined
<1>2. QED
  BY <1>1, FS_Subset, FS_CardinalityType DEF OpenMatches, Joined, Seats

(* Closing matches, each with a winner. *)
LEMMA StatsClose ==
    ASSUME LogicInv, NEW D, D \subseteq Joined(channels),
           NEW winner \in [D -> 1 .. 2], UpdateStats(winner)
    PROVE  GoodStats(won', lost', joined, Joined(channels) \ D)
<1> DEFINE J == Joined(channels)
           v == [id \in D |-> channels[id].names[winner[id]]]
           u == [id \in D |-> channels[id].names[3 - winner[id]]]
<1>1. ASSUME NEW id \in D
      PROVE  v[id] \in Names /\ u[id] \in Names
  <2>1. id \in DOMAIN channels /\ Len(channels[id].names) = 2
    BY DEF Joined
  <2>2. channels[id].names \in Seq(Names)
    BY <2>1, RowParts
  <2>3. winner[id] \in 1 .. 2 /\ 3 - winner[id] \in 1 .. 2
    OBVIOUS
  <2>4. QED
    BY <2>1, <2>2, <2>3
<1>2. v \in [D -> Names] /\ u \in [D -> Names]
  BY <1>1
<1>3. won' = [n \in Names |-> won[n] + Cardinality({id \in D : v[id] = n})]
  <2>1. \A n : {id \in DOMAIN winner : channels[id].names[winner[id]] = n}
                 = {id \in D : v[id] = n}
    OBVIOUS
  <2>2. won' = [n \in Names |-> won[n] +
                   Cardinality({id \in DOMAIN winner : channels[id].names[winner[id]] = n})]
    BY DEF UpdateStats
  <2> HIDE DEF v
  <2>3. QED
    BY <2>1, <2>2
<1>4. lost' = [n \in Names |-> lost[n] + Cardinality({id \in D : u[id] = n})]
  <2> DEFINE loser == [id \in DOMAIN winner |-> 3 - winner[id]]
  <2>1. \A n : {id \in DOMAIN winner : channels[id].names[loser[id]] = n}
                 = {id \in D : u[id] = n}
    OBVIOUS
  <2>2. lost' = [n \in Names |-> lost[n] +
                   Cardinality({id \in DOMAIN winner : channels[id].names[loser[id]] = n})]
    BY DEF UpdateStats
  <2> HIDE DEF u, loser
  <2>3. QED
    BY <2>1, <2>2
<1> HIDE DEF v, u
<1>5. IsFiniteSet(J) /\ Cardinality(J) \in Nat
  BY OpenFinite
<1>6. IsFiniteSet(D) /\ Cardinality(D) \in Nat
  BY <1>5, FS_Subset, FS_CardinalityType
<1>7. Cardinality(J \ D) = Cardinality(J) - Cardinality(D)
  <2>1. J \cap D = D
    OBVIOUS
  <2>2. QED
    BY <1>5, <2>1, FS_Difference, ZenonT(60)
<1>8. /\ won \in [Names -> Nat] /\ lost \in [Names -> Nat] /\ joined \in Nat
      /\ Total(won) = joined - Cardinality(J) /\ Total(lost) = joined - Cardinality(J)
  BY DEF LogicInv, GoodStats
<1>9. won' \in [Names -> Nat] /\ Total(won') = Total(won) + Cardinality(D)
  BY <1>2, <1>3, <1>6, <1>8, TotalGrows
<1>10. lost' \in [Names -> Nat] /\ Total(lost') = Total(lost) + Cardinality(D)
  BY <1>2, <1>4, <1>6, <1>8, TotalGrows
<1> HIDE DEF J
<1>11. /\ Total(won') = joined - Cardinality(J \ D)
       /\ Total(lost') = joined - Cardinality(J \ D)
  BY <1>5, <1>6, <1>7, <1>8, <1>9, <1>10
<1>12. QED
  BY <1>8, <1>9, <1>10, <1>11 DEF GoodStats, J

-----------------------------------------------------------------------------
(* The steps. *)

LEMMA LogicInit == Init => LogicInv
<1> SUFFICES ASSUME Init PROVE LogicInv
  OBVIOUS
<1>1. BlockInv
  BY LogicAssumption, FS_EmptySet DEF Init, BlockInv
<1>2. GoodTables(channels, extradata, height) /\ Joined(channels) = {}
  BY DEF Init, GoodTables, Joined
<1>3. GoodAgreed(agreed)
  BY DEF Init, GoodAgreed
<1>4. GoodStats(won, lost, joined, Joined(channels))
  <2> DEFINE z == [n \in Names |-> 0]
             v == [id \in {} |-> 0]
  <2>1. z \in [Names -> Nat]
    OBVIOUS
  <2>2. Total(z) = 0
    <3>1. v \in [{} -> Names]
      OBVIOUS
    <3>2. \A n \in Names : {id \in {} : v[id] = n} = {}
      OBVIOUS
    <3>3. \A n \in Names : z[n] = Cardinality({id \in {} : v[id] = n})
      BY <3>2, FS_EmptySet
    <3> HIDE DEF v, z
    <3>4. IsFiniteSet(Names) /\ IsFiniteSet({})
      BY FS_EmptySet, LogicAssumption
    <3>5. Sums(z, Names)[Names] = Cardinality({})
      BY <2>1, <3>1, <3>3, <3>4, SumsCount, ZenonT(60)
    <3>6. QED
      BY <2>1, <3>5, TotalIsSum, FS_EmptySet
  <2>3. QED
    BY <1>2, <2>1, <2>2, FS_EmptySet DEF Init, GoodStats
<1>5. PendingShape(pending) /\ PendingFits(pending, channels)
  BY DEF Init, PendingShape, PendingFits, NoPending
<1>6. QED
  BY <1>1, <1>2, <1>3, <1>4, <1>5 DEF LogicInv

LEMMA CreateStep ==
    ASSUME LogicInv, NEW name \in Names, NEW txid \in Txids,
           HandleCreateChannel(name, txid)
    PROVE  LogicInv'
<1> DEFINE c == [names |-> <<name>>, data |-> NoData]
           e == [createdheight |-> height, participants |-> 1]
<1>1. /\ txid \notin usedTxids /\ usedTxids' = usedTxids \cup {txid}
      /\ moves' = moves + 1 /\ height' = height /\ pending' = pending
      /\ channels' = With(channels, txid, c) /\ extradata' = With(extradata, txid, e)
      /\ won' = won /\ lost' = lost /\ agreed' = agreed /\ joined' = joined
  BY DEF HandleCreateChannel, ProcessMove, NoData
<1>2. BlockInv /\ GoodTables(channels, extradata, height) /\ GoodAgreed(agreed)
      /\ GoodStats(won, lost, joined, Joined(channels)) /\ PendingShape(pending)
  BY DEF LogicInv
<1>3. height \in Nat /\ moves \in Nat /\ MaxHeight \in Nat
  BY <1>2, LogicAssumption DEF BlockInv
<1>4. c.names = <<name>> /\ c.names \in Seq(Names) /\ Len(c.names) = 1 /\ c.data = NoData
      /\ Len(c.names) # 2
  OBVIOUS
<1>5. GoodRow(c, e, height)
  <2>1. c \in Row
    BY <1>4 DEF Row
  <2>2. e \in Extra /\ e.participants = 1 /\ e.createdheight = height
    BY <1>3 DEF Extra
  <2> HIDE DEF c, e
  <2>3. QED
    BY <1>3, <1>4, <2>1, <2>2, LogicAssumption DEF GoodRow, Waiting
<1> HIDE DEF c, e
<1>6. GoodTables(channels', extradata', height')
  BY <1>1, <1>2, <1>5, TablesWith
<1>7. /\ DOMAIN channels' = (DOMAIN channels) \cup {txid}
      /\ channels'[txid] = c
      /\ \A id \in DOMAIN channels : channels'[id] = channels[id]
  <2>1. txid \notin DOMAIN channels
    BY <1>1, <1>2 DEF BlockInv
  <2>2. QED
    BY <1>1, <2>1 DEF With
<1>8. Joined(channels') = Joined(channels)
  BY <1>4, <1>7, Zenon DEF Joined
<1>9. BlockInv'
  BY <1>1, <1>2, <1>3, <1>7, FS_AddElement DEF BlockInv, Txids
<1>10. moves' # 0
  BY <1>1, <1>3
<1>11. QED
  BY <1>1, <1>2, <1>6, <1>8, <1>9, <1>10 DEF LogicInv

(* A move on the tables: the pending moves are not current any more, and   *)
(* it is left to show what became of the tables and stats.                 *)
LEMMA MoveKeeps ==
    ASSUME LogicInv, ProcessMove, IsFiniteSet(usedTxids'), usedTxids' \subseteq Txids,
           DOMAIN channels' \subseteq usedTxids',
           GoodTables(channels', extradata', height), GoodAgreed(agreed'),
           GoodStats(won', lost', joined', Joined(channels'))
    PROVE  LogicInv'
<1>1. moves' = moves + 1 /\ height' = height /\ pending' = pending /\ moves \in Nat
  BY DEF ProcessMove, LogicInv, BlockInv
<1>2. moves' \in Nat /\ moves' # 0
  BY <1>1
<1>3. BlockInv'
  BY <1>1, <1>2 DEF LogicInv, BlockInv, Txids
<1>4. QED
  BY <1>1, <1>2, <1>3 DEF LogicInv

LEMMA SecondName ==
    ASSUME NEW s \in Seq(Names), Len(s) = 1, NEW name \in Names
    PROVE  Append(s, name) \in Seq(Names) /\ Len(Append(s, name)) = 2
<1>1. Append(s, name) \in Seq(Names)
  OBVIOUS
<1>2. Len(Append(s, name)) = Len(s) + 1
  BY AppendProperties, Zenon
<1>3. QED
  BY <1>1, <1>2

LEMMA JoinStep ==
    ASSUME LogicInv, NEW name \in Names, NEW txid \in Txids, NEW id \in DOMAIN channels,
           HandleJoinChannel(name, txid, id)
    PROVE  LogicInv'
<1> DEFINE old == channels[id]
           c == [names |-> Append(old.names, name), data |-> Reinitialise(old.data, txid)]
           e == [extradata[id] EXCEPT !.participants = 2]
           p == StateProofFromReinit(txid)
<1>1. /\ ProcessMove /\ Seats(id) = 1
      /\ txid \notin usedTxids /\ usedTxids' = usedTxids \cup {txid}
      /\ channels' = [channels EXCEPT ![id] = c]
      /\ extradata' = [extradata EXCEPT ![id] = e]
      /\ agreed' = With(agreed, txid, <<p>>)
      /\ won' = won /\ lost' = lost /\ joined' = joined + 1
  BY DEF HandleJoinChannel, ParseJoinChannelMove
<1>2. BlockInv /\ GoodTables(channels, extradata, height) /\ GoodAgreed(agreed)
      /\ GoodStats(won, lost, joined, Joined(channels))
  BY DEF LogicInv
<1>3. /\ old.names \in Seq(Names) /\ Len(old.names) = 1 /\ old.data = NoData
      /\ extradata[id] \in Extra
  BY <1>1, RowParts DEF Seats, Waiting, GoodRow
<1>4. txid \in Reinits /\ height \in Nat
  BY <1>2, LogicAssumption DEF Txids, BlockInv
<1>5. /\ c.data \in Channels /\ c.data.disputeHeight = 0
      /\ LatestOnChain(c.data) = ReinitState(txid)
  BY <1>3, <1>4, JoinedRow
<1>6. c \in Row /\ Len(c.names) = 2
  <2>1. Append(old.names, name) \in Seq(Names) /\ Len(Append(old.names, name)) = 2
    BY <1>3, SecondName, Zenon
  <2>2. QED
    BY <1>5, <2>1 DEF Row
<1>7. e \in Extra /\ e.participants = 2
  BY <1>3 DEF Extra
<1>8. WhoseTurn(ReinitState(txid)) # NO_TURN
  BY <1>4, LogicAssumption, RulesAssumption
<1>9. p \in StateProofs /\ VerifyStateProof(txid, p)
  BY <1>4, ReinitProofVerifies
<1> HIDE DEF c, e, old, p
<1>10. GoodRow(c, e, height)
  BY <1>5, <1>6, <1>7, <1>8 DEF GoodRow, Match, HasDispute
<1>11. GoodTables(channels', extradata', height)
  BY <1>1, <1>2, <1>10, TablesExcept
<1>12. /\ DOMAIN channels' = DOMAIN channels /\ channels'[id] = c
       /\ \A i \in DOMAIN channels : i # id => channels'[i] = channels[i]
  BY <1>1
<1>13. Joined(channels') = Joined(channels) \cup {id} /\ id \notin Joined(channels)
  <2>1. Len(channels[id].names) # 2
    BY <1>3 DEF old
  <2>2. QED
    BY <1>6, <1>12, <2>1 DEF Joined
<1>14. GoodStats(won', lost', joined', Joined(channels'))
  <2> DEFINE k == Cardinality(Joined(channels))
  <2>1. Cardinality(Joined(channels')) = k + 1 /\ k \in Nat
    <3>1. IsFiniteSet(Joined(channels)) /\ k \in Nat
      BY OpenFinite
    <3>2. Cardinality(Joined(channels) \cup {id}) = k + 1
      BY <1>13, <3>1, FS_AddElement
    <3>3. QED
      BY <1>13, <3>1, <3>2
  <2> HIDE DEF k
  <2>2. joined \in Nat /\ joined' - (k + 1) = joined - k /\ joined' \in Nat
    BY <1>1, <1>2, <2>1 DEF GoodStats
  <2>3. QED
    BY <1>1, <1>2, <2>1, <2>2 DEF GoodStats, k
<1>15. GoodAgreed(agreed')
  <2>1. /\ DOMAIN agreed' = (DOMAIN agreed) \cup {txid}
        /\ agreed' = [r \in DOMAIN agreed' |-> agreed'[r]]
        /\ agreed'[txid] = <<p>>
        /\ \A r \in DOMAIN agreed : r # txid => agreed'[r] = agreed[r]
    BY <1>1 DEF With
  <2>2. <<p>> \in Seq(StateProofs) /\ Len(<<p>>) = 1 /\ <<p>>[1] = p
    BY <1>9
  <2>3. ASSUME NEW r \in DOMAIN agreed'
        PROVE  /\ r \in Reinits /\ agreed'[r] \in Seq(StateProofs) /\ Len(agreed'[r]) > 0
               /\ \A i \in 1 .. Len(agreed'[r]) : VerifyStateProof(r, agreed'[r][i])
    <3>1. CASE r = txid
      <4>1. \A i \in 1 .. 1 : i = 1
        OBVIOUS
      <4>2. QED
        <5>1. agreed'[r] = <<p>> /\ Len(agreed'[r]) = 1 /\ agreed'[r][1] = p
          BY <2>1, <2>2, <3>1
        <5>2. \A i \in 1 .. Len(agreed'[r]) : VerifyStateProof(r, agreed'[r][i])
          BY <1>9, <3>1, <4>1, <5>1, Zenon
        <5>3. QED
          BY <1>4, <2>2, <3>1, <5>1, <5>2
    <3>2. CASE r # txid
      BY <1>2, <2>1, <3>2 DEF GoodAgreed
    <3>3. QED
      BY <3>1, <3>2
  <2>4. QED
    BY <2>1, <2>3 DEF GoodAgreed
<1>16. IsFiniteSet(usedTxids') /\ usedTxids' \subseteq Txids /\ DOMAIN channels' \subseteq usedTxids'
  BY <1>1, <1>2, <1>12, FS_AddElement DEF BlockInv
<1>17. QED
  BY <1>1, <1>11, <1>14, <1>15, <1>16, MoveKeeps

LEMMA AbortStep ==
    ASSUME LogicInv, NEW name \in Names, NEW id \in DOMAIN channels,
           HandleAbortChannel(name, id)
    PROVE  LogicInv'
<1>1. /\ ProcessMove /\ Seats(id) = 1
      /\ channels' = Without(channels, {id}) /\ extradata' = Without(extradata, {id})
      /\ won' = won /\ lost' = lost /\ usedTxids' = usedTxids /\ agreed' = agreed
      /\ joined' = joined
  BY DEF HandleAbortChannel, ParseAbortChannelMove, DeleteChannels
<1>2. BlockInv /\ GoodTables(channels, extradata, height) /\ GoodAgreed(agreed)
      /\ GoodStats(won, lost, joined, Joined(channels))
  BY DEF LogicInv
<1>3. /\ GoodTables(channels', extradata', height)
      /\ DOMAIN channels' = (DOMAIN channels) \ {id}
      /\ Joined(channels') = Joined(channels) \ {id}
  <2>1. \A i \in (DOMAIN channels) \ {id} : GoodRow(channels[i], extradata[i], height)
    BY <1>2 DEF GoodTables
  <2>2. RowsLeft(channels, extradata, {id}, height)
    BY <1>1, <1>2, <2>1, TablesWithout, Zenon
  <2>3. QED
    BY <1>1, <1>2, <2>2 DEF RowsLeft
<1>4. Joined(channels') = Joined(channels)
  <2>1. Len(channels[id].names) # 2
    BY <1>1 DEF Seats
  <2>2. id \notin Joined(channels)
    BY <2>1 DEF Joined
  <2>3. QED
    BY <1>3, <2>2
<1>5. QED
  BY <1>1, <1>2, <1>3, <1>4, MoveKeeps DEF BlockInv

(* A move that closes a match. *)
LEMMA CloseStep ==
    ASSUME LogicInv, NEW id \in DOMAIN channels, Seats(id) = 2, NEW w \in 1 .. 2,
           ProcessMove, UpdateStats([i \in {id} |-> w]), DeleteChannels({id}),
           UNCHANGED <<usedTxids, agreed, joined>>
    PROVE  LogicInv'
<1>1. BlockInv /\ GoodTables(channels, extradata, height) /\ GoodAgreed(agreed)
  BY DEF LogicInv
<1>2. channels' = Without(channels, {id}) /\ extradata' = Without(extradata, {id})
  BY DEF DeleteChannels
<1>3. /\ GoodTables(channels', extradata', height)
      /\ DOMAIN channels' = (DOMAIN channels) \ {id}
      /\ Joined(channels') = Joined(channels) \ {id}
  <2>1. \A i \in (DOMAIN channels) \ {id} : GoodRow(channels[i], extradata[i], height)
    BY <1>1 DEF GoodTables
  <2>2. RowsLeft(channels, extradata, {id}, height)
    BY <1>1, <1>2, <2>1, TablesWithout, Zenon
  <2>3. QED
    BY <1>1, <1>2, <2>2 DEF RowsLeft
<1>4. GoodStats(won', lost', joined, Joined(channels) \ {id})
  <2> DEFINE winner == [i \in {id} |-> w]
  <2>1. {id} \subseteq Joined(channels)
    BY DEF Joined, Seats
  <2>2. winner \in [{id} -> 1 .. 2] /\ UpdateStats(winner)
    OBVIOUS
  <2> HIDE DEF winner
  <2>3. QED
    BY <2>1, <2>2, StatsClose
<1>5. QED
  BY <1>1, <1>3, <1>4, MoveKeeps DEF BlockInv

LEMMA ModIdentity ==
    ASSUME NEW a \in Nat, NEW m \in Nat, a < m
    PROVE  a % m = a
  OBVIOUS

LEMMA DeclareLossStep ==
    ASSUME LogicInv, NEW name \in Names, NEW id \in DOMAIN channels, NEW r \in Reinits,
           HandleDeclareLoss(name, id, r)
    PROVE  LogicInv'
<1>1. PICK loser \in 1 .. 2 : UpdateStats([i \in {id} |-> 3 - loser])
  BY DEF HandleDeclareLoss
<1>2. 3 - loser \in 1 .. 2
  OBVIOUS
<1>3. /\ ProcessMove /\ Seats(id) = 2 /\ DeleteChannels({id})
      /\ UNCHANGED <<usedTxids, agreed, joined>>
  BY DEF HandleDeclareLoss
<1>4. QED
  BY <1>1, <1>2, <1>3, CloseStep

(* The proofs agreed off chain. *)
LEMMA AgreedParts ==
    ASSUME LogicInv, NEW proof \in AgreedProofs
    PROVE  proof \in StateProofs
  BY DEF LogicInv, GoodAgreed, AgreedProofs

LEMMA DisputeResolutionStep ==
    ASSUME LogicInv, NEW id \in DOMAIN channels, NEW proof \in AgreedProofs,
           NEW isDispute \in BOOLEAN, HandleDisputeResolution(id, proof, isDispute)
    PROVE  LogicInv'
<1> DEFINE old == channels[id]
           data == old.data
           new == IF isDispute THEN ProcessDispute(data, height, proof)
                               ELSE ProcessResolution(data, proof)
           w == Winner(LatestOnChain(new))
           c == [old EXCEPT !.data = new]
<1>1. /\ ProcessMove /\ Seats(id) = 2 /\ UNCHANGED <<usedTxids, agreed, joined>>
      /\ IF isDispute THEN ValidDispute(data, proof) ELSE ValidResolution(data, proof)
      /\ IF w # 0
         THEN /\ UpdateStats([i \in {id} |-> w]) /\ DeleteChannels({id})
         ELSE /\ channels' = [channels EXCEPT ![id] = c]
              /\ UNCHANGED <<extradata, won, lost>>
  BY DEF HandleDisputeResolution
<1>2. BlockInv /\ GoodTables(channels, extradata, height) /\ GoodAgreed(agreed)
      /\ GoodStats(won, lost, joined, Joined(channels))
  BY DEF LogicInv
<1>3. height \in Nat /\ DISPUTE_BLOCKS \in Nat
  BY <1>2, LogicAssumption DEF BlockInv
<1>4. old \in Row /\ extradata[id] \in Extra /\ Match(old, extradata[id], height)
  BY <1>1, RowParts DEF GoodRow
<1>5. data \in Channels
  BY <1>4 DEF Match
<1>6. new \in Channels /\ (new.disputeHeight = height \/ new.disputeHeight = 0)
  <2> HIDE DEF data
  <2>1. proof \in StateProofs
    BY AgreedParts
  <2>2. CASE isDispute
    BY <1>1, <1>3, <1>5, <2>1, <2>2, NewRow
  <2>3. CASE ~isDispute
    BY <1>1, <1>3, <1>5, <2>1, <2>3, NewRow
  <2>4. QED
    BY <2>2, <2>3
<1> HIDE DEF new
<1>7. LatestOnChain(new) \in BoardStates
  BY <1>6, EndIsState DEF LatestOnChain, Channels
<1>8. w \in 0 .. 2 /\ (w # 0 <=> WhoseTurn(LatestOnChain(new)) = NO_TURN)
  BY <1>7, LogicAssumption
<1> HIDE DEF w
<1>9. CASE w # 0
  <2>1. w \in 1 .. 2
    BY <1>8, <1>9
  <2>2. QED
    BY <1>1, <1>9, <2>1, CloseStep
<1>10. CASE w = 0
  <2>1. c \in Row /\ c.names = old.names /\ c.data = new
    BY <1>4, <1>6 DEF Row
  <2> HIDE DEF c, old
  <2>2. Match(c, extradata[id], height)
    BY <1>3, <1>4, <1>6, <1>8, <1>10, <2>1 DEF Match, HasDispute
  <2>3. GoodRow(c, extradata[id], height)
    BY <1>4, <2>1, <2>2 DEF GoodRow
  <2>4. channels' = [channels EXCEPT ![id] = c] /\ extradata' = extradata
        /\ won' = won /\ lost' = lost
    BY <1>1, <1>10
  <2>5. extradata = [extradata EXCEPT ![id] = extradata[id]]
    BY <1>2 DEF GoodTables
  <2>6. GoodTables(channels', extradata', height)
    <3>1. GoodTables([channels EXCEPT ![id] = c],
                     [extradata EXCEPT ![id] = extradata[id]], height)
      BY <1>2, <2>3, TablesExcept, Zenon
    <3>2. QED
      BY <2>4, <2>5, <3>1
  <2>7. /\ DOMAIN channels' = DOMAIN channels
        /\ \A i \in DOMAIN channels : channels'[i].names = channels[i].names
    BY <2>1, <2>4 DEF old
  <2>8. Joined(channels') = Joined(channels)
    BY <2>7 DEF Joined
  <2>9. QED
    BY <1>1, <1>2, <2>4, <2>6, <2>7, <2>8, MoveKeeps DEF BlockInv
<1>11. QED
  BY <1>9, <1>10

LEMMA EndBlockStep ==
    ASSUME LogicInv, EndBlock
    PROVE  LogicInv'
<1> DEFINE E == Expired(height)
           T == TimedOut(height)
           winner == [id \in E |-> 3 - WhoseTurn(LatestOnChain(channels[id].data))]
<1>1. /\ height < MaxHeight /\ height' = height + 1 /\ moves' = 0 /\ pending' = NoPending
      /\ UpdateStats(winner)
      /\ channels' = Without(channels, E \cup T) /\ extradata' = Without(extradata, E \cup T)
      /\ usedTxids' = usedTxids /\ agreed' = agreed /\ joined' = joined
  BY DEF EndBlock, DeleteChannels
<1>2. BlockInv /\ GoodTables(channels, extradata, height) /\ GoodAgreed(agreed)
      /\ GoodStats(won, lost, joined, Joined(channels))
  BY DEF LogicInv
<1>3. /\ height \in Nat /\ height + 1 \in 0 .. MaxHeight
      /\ DISPUTE_BLOCKS \in Nat /\ CHANNEL_TIMEOUT_BLOCKS \in Nat
  BY <1>1, <1>2, LogicAssumption DEF BlockInv
<1>4. ASSUME NEW id \in E
      PROVE  id \in Joined(channels) /\ winner[id] \in 1 .. 2
  <2>1. id \in DOMAIN channels /\ HasDispute(channels[id].data)
    BY DEF Expired, QueryForDisputeHeight
  <2>2. Seats(id) = 2
    BY <2>1, RowParts DEF Waiting, NoData, HasDispute
  <2>3. /\ channels[id].data \in Channels
        /\ WhoseTurn(LatestOnChain(channels[id].data)) # NO_TURN
    BY <2>1, <2>2, RowParts DEF Match
  <2>4. LatestOnChain(channels[id].data) \in BoardStates
    BY <2>3, EndIsState DEF LatestOnChain, Channels
  <2>5. WhoseTurn(LatestOnChain(channels[id].data)) \in 1 .. 2
    BY <2>3, <2>4, RulesAssumption, LogicAssumption DEF Players
  <2>6. QED
    BY <2>1, <2>2, <2>5 DEF Joined, Seats
<1>5. ASSUME NEW id \in T
      PROVE  id \in DOMAIN channels /\ id \notin Joined(channels)
  <2>1. id \in DOMAIN channels /\ extradata[id].participants < 2
    BY <1>2 DEF TimedOut, GoodTables
  <2>2. Seats(id) # 2
    BY <2>1, RowParts DEF Match
  <2>3. QED
    BY <2>1, <2>2 DEF Joined, Seats
<1>6. winner \in [E -> 1 .. 2] /\ E \subseteq Joined(channels)
  BY <1>4
<1>7. GoodStats(won', lost', joined, Joined(channels) \ E)
  <2> HIDE DEF winner, E
  <2>1. QED
    BY <1>1, <1>6, StatsClose
<1>8. ASSUME NEW id \in (DOMAIN channels) \ (E \cup T)
      PROVE  GoodRow(channels[id], extradata[id], height + 1)
  <2>1. channels[id] \in Row /\ extradata[id] \in Extra /\ id \in DOMAIN extradata
    BY <1>2, RowParts DEF GoodRow, GoodTables
  <2>2. CASE Waiting(channels[id], extradata[id], height)
    <3>1. extradata[id].createdheight \in Nat
      BY <2>1 DEF Extra
    <3>2. extradata[id].createdheight + CHANNEL_TIMEOUT_BLOCKS >= height + 1
      BY <1>3, <2>1, <2>2, <3>1 DEF TimedOut, Waiting
    <3>3. QED
      BY <2>1, <2>2, <3>2 DEF GoodRow, Waiting
  <2>3. CASE Match(channels[id], extradata[id], height)
    <3> DEFINE d == channels[id].data.disputeHeight
    <3>1. d \in Nat
      BY <2>3 DEF Match, Channels
    <3>2. ASSUME HasDispute(channels[id].data)
          PROVE  d + DISPUTE_BLOCKS >= height + 1
      <4>1. ~(d <= (height - DISPUTE_BLOCKS) % UIntMod)
        BY <3>2 DEF Expired, QueryForDisputeHeight
      <4> HIDE DEF d
      <4>2. CASE height >= DISPUTE_BLOCKS
        <5>1. (height - DISPUTE_BLOCKS) % UIntMod = height - DISPUTE_BLOCKS
          BY <1>1, <1>3, <4>2, ModIdentity, LogicAssumption
        <5>2. QED
          BY <1>3, <3>1, <4>1, <4>2, <5>1
      <4>3. CASE height < DISPUTE_BLOCKS
        BY <1>3, <3>1, <4>3
      <4>4. QED
        BY <1>3, <4>2, <4>3
    <3>3. QED
      BY <2>1, <2>3, <3>2 DEF GoodRow, Match
  <2>4. QED
    BY <2>2, <2>3, RowParts DEF GoodRow
<1>9. RowsLeft(channels, extradata, E \cup T, height + 1)
  BY <1>2, <1>8, TablesWithout, Zenon
<1>10. /\ GoodTables(channels', extradata', height')
       /\ DOMAIN channels' \subseteq DOMAIN channels
       /\ Joined(channels') = Joined(channels) \ E
  BY <1>1, <1>5, <1>9 DEF RowsLeft
<1>11. BlockInv'
  BY <1>1, <1>2, <1>3, <1>10 DEF BlockInv, Txids
<1>12. PendingShape(pending') /\ PendingFits(pending', channels')
  BY <1>1 DEF NoPending, PendingShape, PendingFits
<1>13. QED
  BY <1>1, <1>2, <1>7, <1>10, <1>11, <1>12 DEF LogicInv

-----------------------------------------------------------------------------
(* Pending moves, between blocks. *)

LEMMA PendingKeeps ==
    ASSUME LogicInv, AddPendingMove, PendingShape(pending'),
           PendingFits(pending', channels)
    PROVE  LogicInv'
<1>1. /\ height' = height /\ moves' = moves /\ channels' = channels
      /\ extradata' = extradata /\ won' = won /\ lost' = lost
      /\ usedTxids' = usedTxids /\ agreed' = agreed /\ joined' = joined
  BY DEF AddPendingMove
<1>2. BlockInv'
  BY <1>1 DEF LogicInv, BlockInv, Txids
<1>3. QED
  BY <1>1, <1>2 DEF LogicInv

LEMMA PendingStep ==
    ASSUME LogicInv, NEW name \in Names,
           \/ \E txid \in Txids : PendingCreate(name, txid)
           \/ \E id \in DOMAIN channels : PendingJoin(name, id) \/ PendingAbort(name, id)
    PROVE  LogicInv'
<1> DEFINE p == pending
<1>1. AddPendingMove
  BY DEF PendingCreate, PendingJoin, PendingAbort
<1>2. PendingShape(p) /\ PendingFits(p, channels)
  BY <1>1 DEF AddPendingMove, LogicInv
<1>3. CASE \E txid \in Txids : PendingCreate(name, txid)
  <2>1. PICK txid \in Txids : PendingCreate(name, txid)
    BY <1>3
  <2>2. /\ pending' = [create |-> p.create \cup {<<name, txid>>}, join |-> p.join,
                       abort |-> p.abort, channels |-> p.channels]
    BY <1>2, <2>1 DEF PendingCreate, PendingShape
  <2>3. /\ PendingShape(pending') /\ pending'.join = p.join
        /\ pending'.abort = p.abort /\ pending'.channels = p.channels
    BY <2>2 DEF PendingShape
  <2>4. PendingFits(pending', channels)
    BY <1>2, <2>3 DEF PendingFits
  <2>5. QED
    BY <1>1, <2>3, <2>4, PendingKeeps
<1>4. ASSUME NEW id \in DOMAIN channels, PendingJoin(name, id)
      PROVE  LogicInv'
  <2>1. /\ pending' = [create |-> p.create, join |-> p.join \cup {<<name, id>>},
                       abort |-> p.abort, channels |-> p.channels]
        /\ Seats(id) = 1
    BY <1>2, <1>4 DEF PendingJoin, PendingShape, ParseJoinChannelMove
  <2>2. /\ PendingShape(pending') /\ pending'.join = p.join \cup {<<name, id>>}
        /\ pending'.abort = p.abort /\ pending'.channels = p.channels
    BY <2>1 DEF PendingShape
  <2>3. PendingFits(pending', channels)
    <3>1. Len(channels[id].names) # 2
      BY <2>1 DEF Seats
    <3>2. <<name, id>>[2] = id
      OBVIOUS
    <3>3. ASSUME NEW i \in {j[2] : j \in pending'.join}
          PROVE  i \in {j[2] : j \in p.join} \/ i = id
      BY <2>2, <3>2, Zenon
    <3>4. QED
      BY <1>2, <2>2, <3>1, <3>3 DEF PendingFits
  <2>4. QED
    BY <1>1, <2>2, <2>3, PendingKeeps
<1>5. ASSUME NEW id \in DOMAIN channels, PendingAbort(name, id)
      PROVE  LogicInv'
  <2>1. /\ pending' = [create |-> p.create, join |-> p.join,
                       abort |-> p.abort \cup {id}, channels |-> p.channels]
        /\ Seats(id) = 1
    BY <1>2, <1>5 DEF PendingAbort, PendingShape, ParseAbortChannelMove
  <2>2. /\ PendingShape(pending') /\ pending'.join = p.join
        /\ pending'.abort = p.abort \cup {id} /\ pending'.channels = p.channels
    BY <2>1 DEF PendingShape
  <2>3. PendingFits(pending', channels)
    <3>1. Len(channels[id].names) # 2
      BY <2>1 DEF Seats
    <3>2. QED
      BY <1>2, <2>2, <3>1 DEF PendingFits
  <2>4. QED
    BY <1>1, <2>2, <2>3, PendingKeeps
<1>6. QED
  BY <1>3, <1>4, <1>5

LEMMA PendingProofStep ==
    ASSUME LogicInv, NEW id \in DOMAIN channels, NEW proof \in AgreedProofs,
           AddPendingStateProof(id, proof)
    PROVE  LogicInv'
<1> DEFINE p == pending
           cnt == TurnCount(UnverifiedProofEndState(proof))
           onChain == TurnCount(LatestOnChain(channels[id].data))
           e == [proof |-> proof, turnCount |-> cnt]
<1>1. /\ AddPendingMove /\ moves = 0 /\ Seats(id) = 2 /\ cnt > KnownTurnCount(id)
      /\ pending' = [pending EXCEPT !.channels = With(@, id, e)]
  BY DEF AddPendingStateProof, AddPendingMove
<1>2. PendingShape(p) /\ PendingFits(p, channels)
  BY <1>1 DEF LogicInv
<1>3. cnt \in Nat
  BY AgreedParts, EndIsState, RulesAssumption
<1>4. onChain \in Nat
  <2>1. channels[id].data \in Channels
    BY <1>1, RowParts DEF Match
  <2>2. QED
    BY <2>1, EndIsState, RulesAssumption DEF LatestOnChain, Channels
<1>5. cnt > onChain
  <2>1. CASE id \in DOMAIN p.channels
    <3>1. KnownTurnCount(id) \in Nat /\ KnownTurnCount(id) > onChain
      BY <1>2, <2>1 DEF PendingFits, PendingProof, KnownTurnCount
    <3> HIDE DEF cnt, onChain
    <3>2. QED
      BY <1>1, <1>3, <1>4, <3>1
  <2>2. CASE id \notin DOMAIN p.channels
    BY <1>1, <2>2 DEF KnownTurnCount
  <2>3. QED
    BY <2>1, <2>2
<1>6. e.proof = proof /\ e.turnCount = cnt
  OBVIOUS
<1>7. PendingProof(e, channels[id])
  <2> HIDE DEF e
  <2>1. QED
    BY <1>1, <1>3, <1>5, <1>6 DEF PendingProof, Seats
<1> HIDE DEF e
<1>8. pending' = [create |-> p.create, join |-> p.join, abort |-> p.abort,
                  channels |-> With(p.channels, id, e)]
  BY <1>1, <1>2 DEF PendingShape
<1>9. /\ PendingShape(pending') /\ pending'.join = p.join
      /\ pending'.abort = p.abort /\ pending'.channels = With(p.channels, id, e)
  BY <1>8 DEF PendingShape
<1>10. \A i \in DOMAIN pending'.channels :
          i \in DOMAIN channels /\ PendingProof(pending'.channels[i], channels[i])
  <2>1. \A i \in DOMAIN pending'.channels :
           \/ i = id /\ pending'.channels[i] = e
           \/ i \in DOMAIN p.channels /\ pending'.channels[i] = p.channels[i]
    BY <1>9 DEF With
  <2>2. QED
    BY <1>2, <1>7, <2>1 DEF PendingFits
<1>11. PendingFits(pending', channels)
  BY <1>2, <1>9, <1>10 DEF PendingFits
<1>12. QED
  BY <1>1, <1>9, <1>11, PendingKeeps

LEMMA OffChainStep ==
    ASSUME LogicInv, NEW r \in Reinits, NEW mv \in BoardMoves, OffChainMove(r, mv)
    PROVE  LogicInv'
<1> DEFINE old == agreed[r]
           latest == old[Len(old)]
           new == ExtendStateProof(r, latest, mv)
<1>1. /\ r \in DOMAIN agreed /\ CanExtend(latest, mv)
      /\ agreed' = [agreed EXCEPT ![r] = Append(old, new)]
      /\ height' = height /\ moves' = moves /\ channels' = channels
      /\ extradata' = extradata /\ won' = won /\ lost' = lost
      /\ usedTxids' = usedTxids /\ pending' = pending /\ joined' = joined
  BY DEF OffChainMove
<1>2. GoodAgreed(agreed)
  BY DEF LogicInv
<1>3. /\ old \in Seq(StateProofs) /\ Len(old) \in 1 .. Len(old) /\ Len(old) \in Nat
      /\ \A i \in 1 .. Len(old) : VerifyStateProof(r, old[i])
  BY <1>1, <1>2 DEF GoodAgreed
<1>4. latest \in StateProofs /\ VerifyStateProof(r, latest)
  BY <1>3
<1>5. new \in StateProofs /\ VerifyStateProof(r, new)
  <2> HIDE DEF latest
  <2>1. QED
    BY <1>1, <1>4, ExtendedProofVerifies
<1> HIDE DEF new
<1> DEFINE s == Append(old, new)
<1>6. /\ s \in Seq(StateProofs) /\ Len(s) = Len(old) + 1
      /\ \A i \in 1 .. Len(s) : s[i] = IF i <= Len(old) THEN old[i] ELSE new
  BY <1>3, <1>5, AppendProperties
<1> HIDE DEF s, old
<1>7. Len(s) > 0 /\ \A i \in 1 .. Len(s) : VerifyStateProof(r, s[i])
  BY <1>3, <1>5, <1>6
<1>8. GoodAgreed(agreed')
  <2>1. /\ DOMAIN agreed' = DOMAIN agreed /\ agreed'[r] = s
        /\ agreed' = [q \in DOMAIN agreed' |-> agreed'[q]]
        /\ \A q \in DOMAIN agreed : q # r => agreed'[q] = agreed[q]
    BY <1>1 DEF s
  <2>2. QED
    BY <1>2, <1>6, <1>7, <2>1 DEF GoodAgreed
<1>9. BlockInv'
  BY <1>1 DEF LogicInv, BlockInv, Txids
<1>10. QED
  BY <1>1, <1>8, <1>9 DEF LogicInv

-----------------------------------------------------------------------------
LEMMA LogicStep == LogicInv /\ [Next]_vars => LogicInv'
<1> SUFFICES ASSUME LogicInv, [Next]_vars PROVE LogicInv'
  OBVIOUS
<1>1. ASSUME NEW name \in Names, NEW txid \in Txids,
             HandleCreateChannel(name, txid) \/ PendingCreate(name, txid)
      PROVE  LogicInv'
  BY <1>1, CreateStep, PendingStep
<1>2. ASSUME NEW id \in DOMAIN channels, NEW name \in Names,
             \/ \E txid \in Txids : HandleJoinChannel(name, txid, id)
             \/ HandleAbortChannel(name, id)
             \/ \E r \in Reinits : HandleDeclareLoss(name, id, r)
             \/ PendingJoin(name, id)
             \/ PendingAbort(name, id)
      PROVE  LogicInv'
  BY <1>2, JoinStep, AbortStep, DeclareLossStep, PendingStep
<1>3. ASSUME NEW id \in DOMAIN channels, NEW proof \in AgreedProofs,
             \/ \E isDispute \in BOOLEAN : HandleDisputeResolution(id, proof, isDispute)
             \/ AddPendingStateProof(id, proof)
      PROVE  LogicInv'
  BY <1>3, DisputeResolutionStep, PendingProofStep, Zenon
<1>4. ASSUME NEW r \in Reinits, NEW mv \in BoardMoves, OffChainMove(r, mv)
      PROVE  LogicInv'
  BY <1>4, OffChainStep
<1>5. CASE EndBlock
  BY <1>5, EndBlockStep
<1>6. CASE UNCHANGED vars
  <2>1. /\ height' = height /\ moves' = moves /\ channels' = channels
        /\ extradata' = extradata /\ won' = won /\ lost' = lost /\ pending' = pending
        /\ usedTxids' = usedTxids /\ agreed' = agreed /\ joined' = joined
    BY <1>6 DEF vars
  <2>2. BlockInv'
    BY <2>1 DEF LogicInv, BlockInv, Txids
  <2>3. QED
    BY <2>1, <2>2 DEF LogicInv
<1>7. QED
  BY <1>1, <1>2, <1>3, <1>4, <1>5, <1>6, Zenon DEF Next

LEMMA LogicInvariant == Spec => []LogicInv
<1>1. QED
  BY LogicInit, LogicStep, PTL DEF Spec

-----------------------------------------------------------------------------
(* EveryMatchCountsOnce of module ShipsLogic, for all games of two: a      *)
(* match on chain is open, or was won once and lost once, and the CHECKs   *)
(* of ProcessExpiredDisputes (logic.cpp) hold.                             *)
THEOREM MatchesCountOnce == Spec => []EveryMatchCountsOnce
<1>1. LogicInv => EveryMatchCountsOnce
  <2> SUFFICES ASSUME LogicInv PROVE EveryMatchCountsOnce
    OBVIOUS
  <2>1. OpenMatches = Joined(channels)
    BY OpenFinite
  <2>2. /\ Total(won) = joined - Cardinality(OpenMatches)
        /\ Total(lost) = joined - Cardinality(OpenMatches)
    BY <2>1 DEF LogicInv, GoodStats
  <2>3. ASSUME NEW id \in OpenMatches
        PROVE  WhoseTurn(LatestOnChain(channels[id].data)) # NO_TURN
    BY RowParts DEF OpenMatches, Match
  <2>4. ASSUME NEW id \in (DOMAIN channels) \ OpenMatches
        PROVE  ~HasDispute(channels[id].data)
    BY RowParts DEF OpenMatches, Waiting, NoData, HasDispute
  <2>5. QED
    BY <2>2, <2>3, <2>4 DEF EveryMatchCountsOnce
<1>2. QED
  BY <1>1, LogicInvariant, PTL

(* NothingOverdue of module ShipsLogic: TimeOutChannels and                *)
(* ProcessExpiredDisputes (logic.cpp) leave nothing for longer than its    *)
(* time, although they look at one block height at a time.                 *)
THEOREM NothingStaysOverdue == Spec => []NothingOverdue
<1>1. LogicInv => NothingOverdue
  <2> SUFFICES ASSUME LogicInv PROVE NothingOverdue
    OBVIOUS
  <2>1. ASSUME NEW id \in DOMAIN extradata, extradata[id].participants = 1
        PROVE  extradata[id].createdheight + CHANNEL_TIMEOUT_BLOCKS >= height
    <3>1. id \in DOMAIN channels
      BY DEF LogicInv, GoodTables
    <3>2. QED
      BY <2>1, <3>1, RowParts DEF Waiting, Match
  <2>2. ASSUME NEW id \in OpenMatches, HasDispute(channels[id].data)
        PROVE  channels[id].data.disputeHeight + DISPUTE_BLOCKS >= height
    BY <2>2, RowParts DEF OpenMatches, Match
  <2>3. QED
    BY <2>1, <2>2 DEF NothingOverdue
<1>2. QED
  BY <1>1, LogicInvariant, PTL

(* PendingIsCurrent of module ShipsLogic: what ShipsPending shows between  *)
(* blocks fits the confirmed state.                                        *)
THEOREM PendingMovesAreCurrent == Spec => []PendingIsCurrent
<1>1. LogicInv => PendingIsCurrent
  <2> SUFFICES ASSUME LogicInv, moves = 0 PROVE PendingIsCurrent
    BY DEF PendingIsCurrent
  <2>1. PendingFits(pending, channels)
    BY DEF LogicInv
  <2>2. QED
    BY <2>1 DEF PendingFits, PendingProof, PendingIsCurrent, OpenMatches, Seats
<1>2. QED
  BY <1>1, LogicInvariant, PTL

(* DisputeGetsItsTime of module ShipsLogic: the end of a block closes      *)
(* only matches whose dispute had DISPUTE_BLOCKS blocks to be answered,    *)
(* but for the heights at which ProcessExpiredDisputes wraps.              *)
THEOREM DisputesGetTheirTime == Spec => DisputeGetsItsTime
<1> DEFINE Closed(id) ==
              /\ HasDispute(channels[id].data)
              /\ \/ channels[id].data.disputeHeight + DISPUTE_BLOCKS <= height
                 \/ height < DISPUTE_BLOCKS
           A == height' # height => \A id \in OpenMatches \ DOMAIN channels' : Closed(id)
<1>1. LogicInv /\ [Next]_vars => [A]_vars
  <2> SUFFICES ASSUME LogicInv, Next, height' # height,
                      NEW id \in OpenMatches \ DOMAIN channels'
               PROVE  Closed(id)
    OBVIOUS
  <2>1. EndBlock
    BY ZenonT(60) DEF Next, HandleCreateChannel, PendingCreate, HandleJoinChannel,
           HandleAbortChannel, HandleDeclareLoss, PendingJoin, PendingAbort,
           HandleDisputeResolution, AddPendingStateProof, OffChainMove,
           ProcessMove, AddPendingMove
  <2>2. id \in DOMAIN channels /\ Seats(id) = 2 /\ Match(channels[id], extradata[id], height)
    BY RowParts DEF OpenMatches
  <2>3. id \in Expired(height) \cup TimedOut(height)
    BY <2>1, <2>2 DEF EndBlock, DeleteChannels, Without
  <2>4. id \notin TimedOut(height)
    BY <2>2 DEF TimedOut, Match
  <2> DEFINE d == channels[id].data.disputeHeight
  <2>5. HasDispute(channels[id].data) /\ d <= (height - DISPUTE_BLOCKS) % UIntMod
    BY <2>3, <2>4 DEF Expired, QueryForDisputeHeight
  <2>6. d \in Nat
    BY <2>2 DEF Match, Channels
  <2>7. height \in Nat /\ DISPUTE_BLOCKS \in Nat /\ height < UIntMod /\ UIntMod \in Nat
    BY LogicAssumption DEF LogicInv, BlockInv
  <2>8. d + DISPUTE_BLOCKS <= height \/ height < DISPUTE_BLOCKS
    <3> HIDE DEF d
    <3>1. CASE height >= DISPUTE_BLOCKS
      <4>1. (height - DISPUTE_BLOCKS) % UIntMod = height - DISPUTE_BLOCKS
        BY <2>7, <3>1, ModIdentity
      <4>2. QED
        BY <2>5, <2>6, <2>7, <4>1
    <3>2. QED
      BY <2>7, <3>1
  <2>9. QED
    BY <2>5, <2>8
<1>2. QED
  BY <1>1, LogicInvariant, PTL DEF Spec, DisputeGetsItsTime
=============================================================================
