--------------------------- MODULE ChannelProofs ----------------------------
(***************************************************************************)
(* Safety of a game channel for every board game, number of players and of *)
(* reinitialisations, and every bound on faults, requests and automoves.   *)
(***************************************************************************)
EXTENDS Channel, StateProofTheorems, SequenceTheorems

-----------------------------------------------------------------------------
(* The invariant, by parts. *)

(* A state known for reinitialisation r can be proved, and is not behind   *)
(* the chain.                                                              *)
GoodEntry(r, e) ==
    /\ e \in Entries
    /\ VerifyStateProof(r, e.proof)
    /\ ProofCount(e.proof) >= e.onChainTurn

GoodRolling(rs) ==
    /\ rs \in RollingStates
    /\ \A r \in Reinits : Known(rs, r) => GoodEntry(r, rs.reinits[r])
    /\ rs.reinitId \in Reinits => Known(rs, rs.reinitId)

(* The CHECKs fail in the known ways only. *)
GoodCheck(m) == m.check = NoCheck \/ SignatureRefused(m) \/ MovedWithoutChannel(m)

(* The manager of a channel that exists has a current reinitialisation,    *)
(* and a dispute is against someone.                                       *)
GoodManager(m) ==
    /\ m \in Managers
    /\ GoodRolling(m.rs)
    /\ m.exists => m.rs.reinitId \in Reinits
    /\ m.dispute # NoDispute => m.dispute.turn # NO_TURN
    /\ GoodCheck(m)

GoodChannel(ch) ==
    /\ ch \in Channels
    /\ VerifyStateProof(ch.reinit, ch.proof)
    /\ HasDispute(ch) => WhoseTurn(LatestOnChain(ch)) # NO_TURN

ChainInv ==
    /\ chain \in Seq([ch : Channels \cup {NoChannel}, tx : Txs \cup {NoTx}])
    /\ \A i \in 1 .. Len(chain) : chain[i].ch # NoChannel => GoodChannel(chain[i].ch)

(* Between its methods a manager has nothing left to send. *)
DaemonInv ==
    /\ mempool \subseteq Txs \ {NoTx}
    /\ mgr \in [Players -> Managers]
    /\ snapshot \in [Players -> Channels \cup {NoChannel, NoSnapshot}]
    /\ inbox \in [Players -> Seq(Messages)]
    /\ \A p \in Players :
          /\ GoodManager(mgr[p]) /\ mgr[p].out = <<>> /\ mgr[p].txs = {}
          /\ snapshot[p] \notin {NoChannel, NoSnapshot} => GoodChannel(snapshot[p])

BoundInv == /\ requests \in 0 .. MaxRequests
            /\ faults \in 0 .. MaxFaults
            /\ restarted \subseteq Players

ChannelInv == ChainInv /\ DaemonInv /\ BoundInv

-----------------------------------------------------------------------------
(* The loop of ProcessAutoMoves: what holds before it and is kept by each  *)
(* round holds after it.                                                   *)
LEMMA AutoMovesInduction ==
    ASSUME NEW S, NEW m \in S, NEW me,
           NEW wallet,
           \A x \in S, sign \in BOOLEAN : AutoStep(x, me, sign) \in S
    PROVE  ProcessAutoMoves(m, me, wallet) \in S
<1> DEFINE Signs(k) == k <= wallet.signs
           Steps(g) == [k \in 0 .. MaxAutoMoves |->
                           IF k = 0 THEN m ELSE AutoStep(g[k - 1], me, Signs(k))]
           Runs0(n) == {g \in [0 .. n -> S] :
                           /\ g[0] = m
                           /\ \A k \in 1 .. n : g[k] = AutoStep(g[k - 1], me, Signs(k))}
           T == {n \in Nat : Runs0(n) = {}}
<1>0. \A k : Signs(k) \in BOOLEAN
  OBVIOUS
<1>1. MaxAutoMoves \in Nat
  BY AutoMoveAssumption
<1> HIDE DEF Signs
<1>2. T = {}
  <2> SUFFICES ASSUME T # {} PROVE FALSE
    OBVIOUS
  <2>1. PICK n \in T : \A j \in T : n <= j
    BY LeastNumber
  <2>2. CASE n = 0
    <3>1. [k \in 0 .. 0 |-> m] \in Runs0(0)
      OBVIOUS
    <3>2. QED
      BY <2>2, <3>1
  <2>3. CASE n # 0
    <3>1. n - 1 \in Nat /\ n - 1 \notin T
      <4>1. n \in Nat
        BY <2>1
      <4> HIDE DEF T
      <4>2. QED
        BY <2>1, <2>3, <4>1
    <3>2. PICK g \in Runs0(n - 1) : TRUE
      BY <3>1
    <3> DEFINE h == [k \in 0 .. n |-> IF k = n THEN AutoStep(g[n - 1], me, Signs(n))
                                           ELSE g[k]]
    <3>3. /\ g \in [0 .. n - 1 -> S] /\ g[0] = m
          /\ \A k \in 1 .. n - 1 : g[k] = AutoStep(g[k - 1], me, Signs(k))
      BY <3>2
    <3>4. h \in [0 .. n -> S] /\ h[0] = m
      BY <1>0, <2>3, <3>1, <3>3
    <3>5. \A k \in 1 .. n : h[k] = AutoStep(h[k - 1], me, Signs(k))
      BY <2>3, <3>1, <3>3
    <3>6. h \in Runs0(n)
      BY <3>4, <3>5
    <3>7. QED
      BY <3>6
  <2>4. QED
    BY <2>2, <2>3
<1>3. PICK g \in Runs0(MaxAutoMoves) : TRUE
  BY <1>1, <1>2
<1>4. g = Steps(g)
  BY <1>1, <1>3
<1> DEFINE step == CHOOSE f : f = Steps(f)
<1>5. step = Steps(step)
  BY <1>4, Zenon
<1>6. ProcessAutoMoves(m, me, wallet) = step[MaxAutoMoves]
  BY DEF ProcessAutoMoves, Signs
<1> DEFINE U == {k \in Nat : k <= MaxAutoMoves /\ step[k] \notin S}
<1>7. U = {}
  <2> HIDE DEF step
  <2> SUFFICES ASSUME U # {} PROVE FALSE
    OBVIOUS
  <2>1. PICK n \in U : \A j \in U : n <= j
    BY LeastNumber
  <2>2. n # 0
    BY <1>1, <1>5
  <2>3. n - 1 \in Nat /\ n - 1 \notin U /\ n - 1 <= MaxAutoMoves
    BY <1>1, <2>1, <2>2
  <2>4. step[n] = AutoStep(step[n - 1], me, Signs(n))
    BY <1>1, <1>5, <2>1, <2>2
  <2>5. QED
    BY <1>0, <2>1, <2>3, <2>4
<1>8. QED
  BY <1>1, <1>6, <1>7

-----------------------------------------------------------------------------
(* The count of a proof is a number. *)
LEMMA ProofCountNat ==
    ASSUME NEW proof \in StateProofs
    PROVE  ProofCount(proof) \in Nat /\ ProofCount(proof) = TurnCount(UnverifiedProofEndState(proof))
  BY EndIsState, RulesAssumption DEF ProofCount

(* The parts of a known entry. *)
LEMMA EntryParts ==
    ASSUME NEW rs, GoodRolling(rs), NEW r \in Reinits, Known(rs, r)
    PROVE  /\ rs.reinits[r] \in Entries
           /\ rs.reinits[r].proof \in StateProofs
           /\ rs.reinits[r].onChainTurn \in Nat
           /\ VerifyStateProof(r, rs.reinits[r].proof)
           /\ ProofCount(rs.reinits[r].proof) >= rs.reinits[r].onChainTurn
           /\ LatestOf(rs, r) \in BoardStates
           /\ LatestOf(rs, r) = UnverifiedProofEndState(rs.reinits[r].proof)
           /\ TurnCount(LatestOf(rs, r)) = ProofCount(rs.reinits[r].proof)
<1>1. GoodEntry(r, rs.reinits[r])
  BY DEF GoodRolling
<1>2. rs.reinits[r].proof \in StateProofs /\ rs.reinits[r].onChainTurn \in Nat
  BY <1>1 DEF GoodEntry, Entries
<1>3. QED
  BY <1>1, <1>2, EndIsState DEF GoodEntry, LatestOf, ProofCount

(* The on-chain state is entered, and never an older one for a fresher. *)
LEMMA UpdateOnChainGood ==
    ASSUME NEW rs, GoodRolling(rs), NEW r \in Reinits, NEW proof \in StateProofs,
           VerifyStateProof(r, proof)
    PROVE  LET new == UpdateOnChain(rs, r, proof)
           IN  /\ GoodRolling(new)
               /\ new.reinitId = r
               /\ \A q \in Reinits \ {r} : new.reinits[q] = rs.reinits[q]
               /\ \/ new.reinits[r].proof = proof
                  \/ Known(rs, r) /\ new.reinits[r].proof = rs.reinits[r].proof
               /\ Known(rs, r) =>
                     ProofCount(new.reinits[r].proof) >= ProofCount(rs.reinits[r].proof)
<1> DEFINE cnt == ProofCount(proof)
           old == rs.reinits[r]
           e == IF Known(rs, r)
                THEN [proof |-> IF ProofCount(old.proof) >= cnt
                                THEN old.proof ELSE proof,
                      onChainTurn |-> IF cnt > old.onChainTurn
                                      THEN cnt ELSE old.onChainTurn]
                ELSE [proof |-> proof, onChainTurn |-> cnt]
           new == UpdateOnChain(rs, r, proof)
<1>1. new = [reinitId |-> r, reinits |-> [rs.reinits EXCEPT ![r] = e]]
  BY DEF UpdateOnChain
<1>2. cnt \in Nat
  BY ProofCountNat
<1>3. /\ GoodEntry(r, e)
      /\ \/ e.proof = proof
         \/ Known(rs, r) /\ e.proof = old.proof
      /\ Known(rs, r) => ProofCount(e.proof) >= ProofCount(old.proof)
  <2>1. CASE ~Known(rs, r)
    <3>1. e = [proof |-> proof, onChainTurn |-> cnt]
      BY <2>1
    <3>2. e \in Entries /\ e.proof = proof /\ e.onChainTurn = cnt
      BY <1>2, <3>1 DEF Entries
    <3>3. QED
      BY <1>2, <2>1, <3>2 DEF GoodEntry
  <2>2. CASE Known(rs, r)
    <3>1. /\ old.proof \in StateProofs /\ old.onChainTurn \in Nat
          /\ VerifyStateProof(r, old.proof)
          /\ ProofCount(old.proof) >= old.onChainTurn /\ ProofCount(old.proof) \in Nat
      BY <2>2, EntryParts, ProofCountNat
    <3>2. /\ e.proof = IF ProofCount(old.proof) >= cnt THEN old.proof ELSE proof
          /\ e.onChainTurn = IF cnt > old.onChainTurn THEN cnt ELSE old.onChainTurn
          /\ e = [proof |-> e.proof, onChainTurn |-> e.onChainTurn]
      BY <2>2
    <3> HIDE DEF e, old, cnt
    <3>3. e \in Entries
      <4>1. e.proof \in StateProofs /\ e.onChainTurn \in Nat
        BY <1>2, <3>1, <3>2
      <4>2. QED
        BY <3>2, <4>1 DEF Entries
    <3>4. CASE ProofCount(old.proof) >= cnt
      BY <1>2, <2>2, <3>1, <3>2, <3>3, <3>4 DEF GoodEntry
    <3>5. CASE ~(ProofCount(old.proof) >= cnt)
      BY <1>2, <3>1, <3>2, <3>3, <3>5 DEF GoodEntry, cnt
    <3>6. QED
      BY <3>4, <3>5
  <2>3. QED
    BY <2>1, <2>2
<1> HIDE DEF e
<1>4. rs.reinits \in [Reinits -> Entries \cup {NoEntry}]
  BY DEF GoodRolling, RollingStates
<1>5. e \in Entries /\ e # NoEntry
  BY <1>3, RollingAssumption DEF GoodEntry
<1>6. /\ new.reinitId = r /\ new.reinits[r] = e
      /\ \A q \in Reinits \ {r} : new.reinits[q] = rs.reinits[q]
      /\ new \in RollingStates
  BY <1>1, <1>4, <1>5 DEF RollingStates
<1> HIDE DEF new
<1>7. GoodRolling(new)
  BY <1>3, <1>5, <1>6 DEF GoodRolling, Known
<1>8. QED
  BY <1>3, <1>6, <1>7 DEF new

(* The entry of a reinitialisation gets a proof with a better state. *)
LEMMA SetProofGood ==
    ASSUME NEW rs, GoodRolling(rs), NEW r \in Reinits, NEW proof \in StateProofs,
           Known(rs, r), VerifyStateProof(r, proof),
           ProofCount(proof) > ProofCount(rs.reinits[r].proof)
    PROVE  LET new == [rs EXCEPT !.reinits[r].proof = proof]
           IN  /\ GoodRolling(new)
               /\ new.reinitId = rs.reinitId
               /\ \A q \in Reinits \ {r} : new.reinits[q] = rs.reinits[q]
               /\ Known(new, r) /\ new.reinits[r].proof = proof
<1> DEFINE new == [rs EXCEPT !.reinits[r].proof = proof]
           old == rs.reinits[r]
           e == [old EXCEPT !.proof = proof]
<1>1. rs.reinits \in [Reinits -> Entries \cup {NoEntry}] /\ rs \in RollingStates
  BY DEF GoodRolling, RollingStates
<1>2. /\ old \in Entries /\ old.proof \in StateProofs /\ old.onChainTurn \in Nat
      /\ ProofCount(old.proof) >= old.onChainTurn
      /\ ProofCount(old.proof) \in Nat /\ ProofCount(proof) \in Nat
  BY EntryParts, ProofCountNat
<1>3. e \in Entries /\ e.proof = proof /\ e.onChainTurn = old.onChainTurn
  BY <1>2 DEF Entries
<1>4. new = [rs EXCEPT !.reinits = [rs.reinits EXCEPT ![r] = e]]
  BY <1>1 DEF RollingStates
<1> HIDE DEF new, e
<1>5. GoodEntry(r, e)
  BY <1>2, <1>3 DEF GoodEntry
<1>6. [rs.reinits EXCEPT ![r] = e] \in [Reinits -> Entries \cup {NoEntry}]
  BY <1>1, <1>3
<1>7. /\ new \in RollingStates /\ new.reinitId = rs.reinitId
      /\ new.reinits = [rs.reinits EXCEPT ![r] = e]
  BY <1>1, <1>4, <1>6 DEF RollingStates
<1>8. new.reinits[r] = e /\ \A q \in Reinits \ {r} : new.reinits[q] = rs.reinits[q]
  BY <1>1, <1>7
<1>9. e # NoEntry
  BY <1>3, RollingAssumption
<1>10. GoodRolling(new)
  BY <1>5, <1>7, <1>8, <1>9 DEF GoodRolling, Known
<1>11. QED
  BY <1>3, <1>7, <1>8, <1>9, <1>10 DEF new, Known

(* A proof that is broadcast or made locally is taken only if it verifies  *)
(* and is fresher.                                                         *)
LEMMA UpdateWithMoveGood ==
    ASSUME NEW rs, GoodRolling(rs), NEW r \in Reinits, NEW proof \in StateProofs
    PROVE  LET new == UpdateWithMove(rs, r, proof)
           IN  /\ GoodRolling(new)
               /\ new.reinitId = rs.reinitId
               /\ \A q \in Reinits \ {r} : new.reinits[q] = rs.reinits[q]
               /\ \/ new = rs
                  \/ /\ Known(rs, r) /\ Known(new, r)
                     /\ VerifyStateProof(r, proof)
                     /\ new.reinits[r].proof = proof
                     /\ ProofCount(proof) > ProofCount(rs.reinits[r].proof)
<1>1. CASE ~AcceptsMove(rs, r, proof)
  BY <1>1 DEF UpdateWithMove
<1>2. CASE AcceptsMove(rs, r, proof)
  <2>1. /\ Known(rs, r) /\ VerifyStateProof(r, proof)
        /\ ProofCount(proof) > ProofCount(rs.reinits[r].proof)
    BY <1>2, EntryParts DEF AcceptsMove
  <2>2. UpdateWithMove(rs, r, proof) = [rs EXCEPT !.reinits[r].proof = proof]
    BY <1>2 DEF UpdateWithMove
  <2>3. QED
    BY <2>1, <2>2, SetProofGood
<1>3. QED
  BY <1>1, <1>2

-----------------------------------------------------------------------------
(* The types of a manager's parts. *)
LEMMA ManagerParts ==
    ASSUME NEW m \in Managers
    PROVE  /\ m.rs \in RollingStates /\ m.exists \in BOOLEAN
           /\ m.stopped \in BOOLEAN /\ m.auto \in BOOLEAN
           /\ m.dispute \in {NoDispute} \cup
                [turn : Players \cup {NO_TURN}, count : Nat,
                 pendingResolution : Txs \cup {NoTx}]
           /\ m.pendingDispute \in Txs \cup {NoTx}
           /\ m.check \in Checks /\ m.out \in Seq(Messages)
           /\ m.txs \in SUBSET (Txs \cup {NoTx})
  BY DEF Managers

(* The current state and its proof. *)
LEMMA CurrentParts ==
    ASSUME NEW m, GoodManager(m), m.rs.reinitId \in Reinits
    PROVE  LET r == m.rs.reinitId
           IN  /\ Known(m.rs, r)
               /\ GetStateProof(m.rs) = m.rs.reinits[r].proof
               /\ GetStateProof(m.rs) \in StateProofs
               /\ VerifyStateProof(r, GetStateProof(m.rs))
               /\ Latest(m) = UnverifiedProofEndState(GetStateProof(m.rs))
               /\ Latest(m) \in BoardStates
               /\ TurnCount(Latest(m)) \in Nat
               /\ TurnCount(Latest(m)) = ProofCount(GetStateProof(m.rs))
               /\ GetOnChainTurnCount(m.rs) \in Nat
               /\ TurnCount(Latest(m)) >= GetOnChainTurnCount(m.rs)
<1>1. GoodRolling(m.rs) /\ Known(m.rs, m.rs.reinitId)
  BY DEF GoodManager, GoodRolling
<1>2. QED
  BY <1>1, EntryParts, RulesAssumption
     DEF GetStateProof, Latest, GetLatestState, GetOnChainTurnCount

(* Automoves are looked for on an existing channel, or after a message has *)
(* brought a state fresher than what was on chain.                         *)
Ready(m) ==
    /\ ~m.stopped
    /\ m.exists \/ TurnCount(Latest(m)) > GetOnChainTurnCount(m.rs)

(* x is what m becomes by local moves, or by the failure of a CHECK: only  *)
(* the state for the current reinitialisation gets better.                 *)
Moved(m, x) ==
    /\ GoodManager(x) /\ Ready(x)
    /\ x.rs.reinitId = m.rs.reinitId
    /\ x.exists = m.exists /\ x.stopped = m.stopped /\ x.dispute = m.dispute
    /\ x.out = m.out /\ x.txs = m.txs

(* What the clauses about the CHECKs look at. *)
LEMMA SameCheck ==
    ASSUME NEW m, NEW x, x.rs = m.rs, x.exists = m.exists, x.stopped = m.stopped,
           x.check = m.check
    PROVE  (GoodCheck(m) => GoodCheck(x)) /\ (Ready(m) => Ready(x))
  BY DEF GoodCheck, SignatureRefused, MovedWithoutChannel, Latest, Ready

(* The fields that a change of the rolling state leaves. *)
LEMMA ManagerWith ==
    ASSUME NEW m \in Managers
    PROVE  \A rs \in RollingStates :
              LET x == [m EXCEPT !.rs = rs]
              IN  /\ x \in Managers /\ x.rs = rs /\ x.check = m.check
                  /\ x.exists = m.exists /\ x.stopped = m.stopped
                  /\ x.dispute = m.dispute /\ x.auto = m.auto
                  /\ x.out = m.out /\ x.txs = m.txs
  BY DEF Managers

(* The same for the flags. *)
LEMMA ManagerFlags ==
    ASSUME NEW m \in Managers, NEW b \in BOOLEAN
    PROVE  /\ LET y == [m EXCEPT !.auto = b]
              IN  /\ y \in Managers /\ y.rs = m.rs /\ y.check = m.check
                  /\ y.exists = m.exists /\ y.dispute = m.dispute
                  /\ y.stopped = m.stopped /\ y.out = m.out /\ y.txs = m.txs
           /\ LET y == [m EXCEPT !.exists = b]
              IN  /\ y \in Managers /\ y.rs = m.rs /\ y.check = m.check
                  /\ y.exists = b /\ y.dispute = m.dispute
                  /\ y.out = m.out /\ y.txs = m.txs
           /\ LET y == [m EXCEPT !.stopped = b]
              IN  /\ y \in Managers /\ y.rs = m.rs /\ y.check = m.check
                  /\ y.exists = m.exists /\ y.dispute = m.dispute
                  /\ y.out = m.out /\ y.txs = m.txs
  BY DEF Managers

(* A failed CHECK leaves the other fields. *)
LEMMA FailsParts ==
    ASSUME NEW m \in Managers, NEW name \in Checks
    PROVE  LET x == Fails(m, name)
           IN  /\ x \in Managers /\ x.rs = m.rs /\ x.check = name
               /\ x.exists = m.exists /\ x.stopped = m.stopped
               /\ x.dispute = m.dispute /\ x.out = m.out /\ x.txs = m.txs
  BY DEF Managers, Fails

(* A local move is made: of its CHECKs only the one on `exists' can fail. *)
LEMMA ApplyLocalMoveGood ==
    ASSUME NEW m, GoodManager(m), m.rs.reinitId \in Reinits, Ready(m), m.check = NoCheck,
           NEW me \in Players, NEW mv \in BoardMoves, IsLocalMove(m, me, mv)
    PROVE  LET x == ApplyLocalMove(m, mv)
               r == m.rs.reinitId
               new == ExtendStateProof(r, GetStateProof(m.rs), mv)
           IN  /\ Moved(m, x)
               /\ \/ x.rs = m.rs
                  \/ /\ x.rs = [m.rs EXCEPT !.reinits[r].proof = new]
                     /\ x.check = m.check
<1> DEFINE x == ApplyLocalMove(m, mv)
           r == m.rs.reinitId
           proof == GetStateProof(m.rs)
           new == ExtendStateProof(r, proof, mv)
           rs == [m.rs EXCEPT !.reinits[r].proof = new]
<1>1. /\ Known(m.rs, r) /\ proof = m.rs.reinits[r].proof
      /\ proof \in StateProofs /\ VerifyStateProof(r, proof)
      /\ GoodRolling(m.rs) /\ m \in Managers
  BY CurrentParts DEF GoodManager
<1>2. CanExtend(proof, mv)
  BY DEF IsLocalMove
<1>3. /\ new \in StateProofs /\ VerifyStateProof(r, new)
      /\ ProofCount(new) > ProofCount(proof)
  BY <1>1, <1>2, ExtendedProofVerifies DEF ProofCount
<1> HIDE DEF new, proof
<1>4. AcceptsMove(m.rs, r, new) /\ SignalsChange(m.rs, r, new)
  BY <1>1, <1>3, EntryParts DEF AcceptsMove, SignalsChange
<1>5. UpdateWithMove(m.rs, r, new) = rs
  BY <1>4 DEF UpdateWithMove
<1>6. GoodRolling(rs) /\ rs.reinitId = r
  BY <1>1, <1>3, SetProofGood
<1> HIDE DEF rs
<1>7. CASE m.stopped \/ ~m.exists
  <2>1. x = Fails(m, "!stopped && exists")
    BY <1>7 DEF ApplyLocalMove
  <2>2. /\ x \in Managers /\ x.rs = m.rs /\ x.check = "!stopped && exists"
        /\ x.exists = m.exists /\ x.stopped = m.stopped /\ x.dispute = m.dispute
        /\ x.out = m.out /\ x.txs = m.txs
    <3>1. "!stopped && exists" \in Checks
      BY DEF Checks
    <3> DEFINE y == Fails(m, "!stopped && exists")
    <3>2. /\ y \in Managers /\ y.rs = m.rs /\ y.check = "!stopped && exists"
          /\ y.exists = m.exists /\ y.stopped = m.stopped /\ y.dispute = m.dispute
          /\ y.out = m.out /\ y.txs = m.txs
      BY <1>1, <3>1, FailsParts, Zenon
    <3>3. QED
      BY <2>1, <3>2, Zenon
  <2> HIDE DEF x
  <2>3. GoodCheck(x) /\ Ready(x)
    BY <1>7, <2>2 DEF GoodCheck, MovedWithoutChannel, Ready, Latest
  <2>3b. Moved(m, x)
    BY <2>2, <2>3 DEF Moved, GoodManager
  <2>4. QED
    BY <2>2, <2>3b DEF x
<1>8. CASE ~(m.stopped \/ ~m.exists)
  <2>1. x = [m EXCEPT !.rs = rs]
    BY <1>4, <1>5, <1>8 DEF ApplyLocalMove, new, proof
  <2>2. rs \in RollingStates
    BY <1>6 DEF GoodRolling
  <2>3. /\ x \in Managers /\ x.rs = rs /\ x.check = m.check
        /\ x.exists = m.exists /\ x.stopped = m.stopped /\ x.dispute = m.dispute
        /\ x.out = m.out /\ x.txs = m.txs
    BY <1>1, <2>1, <2>2, ManagerWith
  <2> HIDE DEF x
  <2>3b. GoodCheck(x) /\ Ready(x)
    BY <1>8, <2>3 DEF GoodCheck, Ready
  <2>4. Moved(m, x)
    BY <1>6, <2>3, <2>3b DEF Moved, GoodManager
  <2>5. QED
    BY <2>3, <2>4 DEF x, rs, new, proof
<1>9. QED
  BY <1>7, <1>8

(* One round of ProcessAutoMoves. *)
LEMMA AutoStepGood ==
    ASSUME NEW m, GoodManager(m), m.rs.reinitId \in Reinits, Ready(m),
           NEW me \in Players, NEW sign \in BOOLEAN
    PROVE  LET x == AutoStep(m, me, sign)
           IN  /\ Moved(m, x)
               /\ \/ x.rs = m.rs
                  \/ \E mv \in BoardMoves :
                        /\ IsLocalMove(m, me, mv) /\ m.check = NoCheck
                        /\ x = ApplyLocalMove(m, mv)
<1> DEFINE x == AutoStep(m, me, sign)
<1>1. CASE ~AutoMoveDue(m, me)
  BY <1>1 DEF AutoStep, Moved
<1>2. CASE AutoMoveDue(m, me)
  <2> DEFINE mv == AutoMove(Latest(m))
  <2>1. /\ Latest(m) \in BoardStates /\ WhoseTurn(Latest(m)) = me /\ HasAutoMove(Latest(m))
        /\ Latest(m) = UnverifiedProofEndState(GetStateProof(m.rs)) /\ m.check = NoCheck
    BY <1>2, CurrentParts DEF AutoMoveDue
  <2>2. me # NO_TURN
    BY DEF Players, NO_TURN
  <2>3. mv \in BoardMoves /\ IsLocalMove(m, me, mv)
    BY <2>1, <2>2, AutoMoveAssumption DEF IsLocalMove, CanExtend
  <2>4. CASE sign \/ m.stopped \/ ~m.exists
    <3>1. x = ApplyLocalMove(m, mv)
      BY <1>2, <2>3, <2>4 DEF AutoStep
    <3> HIDE DEF mv, x
    <3>2. Moved(m, x)
      BY <2>1, <2>3, <3>1, ApplyLocalMoveGood
    <3>3. QED
      BY <2>1, <2>3, <3>1, <3>2 DEF x
  <2>5. CASE ~(sign \/ m.stopped \/ ~m.exists)
    <3>1. x = Fails(m, NotSigned)
      BY <1>2, <2>3, <2>5 DEF AutoStep
    <3>2. NotSigned \in Checks /\ m \in Managers
      BY DEF Checks, GoodManager
    <3>3. /\ x \in Managers /\ x.rs = m.rs /\ x.check = NotSigned
          /\ x.exists = m.exists /\ x.stopped = m.stopped /\ x.dispute = m.dispute
          /\ x.out = m.out /\ x.txs = m.txs
      <4> DEFINE y == Fails(m, NotSigned)
      <4>1. /\ y \in Managers /\ y.rs = m.rs /\ y.check = NotSigned
            /\ y.exists = m.exists /\ y.stopped = m.stopped /\ y.dispute = m.dispute
            /\ y.out = m.out /\ y.txs = m.txs
        BY <3>2, FailsParts, Zenon
      <4>2. QED
        BY <3>1, <4>1, Zenon
    <3> HIDE DEF x
    <3>4. GoodCheck(x) /\ Ready(x)
      BY <2>5, <3>3 DEF GoodCheck, SignatureRefused, Ready
    <3>5. Moved(m, x)
      BY <3>3, <3>4 DEF Moved, GoodManager
    <3>6. QED
      BY <3>3, <3>5 DEF x
  <2>6. QED
    BY <2>4, <2>5
<1>3. QED
  BY <1>1, <1>2

(* All the automoves. *)
LEMMA AutoMovesGood ==
    ASSUME NEW m, GoodManager(m), m.rs.reinitId \in Reinits, Ready(m),
           NEW me \in Players, NEW wallet
    PROVE  Moved(m, ProcessAutoMoves(m, me, wallet))
<1> DEFINE S == {x \in Managers : Moved(m, x)}
<1>1. m \in S
  BY DEF Moved, GoodManager
<1>2. ASSUME NEW x \in S, NEW sign \in BOOLEAN PROVE AutoStep(x, me, sign) \in S
  <2>1. Moved(m, x) /\ GoodManager(x) /\ x.rs.reinitId \in Reinits /\ Ready(x)
    BY DEF Moved
  <2>2. Moved(x, AutoStep(x, me, sign))
    BY <2>1, AutoStepGood
  <2>3. QED
    BY <2>1, <2>2 DEF Moved, GoodManager
<1> HIDE DEF S
<1>3. ProcessAutoMoves(m, me, wallet) \in S
  BY <1>1, <1>2, AutoMovesInduction
<1>4. QED
  BY <1>3 DEF S

(* What a method sends and broadcasts is a proof of the current state, or  *)
(* the game's own move that closes the channel.                            *)
CloseTx(m) == [kind |-> "close", by |-> 1,
               proof |-> StateProofFromReinit(m.rs.reinitId)]

CurrentTx(m, kind, me) == [kind |-> kind, by |-> me, proof |-> GetStateProof(m.rs)]

CurrentMessage(m) == [reinit |-> m.rs.reinitId, proof |-> GetStateProof(m.rs)]

LEMMA SentTypes ==
    ASSUME NEW m, GoodManager(m), m.rs.reinitId \in Reinits, NEW me \in Players
    PROVE  /\ CloseTx(m) \in Txs
           /\ CurrentTx(m, "resolution", me) \in Txs
           /\ CurrentTx(m, "dispute", me) \in Txs
           /\ CurrentMessage(m) \in Messages
<1>1. 1 \in Players
  <2>1. Participants \in Seq(STRING) /\ Participants # <<>>
    BY RulesAssumption, ChannelAssumption
  <2>2. QED
    BY <2>1 DEF Players
<1>2. StateProofFromReinit(m.rs.reinitId) \in StateProofs
  BY ReinitProofVerifies
<1>3. GetStateProof(m.rs) \in StateProofs
  BY CurrentParts
<1>4. QED
  BY <1>1, <1>2, <1>3 DEF Txs, Messages, CloseTx, CurrentTx, CurrentMessage

(* The manager x has the state of m; it has sent and broadcast no more     *)
(* than proofs of that state and the closing move.                         *)
Told(m, x, me) ==
    /\ GoodManager(x)
    /\ x.rs = m.rs
    /\ x.out \in {m.out, Append(m.out, CurrentMessage(m))}
    /\ x.txs \subseteq m.txs \cup {NoTx, CurrentTx(m, "resolution", me),
                                CurrentTx(m, "dispute", me), CloseTx(m)}

(* ProcessStateUpdate: automoves, and then what is sent about the state. *)
LEMMA ResolveGood ==
    ASSUME NEW m, GoodManager(m), m.rs.reinitId \in Reinits, NEW me \in Players,
           NEW wallet \in Wallets
    PROVE  LET x == TryResolveDispute(m, me, wallet)
           IN  /\ GoodManager(x) /\ x.rs = m.rs /\ x.out = m.out /\ x.check = m.check
               /\ x.txs \subseteq m.txs \cup {NoTx, CurrentTx(m, "resolution", me)}
<1> DEFINE x == TryResolveDispute(m, me, wallet)
           tx == SendMove(CurrentTx(m, "resolution", me), wallet)
           y == [m EXCEPT !.dispute.pendingResolution = tx]
<1>1. m \in Managers /\ (m.dispute # NoDispute => m.dispute.turn # NO_TURN)
  BY DEF GoodManager
<1>2. tx \in Txs \cup {NoTx} /\ tx \in {NoTx, CurrentTx(m, "resolution", me)}
  BY SentTypes DEF SendMove
<1>3. CASE ~CanResolve(m, me)
  <2>1. x = m
    BY <1>1, <1>3 DEF TryResolveDispute
  <2>2. QED
    BY <2>1
<1>4. CASE CanResolve(m, me)
  <2>1. x = Sent(y, tx)
    BY <1>1, <1>4 DEF TryResolveDispute, CurrentTx
  <2> HIDE DEF tx
  <2>2. m.dispute # NoDispute
    BY <1>4 DEF CanResolve
  <2>3. m.dispute \in [turn : Players \cup {NO_TURN}, count : Nat,
                      pendingResolution : Txs \cup {NoTx}]
    BY <1>1, <2>2, ManagerParts
  <2> DEFINE d == [m.dispute EXCEPT !.pendingResolution = tx]
  <2>4. /\ d \in [turn : Players \cup {NO_TURN}, count : Nat,
                  pendingResolution : Txs \cup {NoTx}]
        /\ d.turn = m.dispute.turn
    BY <1>2, <2>3
  <2>5. y = [m EXCEPT !.dispute = d]
    BY <1>1 DEF Managers
  <2> HIDE DEF d, y
  <2>6. x = [m EXCEPT !.dispute = d, !.txs = m.txs \cup {tx}]
    BY <1>1, <2>1, <2>5 DEF Sent, Managers
  <2>7. m.txs \cup {tx} \in SUBSET (Txs \cup {NoTx})
    BY <1>1, <1>2, ManagerParts
  <2>8. /\ x \in Managers /\ x.rs = m.rs /\ x.exists = m.exists /\ x.check = m.check
        /\ x.stopped = m.stopped /\ x.dispute = d /\ x.txs = m.txs \cup {tx} /\ x.out = m.out
    BY <1>1, <2>4, <2>6, <2>7 DEF Managers
  <2> HIDE DEF x
  <2>9. GoodManager(x)
    BY <1>1, <2>2, <2>4, <2>8, SameCheck DEF GoodManager
  <2>10. QED
    BY <1>2, <2>8, <2>9 DEF x
<1>5. QED
  BY <1>3, <1>4

(* A manager that also has sent tx, or broadcast msg. *)
LEMMA SentGood ==
    ASSUME NEW m, GoodManager(m), NEW tx \in Txs \cup {NoTx}
    PROVE  LET x == Sent(m, tx)
           IN  /\ GoodManager(x) /\ x.rs = m.rs /\ x.out = m.out /\ x.check = m.check
               /\ x.txs = m.txs \cup {tx}
<1> DEFINE x == Sent(m, tx)
<1>1. m \in Managers
  BY DEF GoodManager
<1>2. m.txs \cup {tx} \in SUBSET (Txs \cup {NoTx})
  BY <1>1, ManagerParts
<1>3. /\ x \in Managers /\ x.rs = m.rs /\ x.exists = m.exists /\ x.check = m.check
      /\ x.stopped = m.stopped /\ x.dispute = m.dispute
      /\ x.txs = m.txs \cup {tx} /\ x.out = m.out
  BY <1>1, <1>2 DEF Managers, Sent
<1> HIDE DEF x
<1>4. GoodManager(x)
  BY <1>3, SameCheck DEF GoodManager
<1>5. QED
  BY <1>3, <1>4 DEF x

LEMMA BroadcastGood ==
    ASSUME NEW m, GoodManager(m), m.rs.reinitId \in Reinits
    PROVE  LET x == Broadcast(m)
           IN  /\ GoodManager(x) /\ x.rs = m.rs /\ x.check = m.check
               /\ x.out = Append(m.out, CurrentMessage(m)) /\ x.txs = m.txs
<1> DEFINE x == Broadcast(m)
<1>1. m \in Managers
  BY DEF GoodManager
<1>2. CurrentMessage(m) \in Messages
  BY CurrentParts DEF CurrentMessage, Messages
<1>3. Append(m.out, CurrentMessage(m)) \in Seq(Messages)
  BY <1>1, <1>2, ManagerParts
<1>4. x = [m EXCEPT !.out = Append(m.out, CurrentMessage(m))]
  BY <1>1 DEF Broadcast, CurrentMessage
<1>5. /\ x \in Managers /\ x.rs = m.rs /\ x.exists = m.exists /\ x.check = m.check
      /\ x.stopped = m.stopped /\ x.dispute = m.dispute /\ x.txs = m.txs
      /\ x.out = Append(m.out, CurrentMessage(m))
  BY <1>1, <1>3, <1>4 DEF Managers
<1> HIDE DEF x
<1>6. GoodManager(x)
  BY <1>5, SameCheck DEF GoodManager
<1>7. QED
  BY <1>5, <1>6 DEF x

LEMMA StateUpdateGood ==
    ASSUME NEW m, GoodManager(m), m.rs.reinitId \in Reinits, Ready(m), NEW me \in Players,
           NEW broadcast \in BOOLEAN, NEW wallet \in Wallets
    PROVE  LET moved == ProcessAutoMoves(m, me, wallet)
               x == ProcessStateUpdate(m, me, broadcast, wallet)
           IN  /\ Moved(m, moved) /\ Told(moved, x, me)
               /\ x.rs.reinitId = m.rs.reinitId
<1> DEFINE moved == ProcessAutoMoves(m, me, wallet)
           told == IF broadcast \/ moved.rs # m.rs THEN Broadcast(moved) ELSE moved
           resolved == TryResolveDispute(told, me, wallet)
           x == ProcessStateUpdate(m, me, broadcast, wallet)
<1>1. x = IF moved.check # NoCheck THEN moved
          ELSE IF resolved.check # NoCheck THEN resolved
          ELSE MaybeOnChainMove(resolved, wallet)
  BY DEF ProcessStateUpdate
<1>2. /\ Moved(m, moved) /\ GoodManager(moved)
      /\ moved.rs.reinitId = m.rs.reinitId
  BY AutoMovesGood DEF Moved
<1> HIDE DEF moved, x
<1>3. /\ GoodManager(told) /\ told.rs = moved.rs /\ told.txs = moved.txs
      /\ told.out \in {moved.out, Append(moved.out, CurrentMessage(moved))}
  BY <1>2, BroadcastGood
<1> HIDE DEF told
<1>4. /\ GoodManager(resolved) /\ resolved.rs = moved.rs
      /\ resolved.out = told.out
      /\ resolved.txs \subseteq
            moved.txs \cup {NoTx, CurrentTx(moved, "resolution", me)}
  BY <1>2, <1>3, ResolveGood DEF CurrentTx
<1> HIDE DEF resolved
<1>5. Told(moved, moved, me) /\ Told(moved, resolved, me)
  BY <1>2, <1>3, <1>4 DEF Told
<1>6. Told(moved, MaybeOnChainMove(resolved, wallet), me)
  <2>1. CASE IsFinal(Latest(resolved))
    <3> DEFINE tx == SendMove(CloseTx(moved), wallet)
    <3>1. tx \in Txs \cup {NoTx} /\ tx \in {NoTx, CloseTx(moved)}
      BY <1>2, SentTypes DEF SendMove
    <3>2. MaybeOnChainMove(resolved, wallet) = Sent(resolved, tx)
      BY <1>4, <2>1 DEF MaybeOnChainMove, CloseTx
    <3> HIDE DEF tx
    <3>3. QED
      BY <1>3, <1>4, <3>1, <3>2, SentGood DEF Told
  <2>2. CASE ~IsFinal(Latest(resolved))
    BY <1>5, <2>2 DEF MaybeOnChainMove
  <2>3. QED
    BY <2>1, <2>2
<1>7. Told(moved, x, me)
  BY <1>1, <1>5, <1>6
<1>8. QED
  BY <1>2, <1>7 DEF Told, moved, x

-----------------------------------------------------------------------------
(***************************************************************************)
(* What was played: for each reinitialisation a set of board states, one   *)
(* per turn count.  Every signature that exists is on one of them, and the *)
(* player whose turn it is in any but the last knows a later one: so the   *)
(* next move is always made from the last.                                 *)
(***************************************************************************)
Histories == [Reinits -> SUBSET BoardStates]

SignedIn(H, proof) ==
    \A i \in 1 .. Len(SignedStates(proof)) :
       \A sg \in SignedStates(proof)[i].signatures :
          sg.msg.data \in H[sg.msg.reinit]

Extends(H, H2) == \A r \in Reinits : H[r] \subseteq H2[r]

OnePerCount(H) ==
    \A r \in Reinits :
       /\ ReinitState(r) \in H[r]
       /\ \A s, t \in H[r] : TurnCount(s) = TurnCount(t) => s = t

(* R is the rolling state of each player's manager. *)
LaterKnown(H, R) ==
    \A r \in Reinits : \A s, t \in H[r] : TurnCount(s) < TurnCount(t) =>
       /\ WhoseTurn(s) \in Players
       /\ Known(R[WhoseTurn(s)], r)
       /\ TurnCount(LatestOf(R[WhoseTurn(s)], r)) > TurnCount(s)

RollingIn(H, rs) ==
    \A r \in Reinits : Known(rs, r) => SignedIn(H, rs.reinits[r].proof)

Fits(H, R) == /\ OnePerCount(H) /\ LaterKnown(H, R)
              /\ \A p \in Players : RollingIn(H, R[p])

(* The manager of me goes from rs to rs2, and the history with it. *)
Grows(me, rs, rs2) ==
    \A H \in Histories, R \in [Players -> RollingStates] :
       R[me] = rs /\ Fits(H, R) =>
          \E H2 \in Histories : Extends(H, H2) /\ Fits(H2, [R EXCEPT ![me] = rs2])

(* The signed states of a proof are signed data. *)
LEMMA SignedStatesParts ==
    ASSUME NEW proof \in StateProofs, NEW i \in 1 .. Len(SignedStates(proof))
    PROVE  /\ Len(SignedStates(proof)) = Len(proof.transitions) + 1
           /\ SignedStates(proof)[i] \in SignedData
           /\ \A sg \in SignedStates(proof)[i].signatures :
                 sg.msg.reinit \in Reinits /\ sg.msg.data \in BoardStates
<1>1. Len(SignedStates(proof)) = Len(proof.transitions) + 1
  BY ProofParts DEF SignedStates
<1>2. SignedStates(proof)[i] \in SignedData
  <2>1. CASE i = 1
    BY <1>1, <2>1, ProofParts DEF SignedStates
  <2>2. CASE i # 1
    <3>1. i - 1 \in 1 .. Len(proof.transitions) /\ i \in 1 .. Len(proof.transitions) + 1
      BY <1>1, <2>2, ProofParts
    <3>2. SignedStates(proof)[i] = proof.transitions[i - 1].new_state
      BY <2>2, <3>1 DEF SignedStates
    <3>3. QED
      BY <3>1, <3>2, ProofParts
  <2>3. QED
    BY <2>1, <2>2
<1>3. \A sg \in Signatures : sg.msg.reinit \in Reinits /\ sg.msg.data \in BoardStates
  BY DEF Signatures
<1>4. SignedStates(proof)[i].signatures \in SUBSET Signatures
  BY <1>2 DEF SignedData
<1>5. QED
  BY <1>1, <1>2, <1>3, <1>4

LEMMA SignedInExtends ==
    ASSUME NEW H \in Histories, NEW H2 \in Histories, Extends(H, H2),
           NEW proof \in StateProofs, SignedIn(H, proof)
    PROVE  SignedIn(H2, proof)
  BY SignedStatesParts DEF SignedIn, Extends

(* The proof of a reinitialisation has no signatures. *)
LEMMA ReinitSignedIn ==
    ASSUME NEW H \in Histories, NEW r \in Reinits
    PROVE  SignedIn(H, StateProofFromReinit(r))
<1>1. /\ StateProofFromReinit(r).transitions = <<>>
      /\ StateProofFromReinit(r).initial_state.signatures = {}
  BY DEF StateProofFromReinit, Unsigned
<1>2. QED
  BY <1>1 DEF SignedIn, SignedStates

(* A verifying proof ends in a state of the history: its last state is     *)
(* that of the reinitialisation or has a signature.                        *)
LEMMA EndInHistory ==
    ASSUME NEW H \in Histories, NEW r \in Reinits, NEW proof \in StateProofs,
           ReinitState(r) \in H[r], VerifyStateProof(r, proof), SignedIn(H, proof)
    PROVE  UnverifiedProofEndState(proof) \in H[r]
<1> DEFINE n == Len(proof.transitions)
           states == SignedStates(proof)
<1>1. n \in Nat /\ Len(states) = n + 1 /\ states[1] = proof.initial_state
  BY ProofParts DEF SignedStates
<1>2. UnverifiedProofEndState(proof) = states[n + 1].data
  BY EndIsLastSigned
<1>3. ASSUME NEW i \in 1 .. n + 1, NEW p \in Players,
             p \in VerifyParticipantSignatures(r, states[i])
      PROVE  states[i].data \in H[r]
  <2> DEFINE sg == [addr |-> Participants[p],
                    msg |-> [reinit |-> r, topic |-> "state", data |-> states[i].data]]
  <2>1. sg \in states[i].signatures
    BY <1>3 DEF VerifyParticipantSignatures, SignatureMessage
  <2>2. sg.msg.data \in H[sg.msg.reinit]
    BY <1>1, <2>1 DEF SignedIn
  <2>3. QED
    BY <2>2
<1>4. CASE n = 0
  <2>1. CASE proof.initial_state.data = ReinitState(r)
    BY <1>1, <1>2, <1>4, <2>1
  <2>2. CASE Players \subseteq SignersFrom(r, states, 1)
    <3>1. 1 \in Players
      <4>1. Participants \in Seq(STRING) /\ Participants # <<>>
        BY RulesAssumption, ChannelAssumption
      <4>2. QED
        BY <4>1 DEF Players
    <3>2. 1 \in VerifyParticipantSignatures(r, states[1])
      BY <1>1, <1>4, <2>2, <3>1 DEF SignersFrom
    <3>3. QED
      BY <1>1, <1>2, <1>3, <1>4, <3>1, <3>2
  <2>3. QED
    BY <2>1, <2>2 DEF VerifyStateProof
<1>5. CASE n # 0
  <2>1. n \in 1 .. n /\ n + 1 \in 1 .. n + 1
    BY <1>1, <1>5
  <2>2. VerifyStateTransition(r, states[n].data, proof.transitions[n])
    BY <2>1 DEF VerifyStateProof
  <2>3. states[n + 1] = proof.transitions[n].new_state
    BY <1>1, <1>5, <2>1 DEF SignedStates
  <2>4. PICK p \in Players : p \in VerifyParticipantSignatures(r, states[n + 1])
    BY <2>2, <2>3 DEF VerifyStateTransition, VerifyParticipantSignatures
  <2>5. QED
    BY <1>2, <1>3, <2>1, <2>4
<1>6. QED
  BY <1>4, <1>5

(* A manager may learn proofs whose signatures are in the history. *)
LEMMA LearningFits ==
    ASSUME NEW H \in Histories, NEW R \in [Players -> RollingStates], Fits(H, R),
           NEW me \in Players, NEW rs2 \in RollingStates,
           GoodRolling(R[me]), GoodRolling(rs2), RollingIn(H, rs2),
           \A r \in Reinits : Known(R[me], r) =>
              /\ Known(rs2, r)
              /\ TurnCount(LatestOf(rs2, r)) >= TurnCount(LatestOf(R[me], r))
    PROVE  Fits(H, [R EXCEPT ![me] = rs2])
<1> DEFINE R2 == [R EXCEPT ![me] = rs2]
<1>1. R2[me] = rs2 /\ \A q \in Players \ {me} : R2[q] = R[q]
  OBVIOUS
<1> HIDE DEF R2
<1>2. \A p \in Players : RollingIn(H, R2[p])
  BY <1>1 DEF Fits
<1>3. LaterKnown(H, R2)
  <2> SUFFICES ASSUME NEW r \in Reinits, NEW s \in H[r], NEW t \in H[r],
                      TurnCount(s) < TurnCount(t)
               PROVE  /\ WhoseTurn(s) \in Players
                      /\ Known(R2[WhoseTurn(s)], r)
                      /\ TurnCount(LatestOf(R2[WhoseTurn(s)], r)) > TurnCount(s)
    BY DEF LaterKnown
  <2>1. /\ WhoseTurn(s) \in Players /\ Known(R[WhoseTurn(s)], r)
        /\ TurnCount(LatestOf(R[WhoseTurn(s)], r)) > TurnCount(s)
    BY DEF Fits, LaterKnown
  <2>2. CASE WhoseTurn(s) # me
    BY <1>1, <2>1, <2>2
  <2>3. CASE WhoseTurn(s) = me
    <3>1. /\ Known(rs2, r)
          /\ TurnCount(LatestOf(rs2, r)) >= TurnCount(LatestOf(R[me], r))
      BY <2>1, <2>3
    <3>2. /\ LatestOf(rs2, r) \in BoardStates /\ LatestOf(R[me], r) \in BoardStates
          /\ s \in BoardStates
      BY <2>1, <2>3, <3>1, EntryParts DEF Histories
    <3>3. /\ TurnCount(LatestOf(rs2, r)) \in Nat /\ TurnCount(LatestOf(R[me], r)) \in Nat
          /\ TurnCount(s) \in Nat
      BY <3>2, RulesAssumption
    <3>4. QED
      BY <1>1, <2>1, <2>3, <3>1, <3>3
  <2>4. QED
    BY <2>2, <2>3
<1>4. QED
  BY <1>2, <1>3 DEF Fits, R2

(***************************************************************************)
(* A player makes a move from the last state of the history: had anyone    *)
(* moved past the player's latest state, where it is the player's turn, it *)
(* was the player, who would know.                                         *)
(***************************************************************************)
LEMMA OwnMoveGrows ==
    ASSUME NEW m, GoodManager(m), m.rs.reinitId \in Reinits,
           NEW me \in Players, NEW mv \in BoardMoves, IsLocalMove(m, me, mv)
    PROVE  LET r == m.rs.reinitId
               new == ExtendStateProof(r, GetStateProof(m.rs), mv)
           IN  Grows(me, m.rs, [m.rs EXCEPT !.reinits[r].proof = new])
<1> DEFINE r == m.rs.reinitId
           proof == GetStateProof(m.rs)
           new == ExtendStateProof(r, proof, mv)
           rs == [m.rs EXCEPT !.reinits[r].proof = new]
           old == Latest(m)
           next == ApplyMove(old, mv)
<1>1. /\ Known(m.rs, r) /\ proof = m.rs.reinits[r].proof
      /\ proof \in StateProofs /\ VerifyStateProof(r, proof)
      /\ old = UnverifiedProofEndState(proof) /\ old \in BoardStates
      /\ TurnCount(old) \in Nat
      /\ GoodRolling(m.rs) /\ m.rs \in RollingStates
  BY CurrentParts DEF GoodManager, GoodRolling
<1>2. /\ CanExtend(proof, mv) /\ WhoseTurn(old) = me
      /\ WhoseTurn(old) # NO_TURN /\ IsMove(old, mv)
  BY <1>1 DEF IsLocalMove, CanExtend
<1>3. /\ new \in StateProofs /\ VerifyStateProof(r, new)
      /\ UnverifiedProofEndState(new) = next
      /\ ProofCount(new) > ProofCount(proof)
      /\ \A i \in 1 .. Len(SignedStates(new)) :
            \/ SignedStates(new)[i] = NewState(r, old, mv)
            \/ \E j \in 1 .. Len(SignedStates(proof)) :
                  SignedStates(new)[i] = SignedStates(proof)[j]
  <2> HIDE DEF proof, old
  <2> DEFINE end == UnverifiedProofEndState(proof)
  <2>1. /\ new \in StateProofs /\ VerifyStateProof(r, new)
        /\ UnverifiedProofEndState(new) = ApplyMove(end, mv)
        /\ TurnCount(UnverifiedProofEndState(new)) > TurnCount(end)
        /\ \A i \in 1 .. Len(SignedStates(new)) :
              \/ SignedStates(new)[i] = NewState(r, end, mv)
              \/ \E j \in 1 .. Len(SignedStates(proof)) :
                    SignedStates(new)[i] = SignedStates(proof)[j]
    BY <1>1, <1>2, ExtendedProofVerifies, Zenon
  <2> HIDE DEF new
  <2>2. QED
    BY <1>1, <2>1 DEF ProofCount
<1>4. /\ next \in BoardStates /\ TurnCount(next) > TurnCount(old)
      /\ TurnCount(next) \in Nat
  BY <1>1, <1>2, RulesAssumption
<1>5. /\ NewState(r, old, mv).signatures =
            {[addr |-> Participants[WhoseTurn(old)],
              msg |-> [reinit |-> r, topic |-> "state", data |-> next]]}
  BY <1>1, <1>2, NewStateSigned
<1> HIDE DEF new, proof, old, next
<1>6. /\ GoodRolling(rs) /\ rs.reinitId = r
      /\ \A q \in Reinits \ {r} : rs.reinits[q] = m.rs.reinits[q]
      /\ Known(rs, r) /\ rs.reinits[r].proof = new
  <2>1. /\ new \in StateProofs /\ VerifyStateProof(r, new)
        /\ ProofCount(new) > ProofCount(m.rs.reinits[r].proof)
    BY <1>1, <1>3
  <2>2. /\ m.rs.reinitId = r /\ r \in Reinits /\ GoodRolling(m.rs) /\ Known(m.rs, r)
        /\ ProofCount(new) > ProofCount(m.rs.reinits[r].proof)
    BY <1>1, <2>1
  <2> HIDE DEF r
  <2>3. LET x == [m.rs EXCEPT !.reinits[r].proof = new]
        IN  /\ GoodRolling(x) /\ x.reinitId = m.rs.reinitId
            /\ \A q \in Reinits \ {r} : x.reinits[q] = m.rs.reinits[q]
            /\ Known(x, r) /\ x.reinits[r].proof = new
    BY <2>1, <2>2, SetProofGood, SMTT(60)
  <2>4. QED
    BY <2>2, <2>3, Zenon
<1> HIDE DEF rs
<1>7. SUFFICES ASSUME NEW H \in Histories, NEW R \in [Players -> RollingStates],
                      R[me] = m.rs, Fits(H, R)
               PROVE  \E H2 \in Histories :
                         Extends(H, H2) /\ Fits(H2, [R EXCEPT ![me] = rs])
  BY DEF Grows, rs, new, proof
<1> DEFINE H2 == [H EXCEPT ![r] = @ \cup {next}]
<1>8. /\ H2 \in Histories /\ Extends(H, H2) /\ H2[r] = H[r] \cup {next}
      /\ \A q \in Reinits \ {r} : H2[q] = H[q]
      /\ \A q \in Reinits : H[q] \subseteq BoardStates
  BY <1>4 DEF Histories, Extends
<1> HIDE DEF H2
<1>9. old \in H[r]
  <2>1. ReinitState(r) \in H[r] /\ SignedIn(H, proof)
    BY <1>1, <1>7 DEF Fits, OnePerCount, RollingIn
  <2>2. QED
    BY <1>1, <2>1, EndInHistory
<1>10. LatestOf(R[me], r) = old
  BY <1>1, <1>7 DEF LatestOf
<1>11. \A s \in H[r] : /\ TurnCount(s) \in Nat /\ TurnCount(s) <= TurnCount(old)
                       /\ TurnCount(s) < TurnCount(next)
  <2> SUFFICES ASSUME NEW s \in H[r]
               PROVE  /\ TurnCount(s) \in Nat /\ TurnCount(s) <= TurnCount(old)
                      /\ TurnCount(s) < TurnCount(next)
    OBVIOUS
  <2>1. TurnCount(s) \in Nat
    BY <1>8, RulesAssumption
  <2>2. ~(TurnCount(old) < TurnCount(s))
    <3>1. SUFFICES ASSUME TurnCount(old) < TurnCount(s) PROVE FALSE
      OBVIOUS
    <3>2. TurnCount(LatestOf(R[me], r)) > TurnCount(old)
      BY <1>2, <1>7, <1>9, <3>1 DEF Fits, LaterKnown
    <3>3. TurnCount(old) > TurnCount(old) /\ TurnCount(old) \in Nat
      BY <1>1, <1>10, <3>2, Zenon
    <3>4. QED
      BY <3>3
  <2>3. QED
    BY <1>1, <1>4, <2>1, <2>2
<1>12. OnePerCount(H2)
  <2>1. OnePerCount(H)
    BY <1>7 DEF Fits
  <2>2. \A s, t \in H2[r] : TurnCount(s) = TurnCount(t) => s = t
    <3> SUFFICES ASSUME NEW s \in H2[r], NEW t \in H2[r], TurnCount(s) = TurnCount(t)
                 PROVE  s = t
      OBVIOUS
    <3>1. s \in H[r] \cup {next} /\ t \in H[r] \cup {next}
      BY <1>8
    <3>2. CASE s \in H[r] /\ t \in H[r]
      BY <2>1, <3>2, Zenon DEF OnePerCount
    <3>3. \A u \in H[r] : TurnCount(u) # TurnCount(next)
      BY <1>4, <1>11
    <3>4. QED
      BY <3>1, <3>2, <3>3
  <2>3. QED
    BY <1>8, <2>1, <2>2 DEF OnePerCount
<1> DEFINE R2 == [R EXCEPT ![me] = rs]
<1>13. R2[me] = rs /\ \A q \in Players \ {me} : R2[q] = R[q]
  BY <1>7
<1> HIDE DEF R2
<1>14. LatestOf(rs, r) = next /\ \A q \in Reinits \ {r} : LatestOf(rs, q) = LatestOf(R[me], q)
  BY <1>3, <1>6, <1>7 DEF LatestOf
<1>15. LaterKnown(H2, R2)
  <2> SUFFICES ASSUME NEW q \in Reinits, NEW s \in H2[q], NEW t \in H2[q],
                      TurnCount(s) < TurnCount(t)
               PROVE  /\ WhoseTurn(s) \in Players
                      /\ Known(R2[WhoseTurn(s)], q)
                      /\ TurnCount(LatestOf(R2[WhoseTurn(s)], q)) > TurnCount(s)
    BY DEF LaterKnown
  <2>1. LaterKnown(H, R) /\ OnePerCount(H)
    BY <1>7 DEF Fits
  <2>2. CASE q # r
    <3>1. s \in H[q] /\ t \in H[q]
      BY <1>8, <2>2
    <3>2. /\ WhoseTurn(s) \in Players /\ Known(R[WhoseTurn(s)], q)
          /\ TurnCount(LatestOf(R[WhoseTurn(s)], q)) > TurnCount(s)
      BY <2>1, <3>1 DEF LaterKnown
    <3>3. CASE WhoseTurn(s) = me
      BY <1>6, <1>7, <1>13, <1>14, <2>2, <3>2, <3>3 DEF Known
    <3>4. CASE WhoseTurn(s) # me
      BY <1>13, <3>2, <3>4
    <3>5. QED
      BY <3>3, <3>4
  <2>3. CASE q = r
    <3>1. s \in H[r]
      <4>1. s = next \/ s \in H[r]
        BY <1>8, <2>3
      <4>2. t = next \/ t \in H[r]
        BY <1>8, <2>3
      <4>3. CASE s = next
        BY <1>4, <1>11, <4>2, <4>3
      <4>4. QED
        BY <4>1, <4>3
    <3>2. CASE s = old
      BY <1>2, <1>4, <1>6, <1>13, <1>14, <2>3, <3>2
    <3>3. CASE s # old
      <4>1. TurnCount(s) < TurnCount(old)
        <5>1. OnePerCount(H)
          BY <1>7 DEF Fits
        <5>2. TurnCount(s) # TurnCount(old)
          BY <1>9, <3>1, <3>3, <5>1, Zenon DEF OnePerCount
        <5>3. TurnCount(s) \in Nat /\ TurnCount(s) <= TurnCount(old)
          BY <1>11, <3>1, Zenon
        <5>4. QED
          BY <1>1, <5>2, <5>3
      <4>2. /\ WhoseTurn(s) \in Players /\ Known(R[WhoseTurn(s)], r)
            /\ TurnCount(LatestOf(R[WhoseTurn(s)], r)) > TurnCount(s)
        BY <1>9, <2>1, <3>1, <4>1 DEF LaterKnown
      <4>3. CASE WhoseTurn(s) = me
        BY <1>6, <1>11, <1>13, <1>14, <2>3, <3>1, <4>3
      <4>4. CASE WhoseTurn(s) # me
        BY <1>13, <2>3, <4>2, <4>4
      <4>5. QED
        BY <4>3, <4>4
    <3>4. QED
      BY <3>2, <3>3
  <2>4. QED
    BY <2>2, <2>3
<1>16. \A p \in Players : RollingIn(H2, R2[p])
  <2>1. ASSUME NEW p \in Players \ {me}
        PROVE  RollingIn(H2, R[p])
    <3>1. ASSUME NEW q \in Reinits, Known(R[p], q)
          PROVE  SignedIn(H2, R[p].reinits[q].proof)
      <4>1. SignedIn(H, R[p].reinits[q].proof)
        BY <1>7, <3>1 DEF Fits, RollingIn
      <4>2. R[p].reinits[q].proof \in StateProofs
        <5>1. R[p] \in RollingStates
          BY <1>7
        <5>2. R[p].reinits[q] \in Entries
          BY <3>1, <5>1 DEF RollingStates, Known
        <5>3. QED
          BY <5>2 DEF Entries
      <4>3. QED
        BY <1>8, <4>1, <4>2, SignedInExtends
    <3>2. QED
      BY <3>1 DEF RollingIn
  <2>2. RollingIn(H2, rs)
    <3>1. ASSUME NEW q \in Reinits \ {r}, Known(rs, q)
          PROVE  SignedIn(H2, rs.reinits[q].proof)
      <4>1. Known(m.rs, q) /\ rs.reinits[q] = m.rs.reinits[q]
        BY <1>6, <3>1 DEF Known
      <4>2. SignedIn(H, m.rs.reinits[q].proof)
        BY <1>7, <4>1 DEF Fits, RollingIn
      <4>3. m.rs.reinits[q].proof \in StateProofs
        BY <1>1, <4>1, EntryParts
      <4>4. QED
        BY <1>8, <4>1, <4>2, <4>3, SignedInExtends
    <3>2. SignedIn(H2, new)
      <4>1. SignedIn(H, proof)
        BY <1>1, <1>7 DEF Fits, RollingIn
      <4>2. SignedIn(H2, proof)
        BY <1>1, <1>8, <4>1, SignedInExtends
      <4>3. \A sg \in NewState(r, old, mv).signatures :
               sg.msg.data \in H2[sg.msg.reinit]
        BY <1>5, <1>8
      <4>4. QED
        BY <1>3, <4>2, <4>3 DEF SignedIn
    <3>3. QED
      BY <1>6, <3>1, <3>2 DEF RollingIn
  <2>3. QED
    BY <1>13, <2>1, <2>2
<1>17. Fits(H2, R2)
  BY <1>12, <1>15, <1>16 DEF Fits
<1>18. QED
  BY <1>8, <1>17 DEF R2

(* Growth of the history composes. *)
LEMMA GrowsNot ==
    ASSUME NEW me \in Players, NEW rs \in RollingStates
    PROVE  Grows(me, rs, rs)
<1> SUFFICES ASSUME NEW H \in Histories, NEW R \in [Players -> RollingStates],
                    R[me] = rs, Fits(H, R)
             PROVE  Extends(H, H) /\ Fits(H, [R EXCEPT ![me] = rs])
  BY DEF Grows
<1>1. [R EXCEPT ![me] = rs] = R
  OBVIOUS
<1>2. QED
  BY <1>1 DEF Extends

LEMMA GrowsTwice ==
    ASSUME NEW me \in Players, NEW rs1 \in RollingStates, NEW rs2 \in RollingStates,
           NEW rs3 \in RollingStates, Grows(me, rs1, rs2), Grows(me, rs2, rs3)
    PROVE  Grows(me, rs1, rs3)
<1> SUFFICES ASSUME NEW H \in Histories, NEW R \in [Players -> RollingStates],
                    R[me] = rs1, Fits(H, R)
             PROVE  \E H2 \in Histories :
                       Extends(H, H2) /\ Fits(H2, [R EXCEPT ![me] = rs3])
  BY DEF Grows
<1> DEFINE R2 == [R EXCEPT ![me] = rs2]
<1>1. PICK H2 \in Histories : Extends(H, H2) /\ Fits(H2, R2)
  BY DEF Grows
<1>2. /\ R2 \in [Players -> RollingStates] /\ R2[me] = rs2
      /\ [R2 EXCEPT ![me] = rs3] = [R EXCEPT ![me] = rs3]
  OBVIOUS
<1> HIDE DEF R2
<1>3. PICK H3 \in Histories : Extends(H2, H3) /\ Fits(H3, [R2 EXCEPT ![me] = rs3])
  BY <1>1, <1>2 DEF Grows
<1>4. Extends(H, H3)
  BY <1>1, <1>3 DEF Extends
<1>5. QED
  BY <1>2, <1>3, <1>4

(* The rolling state of a good manager has its type. *)
LEMMA GoodHasType ==
    ASSUME NEW m, GoodManager(m)
    PROVE  m \in Managers /\ m.rs \in RollingStates /\ GoodRolling(m.rs)
  BY DEF GoodManager, GoodRolling

LEMMA LocalMoveGrows ==
    ASSUME NEW m, GoodManager(m), m.rs.reinitId \in Reinits, Ready(m), m.check = NoCheck,
           NEW me \in Players, NEW mv \in BoardMoves, IsLocalMove(m, me, mv)
    PROVE  Moved(m, ApplyLocalMove(m, mv)) /\ Grows(me, m.rs, ApplyLocalMove(m, mv).rs)
<1> DEFINE x == ApplyLocalMove(m, mv)
           r == m.rs.reinitId
           rs == [m.rs EXCEPT !.reinits[r].proof =
                     ExtendStateProof(r, GetStateProof(m.rs), mv)]
<1>1. Moved(m, x) /\ (x.rs = m.rs \/ x.rs = rs)
  BY ApplyLocalMoveGood
<1>2. Grows(me, m.rs, rs)
  BY OwnMoveGrows
<1>3. Grows(me, m.rs, m.rs)
  BY GrowsNot, GoodHasType
<1> HIDE DEF x, rs
<1>4. Grows(me, m.rs, x.rs)
  BY <1>1, <1>2, <1>3
<1>5. QED
  BY <1>1, <1>4 DEF x

LEMMA AutoMovesGrow ==
    ASSUME NEW m, GoodManager(m), m.rs.reinitId \in Reinits, Ready(m),
           NEW me \in Players, NEW wallet
    PROVE  Grows(me, m.rs, ProcessAutoMoves(m, me, wallet).rs)
<1> DEFINE S == {x \in Managers : Moved(m, x) /\ Grows(me, m.rs, x.rs)}
<1>1. m \in S
  BY GrowsNot, GoodHasType DEF Moved
<1>2. ASSUME NEW x \in S, NEW sign \in BOOLEAN PROVE AutoStep(x, me, sign) \in S
  <2> DEFINE y == AutoStep(x, me, sign)
  <2>1. /\ Moved(m, x) /\ GoodManager(x) /\ x.rs.reinitId \in Reinits
        /\ Grows(me, m.rs, x.rs) /\ Ready(x)
    BY DEF Moved
  <2>2. Moved(x, y) /\ Grows(me, x.rs, y.rs)
    BY <2>1, AutoStepGood, LocalMoveGrows, GrowsNot, GoodHasType
  <2> HIDE DEF y
  <2>3. Moved(m, y) /\ y \in Managers
    BY <2>1, <2>2, GoodHasType DEF Moved
  <2>4. GoodManager(y)
    BY <2>3 DEF Moved
  <2>5. Grows(me, m.rs, y.rs)
    BY <2>1, <2>2, <2>4, GrowsTwice, GoodHasType
  <2>6. QED
    BY <2>3, <2>5 DEF y
<1> HIDE DEF S
<1>3. ProcessAutoMoves(m, me, wallet) \in S
  BY <1>1, <1>2, AutoMovesInduction
<1>4. QED
  BY <1>3 DEF S

-----------------------------------------------------------------------------
(***************************************************************************)
(* What each method of a manager does: from m, whose rolling state has     *)
(* become rs by what the method was given, to x.                           *)
(***************************************************************************)
Did(m, rs, x, me) ==
    /\ GoodManager(x)
    /\ Grows(me, rs, x.rs)
    /\ \/ x.out = m.out /\ x.txs = m.txs
       \/ /\ x.rs.reinitId \in Reinits
          /\ x.out \in {m.out, Append(m.out, CurrentMessage(x))}
          /\ x.txs \subseteq m.txs \cup {NoTx, CurrentTx(x, "resolution", me),
                                      CurrentTx(x, "dispute", me), CloseTx(x)}

LEMMA DidNothing ==
    ASSUME NEW m, NEW x, GoodManager(x), NEW me \in Players,
           x.out = m.out, x.txs = m.txs
    PROVE  Did(m, x.rs, x, me)
  BY GrowsNot, GoodHasType DEF Did

LEMMA StateUpdateDid ==
    ASSUME NEW m, GoodManager(m), m.rs.reinitId \in Reinits, Ready(m), NEW me \in Players,
           NEW broadcast \in BOOLEAN, NEW wallet \in Wallets
    PROVE  Did(m, m.rs, ProcessStateUpdate(m, me, broadcast, wallet), me)
<1> DEFINE moved == ProcessAutoMoves(m, me, wallet)
           x == ProcessStateUpdate(m, me, broadcast, wallet)
<1>1. Moved(m, moved) /\ Told(moved, x, me) /\ x.rs.reinitId = m.rs.reinitId
  BY StateUpdateGood
<1>2. Grows(me, m.rs, moved.rs)
  BY AutoMovesGrow
<1> HIDE DEF moved, x
<1>3. /\ GoodManager(x) /\ x.rs = moved.rs
      /\ x.out \in {m.out, Append(m.out, CurrentMessage(x))}
      /\ x.txs \subseteq m.txs \cup {NoTx, CurrentTx(x, "resolution", me),
                                  CurrentTx(x, "dispute", me), CloseTx(x)}
  BY <1>1 DEF Moved, Told, CurrentMessage, CurrentTx, CloseTx
<1>4. QED
  BY <1>1, <1>2, <1>3 DEF Did, x

LEMMA OffChainDid ==
    ASSUME NEW m, GoodManager(m), m.check = NoCheck, NEW me \in Players, NEW msg \in Messages,
           NEW wallet \in Wallets
    PROVE  LET x == ProcessOffChain(m, me, msg, wallet)
           IN  \/ Did(m, m.rs, x, me)
               \/ Did(m, UpdateWithMove(m.rs, msg.reinit, msg.proof), x, me)
<1> DEFINE rs == UpdateWithMove(m.rs, msg.reinit, msg.proof)
           new == [m EXCEPT !.rs = rs]
           x == ProcessOffChain(m, me, msg, wallet)
<1>1. msg.reinit \in Reinits /\ msg.proof \in StateProofs
  BY DEF Messages
<1>2. GoodRolling(rs) /\ rs.reinitId = m.rs.reinitId /\ rs \in RollingStates
  BY <1>1, UpdateWithMoveGood, GoodHasType DEF GoodRolling
<1> HIDE DEF rs
<1>3. /\ new \in Managers /\ new.rs = rs /\ new.check = m.check
      /\ new.exists = m.exists /\ new.stopped = m.stopped /\ new.dispute = m.dispute
      /\ new.out = m.out /\ new.txs = m.txs
  BY <1>2, ManagerWith, GoodHasType
<1> HIDE DEF new
<1>4. GoodManager(new)
  BY <1>2, <1>3 DEF GoodManager, GoodCheck
<1>5. CASE m.stopped
  BY <1>5, DidNothing DEF ProcessOffChain
<1>6. CASE ~m.stopped /\ ~SignalsChange(m.rs, msg.reinit, msg.proof)
  <2>1. x = new
    BY <1>6 DEF ProcessOffChain, new, rs
  <2>2. QED
    BY <1>3, <1>4, <2>1, DidNothing DEF rs
<1>7. CASE ~m.stopped /\ SignalsChange(m.rs, msg.reinit, msg.proof)
  <2>1. x = ProcessStateUpdate(new, me, FALSE, wallet)
    BY <1>7 DEF ProcessOffChain, new, rs
  <2>2. rs.reinitId \in Reinits
    BY <1>1, <1>2, <1>7 DEF SignalsChange
  <2>2b. Ready(new)
    <3> DEFINE r == m.rs.reinitId
    <3>1. /\ r = msg.reinit /\ AcceptsMove(m.rs, r, msg.proof)
      BY <1>7 DEF SignalsChange
    <3>2. r \in Reinits /\ m.rs \in RollingStates
      BY <1>1, <3>1, GoodHasType
    <3>3. /\ TurnCount(Latest(m)) \in Nat /\ GetOnChainTurnCount(m.rs) \in Nat
          /\ TurnCount(Latest(m)) >= GetOnChainTurnCount(m.rs)
          /\ Known(m.rs, r)
      BY <3>2, CurrentParts
    <3>4. ProofCount(msg.proof) > TurnCount(Latest(m)) /\ ProofCount(msg.proof) \in Nat
      BY <1>1, <3>1, ProofCountNat DEF AcceptsMove, Latest, GetLatestState
    <3>5. rs = [m.rs EXCEPT !.reinits[r].proof = msg.proof]
      BY <3>1 DEF UpdateWithMove, rs
    <3>6. /\ GetOnChainTurnCount(rs) = GetOnChainTurnCount(m.rs)
          /\ GetLatestState(rs) = UnverifiedProofEndState(msg.proof)
      BY <3>2, <3>3, <3>5
         DEF GetOnChainTurnCount, GetLatestState, LatestOf, RollingStates, Entries, Known
    <3>7. QED
      BY <1>3, <1>7, <3>3, <3>4, <3>6 DEF Ready, Latest, ProofCount
  <2>3. Did(new, rs, x, me)
    BY <1>3, <1>4, <2>1, <2>2, <2>2b, StateUpdateDid
  <2>4. QED
    BY <1>3, <2>3 DEF Did, rs
<1>8. QED
  BY <1>5, <1>6, <1>7

(* A method goes on from y, which m has become before anything was sent. *)
LEMMA DidAfter ==
    ASSUME NEW m, NEW y, NEW x, NEW me \in Players, NEW rs \in RollingStates,
           GoodManager(y), y.out = m.out, y.txs = m.txs,
           Grows(me, rs, y.rs), Did(y, y.rs, x, me)
    PROVE  Did(m, rs, x, me)
<1>1. GoodManager(x) /\ Grows(me, y.rs, x.rs)
  BY DEF Did
<1>2. y.rs \in RollingStates /\ x.rs \in RollingStates
  BY <1>1, GoodHasType
<1>3. Grows(me, rs, x.rs)
  BY <1>1, <1>2, GrowsTwice
<1>4. QED
  BY <1>1, <1>3 DEF Did

(* What a method sends is remembered and does nothing else. *)
LEMMA SendingDid ==
    ASSUME NEW m, NEW y, GoodManager(y), NEW me \in Players, NEW tx, NEW kind,
           kind \in {"resolution", "dispute"},
           y.rs = m.rs, y.out = m.out, y.txs = m.txs, m.rs.reinitId \in Reinits,
           tx \in {NoTx, CurrentTx(m, kind, me)}
    PROVE  Did(m, m.rs, Sent(y, tx), me)
<1> DEFINE x == Sent(y, tx)
<1>1. CurrentTx(y, kind, me) = CurrentTx(m, kind, me) /\ CurrentTx(y, kind, me) \in Txs
  BY SentTypes DEF CurrentTx
<1>2. tx \in Txs \cup {NoTx}
  BY <1>1
<1>3. /\ GoodManager(x) /\ x.rs = m.rs /\ x.out = m.out
      /\ x.txs = m.txs \cup {tx}
  BY <1>2, SentGood
<1> HIDE DEF x
<1>4. CurrentTx(x, kind, me) = CurrentTx(m, kind, me)
  BY <1>3 DEF CurrentTx
<1>5. Grows(me, m.rs, x.rs)
  BY <1>3, GrowsNot, GoodHasType
<1>6. x.txs \subseteq m.txs \cup {NoTx, CurrentTx(x, "resolution", me),
                                CurrentTx(x, "dispute", me), CloseTx(x)}
  BY <1>3, <1>4
<1>7. QED
  BY <1>3, <1>5, <1>6 DEF Did, x

LEMMA LocalMoveDid ==
    ASSUME NEW m, GoodManager(m), m.check = NoCheck, NEW me \in Players, NEW mv \in BoardMoves,
           NEW wallet \in Wallets
    PROVE  Did(m, m.rs, ProcessLocalMove(m, me, mv, wallet), me)
<1> DEFINE x == ProcessLocalMove(m, me, mv, wallet)
           new == ApplyLocalMove(m, mv)
<1>1. CASE m.stopped \/ ~m.exists \/ ~IsLocalMove(m, me, mv)
  BY <1>1, DidNothing DEF ProcessLocalMove
<1>2. CASE ~(m.stopped \/ ~m.exists \/ ~IsLocalMove(m, me, mv))
  <2>1. m.rs.reinitId \in Reinits /\ IsLocalMove(m, me, mv) /\ Ready(m)
    BY <1>2 DEF GoodManager, Ready
  <2>2. Moved(m, new) /\ Grows(me, m.rs, new.rs)
    BY <2>1, LocalMoveGrows
  <2>3. x = IF new.check # NoCheck THEN new ELSE ProcessStateUpdate(new, me, TRUE, wallet)
    BY <1>2 DEF ProcessLocalMove
  <2> HIDE DEF new, x
  <2>4. /\ GoodManager(new) /\ new.out = m.out /\ new.txs = m.txs
        /\ new.rs.reinitId \in Reinits /\ m.rs \in RollingStates /\ Ready(new)
    BY <2>1, <2>2, GoodHasType DEF Moved
  <2>5. Did(new, new.rs, x, me)
    BY <2>3, <2>4, StateUpdateDid, DidNothing
  <2>6. QED
    BY <2>2, <2>4, <2>5, DidAfter DEF x
<1>3. QED
  BY <1>1, <1>2

LEMMA TriggerDid ==
    ASSUME NEW m, GoodManager(m), NEW me \in Players, NEW wallet \in Wallets
    PROVE  Did(m, m.rs, TriggerAutoMoves(m, me, wallet), me)
<1> DEFINE x == TriggerAutoMoves(m, me, wallet)
           y == [m EXCEPT !.auto = TRUE]
           moved == ProcessAutoMoves(y, me, wallet)
<1>1. /\ y \in Managers /\ y.rs = m.rs /\ y.check = m.check
      /\ y.exists = m.exists /\ y.dispute = m.dispute
      /\ y.stopped = m.stopped /\ y.out = m.out /\ y.txs = m.txs
  <2>1. m \in Managers /\ TRUE \in BOOLEAN /\ FALSE \in BOOLEAN
    BY GoodHasType
  <2>2. QED
    BY <2>1, ManagerFlags, Zenon
<1>2. x = IF m.stopped \/ ~m.exists THEN y
          ELSE IF moved.check # NoCheck \/ moved.rs = m.rs THEN moved
          ELSE ProcessStateUpdate(moved, me, TRUE, wallet)
  BY DEF TriggerAutoMoves
<1> HIDE DEF x, y
<1>3. GoodManager(y)
  BY <1>1, SameCheck DEF GoodManager
<1>4. CASE m.stopped \/ ~m.exists
  <2>1. x = y
    BY <1>2, <1>4
  <2>2. QED
    BY <1>1, <1>3, <2>1, DidNothing DEF x
<1>5. CASE ~(m.stopped \/ ~m.exists)
  <2>1. y.rs.reinitId \in Reinits /\ Ready(y)
    BY <1>1, <1>3, <1>5 DEF GoodManager, Ready
  <2>2. Moved(y, moved) /\ Grows(me, m.rs, moved.rs)
    BY <1>1, <1>3, <2>1, AutoMovesGood, AutoMovesGrow
  <2> HIDE DEF moved
  <2>3. /\ GoodManager(moved) /\ moved.out = m.out /\ moved.txs = m.txs
        /\ moved.rs.reinitId \in Reinits /\ m.rs \in RollingStates /\ Ready(moved)
    BY <1>1, <2>1, <2>2, GoodHasType DEF Moved
  <2>4. x = moved \/ x = ProcessStateUpdate(moved, me, TRUE, wallet)
    BY <1>2, <1>5
  <2>5. Did(moved, moved.rs, x, me)
    BY <2>3, <2>4, StateUpdateDid, DidNothing
  <2>6. QED
    BY <2>2, <2>3, <2>5, DidAfter DEF x
<1>6. QED
  BY <1>4, <1>5

(* What the user asks for: the CHECK on the turn counts cannot fail. *)
LEMMA PutStateDid ==
    ASSUME NEW m, GoodManager(m), NEW me \in Players, NEW wallet \in Wallets
    PROVE  Did(m, m.rs, PutStateOnChain(m, me, wallet), me)
<1> DEFINE tx == SendMove(CurrentTx(m, "resolution", me), wallet)
<1>1. CASE ~m.exists
  BY <1>1, DidNothing DEF PutStateOnChain
<1>2. CASE m.exists
  <2>1. m.rs.reinitId \in Reinits
    BY <1>2 DEF GoodManager
  <2>2. ~(TurnCount(Latest(m)) < GetOnChainTurnCount(m.rs))
    BY <2>1, CurrentParts
  <2>3. PutStateOnChain(m, me, wallet) \in {m, Sent(m, tx)}
    BY <1>2, <2>2 DEF PutStateOnChain, CurrentTx
  <2>4. tx \in {NoTx, CurrentTx(m, "resolution", me)}
    BY DEF SendMove
  <2> HIDE DEF tx
  <2>5. Did(m, m.rs, Sent(m, tx), me) /\ Did(m, m.rs, m, me)
    BY <2>1, <2>4, SendingDid, DidNothing
  <2>6. QED
    BY <2>3, <2>5
<1>3. QED
  BY <1>1, <1>2

LEMMA FileDisputeDid ==
    ASSUME NEW m, GoodManager(m), NEW me \in Players, NEW wallet \in Wallets
    PROVE  Did(m, m.rs, FileDispute(m, me, wallet), me)
<1> DEFINE tx == SendMove(CurrentTx(m, "dispute", me), wallet)
           y == [m EXCEPT !.pendingDispute = tx]
           due == m.exists /\ m.dispute = NoDispute /\ m.pendingDispute = NoTx
<1>1. CASE ~due
  BY <1>1, DidNothing DEF FileDispute
<1>2. CASE due
  <2>1. m.rs.reinitId \in Reinits
    BY <1>2 DEF GoodManager
  <2>2. tx \in {NoTx, CurrentTx(m, "dispute", me)} /\ tx \in Txs \cup {NoTx}
    BY <2>1, SentTypes DEF SendMove
  <2>3. FileDispute(m, me, wallet) = Sent(y, tx)
    BY <1>2 DEF FileDispute, CurrentTx
  <2> HIDE DEF tx
  <2>4. /\ y \in Managers /\ y.rs = m.rs /\ y.check = m.check
        /\ y.exists = m.exists /\ y.stopped = m.stopped /\ y.dispute = m.dispute
        /\ y.out = m.out /\ y.txs = m.txs
    BY <2>2, GoodHasType DEF Managers
  <2> HIDE DEF y
  <2>5. GoodManager(y)
    BY <2>4, SameCheck DEF GoodManager
  <2>6. QED
    BY <2>1, <2>2, <2>3, <2>4, <2>5, SendingDid
<1>3. QED
  BY <1>1, <1>2

(* What the feeder hands on: the on-chain proof verifies, and an open      *)
(* dispute is against someone.                                             *)
LEMMA OnChainDid ==
    ASSUME NEW m, GoodManager(m), m.check = NoCheck, NEW me \in Players, NEW ch, GoodChannel(ch),
           NEW pool, pool \subseteq Txs, NEW wallet \in Wallets
    PROVE  LET x == ProcessOnChain(m, me, ch, pool, wallet)
           IN  \/ Did(m, m.rs, x, me)
               \/ Did(m, UpdateOnChain(m.rs, ch.reinit, ch.proof), x, me)
<1> DEFINE x == ProcessOnChain(m, me, ch, pool, wallet)
           rs == UpdateOnChain(m.rs, ch.reinit, ch.proof)
           d == NewDispute(m, ch, pool)
           pd == ResetMinedTxid(m.pendingDispute, pool)
           new == [m EXCEPT !.exists = TRUE, !.pendingDispute = pd,
                            !.rs = rs, !.dispute = d]
<1>1. /\ ch.reinit \in Reinits /\ ch.proof \in StateProofs
      /\ ch.disputeHeight \in Nat /\ VerifyStateProof(ch.reinit, ch.proof)
  BY DEF GoodChannel, Channels
<1>2. GoodRolling(rs) /\ rs.reinitId = ch.reinit /\ rs \in RollingStates
  BY <1>1, UpdateOnChainGood, GoodHasType DEF GoodRolling
<1>3. pd \in Txs \cup {NoTx}
  BY DEF ResetMinedTxid
<1>4. /\ d \in {NoDispute} \cup
              [turn : Players \cup {NO_TURN}, count : Nat,
               pendingResolution : Txs \cup {NoTx}]
      /\ d # NoDispute => d.turn # NO_TURN
  <2> DEFINE end == UnverifiedProofEndState(ch.proof)
             pr == IF m.dispute = NoDispute THEN NoTx
                   ELSE ResetMinedTxid(m.dispute.pendingResolution, pool)
  <2>1. CASE ch.disputeHeight = 0
    BY <2>1 DEF NewDispute
  <2>2. CASE ch.disputeHeight # 0
    <3>1. d = [turn |-> WhoseTurn(end), count |-> TurnCount(end),
               pendingResolution |-> pr]
      BY <2>2 DEF NewDispute
    <3>2. pr \in Txs \cup {NoTx}
      BY DEF ResetMinedTxid
    <3>3. /\ WhoseTurn(end) \in Players \cup {NO_TURN} /\ TurnCount(end) \in Nat
          /\ WhoseTurn(end) # NO_TURN
      BY <1>1, <2>2, EndIsState, RulesAssumption
         DEF GoodChannel, HasDispute, LatestOnChain
    <3> HIDE DEF d, pr, end
    <3>4. QED
      BY <3>1, <3>2, <3>3
  <2>3. QED
    BY <2>1, <2>2
<1>5. CASE m.stopped
  BY <1>5, DidNothing DEF ProcessOnChain
<1>6. CASE ~m.stopped
  <2>1. x = ProcessStateUpdate(new, me, FALSE, wallet)
    BY <1>1, <1>6 DEF ProcessOnChain, OnChainProofIsValid
  <2> HIDE DEF rs, d, pd, x
  <2>2. /\ new \in Managers /\ new.rs = rs /\ new.check = m.check
        /\ new.dispute = d /\ new.out = m.out /\ new.txs = m.txs
        /\ new.exists = TRUE /\ new.stopped = m.stopped
    <3>1. m \in Managers /\ TRUE \in BOOLEAN
      BY GoodHasType
    <3>2. QED
      <4> DEFINE y(b) == [m EXCEPT !.exists = b, !.pendingDispute = pd,
                                   !.rs = rs, !.dispute = d]
      <4>1. \A b \in BOOLEAN :
               /\ y(b) \in Managers /\ y(b).rs = rs /\ y(b).check = m.check
               /\ y(b).dispute = d /\ y(b).out = m.out /\ y(b).txs = m.txs
               /\ y(b).exists = b /\ y(b).stopped = m.stopped
        BY <1>2, <1>3, <1>4, <3>1 DEF Managers
      <4>2. new = y(TRUE)
        OBVIOUS
      <4> HIDE DEF y, new
      <4>3. QED
        BY <3>1, <4>1, <4>2
  <2> HIDE DEF new
  <2>3. GoodManager(new) /\ new.rs.reinitId \in Reinits /\ Ready(new)
    BY <1>1, <1>2, <1>4, <1>6, <2>2 DEF GoodManager, GoodCheck, Ready
  <2>4. Did(new, rs, x, me)
    BY <2>1, <2>2, <2>3, StateUpdateDid
  <2>5. QED
    BY <2>2, <2>4 DEF Did, rs, x
<1>7. QED
  BY <1>5, <1>6

LEMMA NonExistantDid ==
    ASSUME NEW m, GoodManager(m), m.check = NoCheck, NEW me \in Players
    PROVE  Did(m, m.rs, ProcessOnChainNonExistant(m), me)
<1> DEFINE y == [m EXCEPT !.exists = FALSE]
<1>1. /\ y \in Managers /\ y.rs = m.rs /\ y.check = m.check
      /\ y.exists = FALSE /\ y.dispute = m.dispute
      /\ y.out = m.out /\ y.txs = m.txs
  <2>1. m \in Managers /\ TRUE \in BOOLEAN /\ FALSE \in BOOLEAN
    BY GoodHasType
  <2>2. QED
    BY <2>1, ManagerFlags, Zenon
<1>2. ProcessOnChainNonExistant(m) \in {m, y}
  BY DEF ProcessOnChainNonExistant
<1> HIDE DEF y
<1>3. GoodManager(y)
  BY <1>1 DEF GoodManager, GoodCheck
<1>4. Did(m, m.rs, y, me) /\ Did(m, m.rs, m, me)
  BY <1>1, <1>3, DidNothing
<1>5. QED
  BY <1>2, <1>4

-----------------------------------------------------------------------------
(* The on-chain side: what a block does to the channel. *)
LEMMA StoredGood ==
    ASSUME NEW ch, GoodChannel(ch)
    PROVE  LET x == Stored(ch)
           IN  /\ GoodChannel(x)
               /\ x.reinit = ch.reinit /\ x.disputeHeight = ch.disputeHeight
               /\ LatestOnChain(x) = LatestOnChain(ch)
               /\ x.proof \in {ch.proof, StateProofFromReinit(ch.reinit)}
<1> DEFINE x == Stored(ch)
           start == StateProofFromReinit(ch.reinit)
<1>1. ch \in Channels /\ ch.reinit \in Reinits
  BY DEF GoodChannel, Channels
<1>2. CASE LatestOnChain(ch) # ReinitState(ch.reinit)
  BY <1>2 DEF Stored
<1>3. CASE LatestOnChain(ch) = ReinitState(ch.reinit)
  <2>1. /\ start \in StateProofs /\ VerifyStateProof(ch.reinit, start)
        /\ UnverifiedProofEndState(start) = ReinitState(ch.reinit)
    BY <1>1, ReinitProofVerifies
  <2> HIDE DEF start
  <2>2. x = [ch EXCEPT !.proof = start]
    BY <1>3 DEF Stored, start
  <2>3. /\ x \in Channels /\ x.reinit = ch.reinit /\ x.proof = start
        /\ x.disputeHeight = ch.disputeHeight
    BY <1>1, <2>1, <2>2 DEF Channels
  <2> HIDE DEF x
  <2>4. LatestOnChain(x) = LatestOnChain(ch)
    BY <1>3, <2>1, <2>3 DEF LatestOnChain
  <2>5. HasDispute(x) <=> HasDispute(ch)
    BY <2>3 DEF HasDispute
  <2>6. GoodChannel(x)
    BY <2>1, <2>3, <2>4, <2>5 DEF GoodChannel
  <2>7. QED
    BY <2>3, <2>4, <2>6 DEF x, start
<1>4. QED
  BY <1>2, <1>3

LEMMA ReinitGood ==
    ASSUME NEW r \in Reinits
    PROVE  /\ GoodChannel(CreateNew(r)) /\ CreateNew(r).reinit = r
           /\ CreateNew(r).proof = StateProofFromReinit(r)
           /\ \A ch \in Channels : ~HasDispute(ch) =>
                 /\ GoodChannel(Reinitialise(ch, r))
                 /\ Reinitialise(ch, r).reinit = r
                 /\ Reinitialise(ch, r).proof = StateProofFromReinit(r)
<1> DEFINE start == StateProofFromReinit(r)
<1>1. start \in StateProofs /\ VerifyStateProof(r, start)
  BY ReinitProofVerifies
<1> HIDE DEF start
<1>2. /\ GoodChannel(CreateNew(r)) /\ CreateNew(r).reinit = r
      /\ CreateNew(r).proof = start
  <2>1. CreateNew(r) = [reinit |-> r, proof |-> start, disputeHeight |-> 0]
    BY DEF CreateNew, start
  <2>2. QED
    BY <1>1, <2>1 DEF GoodChannel, Channels, HasDispute
<1>3. ASSUME NEW ch \in Channels, ~HasDispute(ch)
      PROVE  /\ GoodChannel(Reinitialise(ch, r))
             /\ Reinitialise(ch, r).reinit = r
             /\ Reinitialise(ch, r).proof = start
  <2> DEFINE y == [ch EXCEPT !.reinit = r, !.proof = start]
  <2>1. Reinitialise(ch, r) = Stored(y)
    BY DEF Reinitialise, start
  <2>2. /\ y \in Channels /\ y.reinit = r /\ y.proof = start
        /\ y.disputeHeight = ch.disputeHeight
    BY <1>1 DEF Channels
  <2> HIDE DEF y
  <2>3. GoodChannel(y)
    BY <1>1, <1>3, <2>2 DEF GoodChannel, HasDispute
  <2>4. QED
    BY <2>1, <2>2, <2>3, StoredGood DEF start
<1>4. QED
  BY <1>2, <1>3 DEF start

(* The channel with another proof and dispute. *)
StoredWith(ch, proof, h) == Stored([ch EXCEPT !.proof = proof, !.disputeHeight = h])

LEMMA ChannelWith ==
    ASSUME NEW ch \in Channels, NEW proof \in StateProofs, NEW h \in Nat,
           VerifyStateProof(ch.reinit, proof),
           h > 0 => WhoseTurn(UnverifiedProofEndState(proof)) # NO_TURN
    PROVE  LET x == StoredWith(ch, proof, h)
           IN  /\ GoodChannel(x)
               /\ x.reinit = ch.reinit /\ (HasDispute(x) <=> h > 0)
               /\ LatestOnChain(x) = UnverifiedProofEndState(proof)
               /\ x.proof \in {proof, StateProofFromReinit(ch.reinit)}
<1> DEFINE y == [ch EXCEPT !.proof = proof, !.disputeHeight = h]
<1>1. /\ y \in Channels /\ y.reinit = ch.reinit /\ y.proof = proof
      /\ y.disputeHeight = h
  BY DEF Channels
<1> HIDE DEF y
<1>2. GoodChannel(y)
  BY <1>1 DEF GoodChannel, HasDispute, LatestOnChain
<1> DEFINE x == Stored(y)
<1>3. /\ GoodChannel(x)
      /\ x.reinit = y.reinit /\ x.disputeHeight = y.disputeHeight
      /\ LatestOnChain(x) = LatestOnChain(y)
      /\ x.proof \in {y.proof, StateProofFromReinit(y.reinit)}
  BY <1>2, StoredGood
<1>4. QED
  BY <1>1, <1>3 DEF HasDispute, LatestOnChain, y, StoredWith

(* A mined move keeps the channel good, never puts an older state on chain *)
(* and takes a dispute away only with a fresher one.                       *)
LEMMA MinedGood ==
    ASSUME NEW ch, GoodChannel(ch), ch # NoChannel, NEW height \in Nat \ {0},
           NEW tx \in Txs
    PROVE  LET x == Mined(ch, height, tx)
           IN  x # NoChannel =>
                  /\ GoodChannel(x)
                  /\ x.proof \in {ch.proof, tx.proof, StateProofFromReinit(ch.reinit)}
                  /\ TurnCount(LatestOnChain(x)) >= TurnCount(LatestOnChain(ch))
                  /\ HasDispute(ch) /\ ~HasDispute(x) =>
                        TurnCount(LatestOnChain(x)) > TurnCount(LatestOnChain(ch))
<1> DEFINE x == Mined(ch, height, tx)
           proof == tx.proof
           end == UnverifiedProofEndState(proof)
           old == LatestOnChain(ch)
           Kept(y) == /\ GoodChannel(y)
                      /\ y.proof \in {ch.proof, proof, StateProofFromReinit(ch.reinit)}
                      /\ TurnCount(LatestOnChain(y)) >= TurnCount(old)
                      /\ HasDispute(ch) /\ ~HasDispute(y) =>
                            TurnCount(LatestOnChain(y)) > TurnCount(old)
<1>1. /\ ch \in Channels /\ ch.proof \in StateProofs /\ proof \in StateProofs
      /\ ch.reinit \in Reinits /\ ch.disputeHeight \in Nat
      /\ VerifyStateProof(ch.reinit, ch.proof)
      /\ tx.kind \in {"resolution", "dispute", "close"}
  BY DEF GoodChannel, Channels, Txs
<1>2. TurnCount(old) \in Nat /\ TurnCount(end) \in Nat
  BY <1>1, EndIsState, RulesAssumption DEF LatestOnChain
<1>3. Kept(ch)
  BY <1>2
<1>4. x \in {NoChannel, ProcessDispute(ch, height, proof), ProcessResolution(ch, proof)}
  BY <1>1 DEF Mined
<1>5. Kept(ProcessDispute(ch, height, proof))
  <2> DEFINE y1 == StoredWith(ch, proof, height)
             y2 == StoredWith(ch, ch.proof, height)
  <2>1. CASE ~ValidDispute(ch, proof)
    BY <1>3, <2>1 DEF ProcessDispute
  <2>2. CASE ValidDispute(ch, proof) /\ TurnCount(end) > TurnCount(old)
    <3>1. ProcessDispute(ch, height, proof) = y1
      BY <2>2 DEF ProcessDispute, StoredWith
    <3>2. /\ VerifyStateProof(ch.reinit, proof) /\ WhoseTurn(end) # NO_TURN
          /\ height \in Nat /\ height > 0
      BY <2>2 DEF ValidDispute
    <3>3. /\ GoodChannel(y1) /\ HasDispute(y1) /\ LatestOnChain(y1) = end
          /\ y1.proof \in {proof, StateProofFromReinit(ch.reinit)}
      BY <1>1, <3>2, ChannelWith
    <3>4. QED
      BY <1>2, <2>2, <3>1, <3>3
  <2>3. CASE ValidDispute(ch, proof) /\ ~(TurnCount(end) > TurnCount(old))
    <3>1. ProcessDispute(ch, height, proof) = y2
      <4>1. [ch EXCEPT !.disputeHeight = height] =
               [ch EXCEPT !.proof = ch.proof, !.disputeHeight = height]
        BY <1>1 DEF Channels
      <4>2. QED
        BY <2>3, <4>1 DEF ProcessDispute, StoredWith
    <3>2. height \in Nat /\ height > 0
      OBVIOUS
    <3>3. WhoseTurn(UnverifiedProofEndState(ch.proof)) # NO_TURN
      BY <2>3 DEF ValidDispute, LatestOnChain
    <3>4. /\ GoodChannel(y2) /\ HasDispute(y2) /\ LatestOnChain(y2) = old
          /\ y2.proof \in {ch.proof, StateProofFromReinit(ch.reinit)}
      BY <1>1, <3>2, <3>3, ChannelWith DEF LatestOnChain
    <3>5. QED
      BY <1>2, <3>1, <3>4
  <2>4. QED
    BY <2>1, <2>2, <2>3
<1>6. Kept(ProcessResolution(ch, proof))
  <2> DEFINE y == StoredWith(ch, proof, 0)
  <2>1. CASE ~ValidResolution(ch, proof)
    BY <1>3, <2>1 DEF ProcessResolution
  <2>2. CASE ValidResolution(ch, proof)
    <3>1. ProcessResolution(ch, proof) = y
      BY <2>2 DEF ProcessResolution, StoredWith
    <3>2. VerifyStateProof(ch.reinit, proof) /\ TurnCount(end) > TurnCount(old)
      BY <2>2 DEF ValidResolution
    <3>3. /\ GoodChannel(y) /\ LatestOnChain(y) = end
          /\ y.proof \in {proof, StateProofFromReinit(ch.reinit)}
      BY <1>1, <3>2, ChannelWith
    <3>4. QED
      BY <1>2, <3>1, <3>2, <3>3
  <2>3. QED
    BY <2>1, <2>2
<1> HIDE DEF x
<1>7. x # NoChannel => Kept(x)
  BY <1>4, <1>5, <1>6
<1>8. QED
  BY <1>7 DEF x

-----------------------------------------------------------------------------
(* The proofs that are around, besides those the managers keep, have       *)
(* signatures of the history only.                                         *)
ChannelIn(H, ch) == ch # NoChannel => SignedIn(H, ch.proof)

SnapshotIn(H, snap) == snap # NoSnapshot => ChannelIn(H, snap)

TxIn(H, tx) == tx # NoTx => SignedIn(H, tx.proof)

ChainIn(H, c) == \A i \in 1 .. Len(c) : ChannelIn(H, c[i].ch) /\ TxIn(H, c[i].tx)

PoolIn(H, pool) == \A tx \in pool : TxIn(H, tx)

BoxIn(H, box) == \A i \in 1 .. Len(box) : SignedIn(H, box[i].proof)

Rolling(m) == [p \in Players |-> m[p].rs]

HistoryOf(H, c, pool, m, snap, box) ==
    /\ Fits(H, Rolling(m))
    /\ ChainIn(H, c)
    /\ PoolIn(H, pool)
    /\ \A p \in Players : SnapshotIn(H, snap[p]) /\ BoxIn(H, box[p])

(* As long as no daemon has lost its state, there is a history that all    *)
(* that is known and sent fits.                                            *)
HistoryInv == restarted = {} =>
    \E H \in Histories : HistoryOf(H, chain, mempool, mgr, snapshot, inbox)

(* What a method sent, when it had nothing left to send before. *)
LEMMA DidSends ==
    ASSUME NEW m, NEW rs, NEW x, NEW me \in Players, Did(m, rs, x, me),
           m.out = <<>>, m.txs = {}
    PROVE  /\ x \in Managers /\ x.out \in Seq(Messages) /\ x.txs \ {NoTx} \subseteq Txs
           /\ \A H \in Histories : RollingIn(H, x.rs) =>
                 BoxIn(H, x.out) /\ PoolIn(H, x.txs)
<1>1. GoodManager(x) /\ x \in Managers
  BY GoodHasType DEF Did
<1>2. x.out \in Seq(Messages) /\ x.txs \in SUBSET (Txs \cup {NoTx})
  BY <1>1, ManagerParts
<1>3. ASSUME NEW H \in Histories, RollingIn(H, x.rs)
      PROVE  BoxIn(H, x.out) /\ PoolIn(H, x.txs)
  <2>1. CASE x.out = m.out /\ x.txs = m.txs
    BY <2>1 DEF BoxIn, PoolIn
  <2>2. CASE /\ x.rs.reinitId \in Reinits
             /\ x.out \in {m.out, Append(m.out, CurrentMessage(x))}
             /\ x.txs \subseteq m.txs \cup {NoTx, CurrentTx(x, "resolution", me),
                                         CurrentTx(x, "dispute", me), CloseTx(x)}
    <3>1. SignedIn(H, GetStateProof(x.rs))
      BY <1>1, <1>3, <2>2, CurrentParts DEF RollingIn
    <3>2. SignedIn(H, StateProofFromReinit(x.rs.reinitId))
      BY <2>2, ReinitSignedIn
    <3>3. SignedIn(H, CurrentMessage(x).proof)
      BY <3>1 DEF CurrentMessage
    <3>4. BoxIn(H, x.out)
      <4> DEFINE msg == CurrentMessage(x)
      <4>1. x.out = <<>> \/ x.out = <<msg>>
        BY <2>2
      <4> HIDE DEF msg
      <4>2. QED
        BY <3>3, <4>1 DEF BoxIn, msg
    <3>5. /\ SignedIn(H, CurrentTx(x, "resolution", me).proof)
          /\ SignedIn(H, CurrentTx(x, "dispute", me).proof)
          /\ SignedIn(H, CloseTx(x).proof)
      BY <3>1, <3>2 DEF CurrentTx, CloseTx
    <3>6. PoolIn(H, x.txs)
      BY <2>2, <3>5 DEF PoolIn, TxIn
    <3>7. QED
      BY <3>4, <3>6
  <2>3. QED
    BY <2>1, <2>2 DEF Did
<1>4. QED
  BY <1>1, <1>2, <1>3

(* A manager that has nothing left to send. *)
LEMMA Emptied ==
    ASSUME NEW m, GoodManager(m)
    PROVE  LET x == [m EXCEPT !.out = <<>>, !.txs = {}]
           IN  GoodManager(x) /\ x.out = <<>> /\ x.txs = {} /\ x.rs = m.rs
<1> DEFINE x == [m EXCEPT !.out = <<>>, !.txs = {}]
<1>1. m \in Managers
  BY DEF GoodManager
<1>2. /\ x \in Managers /\ x.rs = m.rs /\ x.exists = m.exists /\ x.check = m.check
      /\ x.stopped = m.stopped /\ x.dispute = m.dispute /\ x.out = <<>> /\ x.txs = {}
  <2> DEFINE Sets == SUBSET (Txs \cup {NoTx})
             Seqs == Seq(Messages)
             y(o, t) == [m EXCEPT !.out = o, !.txs = t]
  <2>1. \A o \in Seqs, t \in Sets :
           /\ y(o, t) \in Managers /\ y(o, t).rs = m.rs /\ y(o, t).exists = m.exists
           /\ y(o, t).check = m.check /\ y(o, t).dispute = m.dispute
           /\ y(o, t).stopped = m.stopped
           /\ y(o, t).out = o /\ y(o, t).txs = t
    BY <1>1 DEF Managers
  <2>2. x = y(<<>>, {})
    OBVIOUS
  <2>3. <<>> \in Seqs /\ {} \in Sets
    OBVIOUS
  <2> HIDE DEF x, y, Seqs, Sets
  <2>4. QED
    BY <2>1, <2>2, <2>3
<1> HIDE DEF x
<1>3. GoodManager(x)
  BY <1>2, SameCheck DEF GoodManager
<1>4. QED
  BY <1>2, <1>3 DEF x

LEMMA NewManagerGood ==
    ASSUME NEW p \in Players
    PROVE  /\ GoodManager(NewManager(p)) /\ NewManager(p).out = <<>>
           /\ NewManager(p).txs = {} /\ NewManager(p).rs = NewRollingState
           /\ GoodRolling(NewRollingState)
           /\ \A r \in Reinits : ~Known(NewRollingState, r)
<1> DEFINE a == p \notin InputPlayers
           x == [rs |-> NewRollingState, exists |-> FALSE, stopped |-> FALSE,
                 auto |-> a, dispute |-> NoDispute,
                 pendingDispute |-> NoTx, check |-> NoCheck, out |-> <<>>, txs |-> {}]
<1>1. /\ GoodRolling(NewRollingState)
      /\ \A r \in Reinits : ~Known(NewRollingState, r)
  BY ChannelAssumption DEF GoodRolling, NewRollingState, RollingStates, Known
<1>2. NewManager(p) = x
  BY DEF NewManager
<1>3. NewRollingState \in RollingStates
  BY <1>1 DEF GoodRolling
<1>4. a \in BOOLEAN
  OBVIOUS
<1>5. NoCheck \in Checks
  BY DEF Checks
<1> HIDE DEF a
<1>6. \A b1, b2, b3 \in BOOLEAN :
         LET y == [rs |-> NewRollingState, exists |-> b1, stopped |-> b2,
                 auto |-> b3, dispute |-> NoDispute,
                 pendingDispute |-> NoTx, check |-> NoCheck, out |-> <<>>, txs |-> {}]
         IN  y \in Managers
  BY <1>3, <1>5 DEF Managers
<1>7. x \in Managers
  <2>1. FALSE \in BOOLEAN
    OBVIOUS
  <2>2. QED
    BY <1>4, <1>6, <2>1, Zenon
<1>8. /\ x.rs = NewRollingState /\ x.dispute = NoDispute
      /\ x.check = NoCheck /\ x.out = <<>> /\ x.txs = {}
  OBVIOUS
<1>9. ~x.exists
  BY Zenon
<1> HIDE DEF x
<1>10. GoodManager(x)
  BY <1>1, <1>7, <1>8, <1>9 DEF GoodManager, GoodCheck
<1>11. QED
  BY <1>1, <1>2, <1>8, <1>10

-----------------------------------------------------------------------------
(* The steps keep the invariant. *)
LEMMA ChannelInit == Init => ChannelInv
<1> SUFFICES ASSUME Init PROVE ChannelInv
  OBVIOUS
<1>1. ChainInv
  BY DEF Init, ChainInv
<1>2. BoundInv
  BY ChannelAssumption DEF Init, BoundInv
<1>3. DaemonInv
  <2>1. \A p \in Players : mgr[p] = NewManager(p) /\ GoodManager(NewManager(p))
    BY NewManagerGood DEF Init
  <2>2. mgr \in [Players -> Managers]
    BY <2>1, GoodHasType DEF Init
  <2>3. \A p \in Players : /\ GoodManager(mgr[p]) /\ mgr[p].out = <<>>
                           /\ mgr[p].txs = {}
    BY <2>1, NewManagerGood
  <2>4. QED
    BY <2>2, <2>3 DEF Init, DaemonInv
<1>4. QED
  BY <1>1, <1>2, <1>3 DEF ChannelInv

LEMMA FaultBound ==
    ASSUME NEW kind, faults \in 0 .. MaxFaults, Fault(kind) \/ UNCHANGED faults
    PROVE  faults' \in 0 .. MaxFaults
  BY ChannelAssumption DEF Fault

(* The last block. *)
LEMMA TipParts ==
    ASSUME ChainInv
    PROVE  /\ Len(chain) \in Nat
           /\ Tip(chain) \in Channels \cup {NoChannel}
           /\ Tip(chain) # NoChannel =>
                 /\ GoodChannel(Tip(chain)) /\ Len(chain) \in 1 .. Len(chain)
                 /\ Tip(chain) = chain[Len(chain)].ch
<1> DEFINE Blocks == [ch : Channels \cup {NoChannel}, tx : Txs \cup {NoTx}]
<1>1. chain \in Seq(Blocks) /\ \A b \in Blocks : b.ch \in Channels \cup {NoChannel}
  BY DEF ChainInv
<1> HIDE DEF Blocks
<1>2. chain # <<>> => /\ Len(chain) \in 1 .. Len(chain)
                      /\ chain[Len(chain)] \in Blocks
  BY <1>1
<1>3. QED
  BY <1>1, <1>2 DEF Tip, ChainInv

LEMMA AddBlockGood ==
    ASSUME ChainInv, NEW ch, NEW tx \in Txs \cup {NoTx}, AddBlock(ch, tx),
           ch = NoChannel \/ GoodChannel(ch)
    PROVE  ChainInv' /\ Len(chain') = Len(chain) + 1 /\ Tip(chain') = ch
<1> DEFINE Blocks == [ch : Channels \cup {NoChannel}, tx : Txs \cup {NoTx}]
           b == [ch |-> ch, tx |-> tx]
<1>1. chain \in Seq(Blocks) /\ chain' = Append(chain, b)
  BY DEF ChainInv, AddBlock
<1>2. b \in Blocks /\ b.ch = ch
  BY DEF GoodChannel
<1> HIDE DEF b, Blocks
<1>3. /\ chain' \in Seq(Blocks) /\ Len(chain') = Len(chain) + 1 /\ Len(chain) \in Nat
      /\ chain'[Len(chain) + 1] = b /\ chain' # <<>>
      /\ \A i \in 1 .. Len(chain) : chain'[i] = chain[i]
  BY <1>1, <1>2
<1>4. \A i \in 1 .. Len(chain') : i = Len(chain) + 1 \/ i \in 1 .. Len(chain)
  BY <1>3
<1>5. \A i \in 1 .. Len(chain') : chain'[i].ch # NoChannel => GoodChannel(chain'[i].ch)
  BY <1>2, <1>3, <1>4 DEF ChainInv
<1>6. Tip(chain') = ch
  BY <1>2, <1>3 DEF Tip
<1>7. QED
  BY <1>3, <1>5, <1>6 DEF ChainInv, Blocks

(* Everything but what the action says of snapshots and requests. *)
LEMMA RunsGood ==
    ASSUME ChannelInv, NEW p \in Players, NEW m, NEW rs, Did(mgr[p], rs, m, p),
           NEW wallet, NEW received \in [Players -> Seq(Messages)],
           Runs(p, m, wallet, received)
    PROVE  /\ ChainInv' /\ mempool' \subseteq Txs \ {NoTx}
           /\ mgr' \in [Players -> Managers] /\ inbox' \in [Players -> Seq(Messages)]
           /\ \A q \in Players : GoodManager(mgr'[q]) /\ mgr'[q].out = <<>> /\ mgr'[q].txs = {}
           /\ faults' \in 0 .. MaxFaults /\ restarted' = restarted
           /\ Rolling(mgr') = [Rolling(mgr) EXCEPT ![p] = m.rs]
<1> DEFINE x == [m EXCEPT !.out = <<>>, !.txs = {}]
<1>1. /\ mgr \in [Players -> Managers] /\ mgr[p].out = <<>> /\ mgr[p].txs = {}
      /\ mempool \subseteq Txs \ {NoTx} /\ faults \in 0 .. MaxFaults
      /\ \A q \in Players : GoodManager(mgr[q]) /\ mgr[q].out = <<>> /\ mgr[q].txs = {}
  BY DEF ChannelInv, DaemonInv, BoundInv
<1>2. /\ m \in Managers /\ m.out \in Seq(Messages) /\ m.txs \ {NoTx} \subseteq Txs
      /\ GoodManager(m)
  BY <1>1, DidSends DEF Did
<1>3. GoodManager(x) /\ x.out = <<>> /\ x.txs = {} /\ x.rs = m.rs /\ x \in Managers
  BY <1>2, Emptied, GoodHasType
<1>4. /\ mgr' = [mgr EXCEPT ![p] = x]
      /\ mempool' = mempool \cup (m.txs \ {NoTx})
      /\ inbox' = [q \in Players |->
                      IF q = p THEN received[q] ELSE received[q] \o m.out]
      /\ UNCHANGED <<chain, restarted>>
      /\ Fault("send") \/ Fault("sign") \/ UNCHANGED faults
  BY DEF Runs
<1> HIDE DEF x
<1>5. mgr' \in [Players -> Managers] /\ mgr'[p] = x /\ \A q \in Players \ {p} : mgr'[q] = mgr[q]
  BY <1>1, <1>3, <1>4
<1>6. \A q \in Players : GoodManager(mgr'[q]) /\ mgr'[q].out = <<>> /\ mgr'[q].txs = {}
  BY <1>1, <1>3, <1>5
<1>7. inbox' \in [Players -> Seq(Messages)]
  BY <1>2, <1>4
<1>8. ChainInv'
  BY <1>4 DEF ChannelInv, ChainInv
<1>9. faults' \in 0 .. MaxFaults
  BY <1>1, <1>4, FaultBound
<1>10. Rolling(mgr') = [Rolling(mgr) EXCEPT ![p] = m.rs]
  BY <1>3, <1>5 DEF Rolling
<1>11. QED
  BY <1>1, <1>2, <1>4, <1>5, <1>6, <1>7, <1>8, <1>9, <1>10

(* What each method did, as an action runs it: what the rolling state      *)
(* learnt comes from a snapshot or from a message.                         *)
LEMMA FeedRuns ==
    ASSUME ChannelInv, NEW p \in Players, Feed(p)
    PROVE  \E m, rs, wallet :
              /\ Runs(p, m, wallet, inbox) /\ Did(mgr[p], rs, m, p)
              /\ \/ rs = mgr[p].rs
                 \/ /\ snapshot[p] \notin {NoChannel, NoSnapshot}
                    /\ rs = UpdateOnChain(mgr[p].rs, snapshot[p].reinit, snapshot[p].proof)
<1>1. /\ GoodManager(mgr[p]) /\ mempool \subseteq Txs \ {NoTx} /\ snapshot[p] # NoSnapshot
      /\ snapshot[p] \notin {NoChannel, NoSnapshot} => GoodChannel(snapshot[p])
      /\ mgr[p].check = NoCheck
  BY DEF ChannelInv, DaemonInv, Feed, Alive
<1>2. PICK wallet \in Wallets :
         Runs(p, IF snapshot[p] = NoChannel
                  THEN ProcessOnChainNonExistant(mgr[p])
                  ELSE ProcessOnChain(mgr[p], p, snapshot[p], mempool, wallet),
               wallet, inbox)
  BY DEF Feed
<1>3. CASE snapshot[p] = NoChannel
  BY <1>1, <1>2, <1>3, NonExistantDid
<1>4. CASE snapshot[p] # NoChannel
  BY <1>1, <1>2, <1>4, OnChainDid
<1>5. QED
  BY <1>3, <1>4

LEMMA ReceiveRuns ==
    ASSUME ChannelInv, NEW p \in Players, Receive(p)
    PROVE  \E m, rs, wallet :
              /\ Runs(p, m, wallet, [inbox EXCEPT ![p] = Tail(@)])
              /\ Did(mgr[p], rs, m, p)
              /\ \/ rs = mgr[p].rs
                 \/ rs = UpdateWithMove(mgr[p].rs, Head(inbox[p]).reinit,
                                        Head(inbox[p]).proof)
<1>1. /\ GoodManager(mgr[p]) /\ inbox[p] \in Seq(Messages) /\ inbox[p] # <<>>
      /\ mgr[p].check = NoCheck
  BY DEF ChannelInv, DaemonInv, Receive, Alive
<1>2. Head(inbox[p]) \in Messages
  BY <1>1
<1>3. PICK wallet \in Wallets :
         Runs(p, ProcessOffChain(mgr[p], p, Head(inbox[p]), wallet), wallet,
               [inbox EXCEPT ![p] = Tail(@)])
  BY DEF Receive
<1>4. QED
  BY <1>1, <1>2, <1>3, OffChainDid

(* The user's actions. *)
LEMMA UserRuns ==
    ASSUME ChannelInv, NEW p \in Players,
           \/ Trigger(p) \/ Request(p) \/ \E mv \in BoardMoves : LocalMove(p, mv)
    PROVE  \E m, wallet : Runs(p, m, wallet, inbox) /\ Did(mgr[p], mgr[p].rs, m, p)
<1>1. GoodManager(mgr[p]) /\ mgr[p].check = NoCheck
  BY DEF ChannelInv, DaemonInv, Trigger, Request, LocalMove, Alive
<1>2. CASE Trigger(p)
  <2>1. PICK wallet \in Wallets : Runs(p, TriggerAutoMoves(mgr[p], p, wallet), wallet, inbox)
    BY <1>2 DEF Trigger
  <2>2. QED
    BY <1>1, <2>1, TriggerDid
<1>3. CASE Request(p)
  <2>1. PICK wallet \in Wallets :
           \/ Runs(p, PutStateOnChain(mgr[p], p, wallet), wallet, inbox)
           \/ Runs(p, FileDispute(mgr[p], p, wallet), wallet, inbox)
    BY <1>3 DEF Request
  <2>2. QED
    BY <1>1, <2>1, PutStateDid, FileDisputeDid
<1>4. CASE \E mv \in BoardMoves : LocalMove(p, mv)
  <2>1. PICK mv \in BoardMoves : LocalMove(p, mv)
    BY <1>4
  <2>2. PICK wallet \in Wallets : Runs(p, ProcessLocalMove(mgr[p], p, mv, wallet), wallet, inbox)
    BY <2>1 DEF LocalMove
  <2>3. QED
    BY <1>1, <2>2, LocalMoveDid
<1>5. QED
  BY <1>2, <1>3, <1>4

(* The blocks that come and go. *)
LEMMA ReinitStep ==
    ASSUME ChannelInv, NEW r \in Reinits, Reinit(r)
    PROVE  \E ch : /\ AddBlock(ch, NoTx) /\ GoodChannel(ch)
                   /\ ch.reinit = r /\ ch.proof = StateProofFromReinit(r)
                   /\ Tip(chain) # NoChannel => Tip(chain).reinit # r
<1>1. ChainInv
  BY DEF ChannelInv
<1>2. CASE Tip(chain) = NoChannel
  BY <1>2, ReinitGood DEF Reinit
<1>3. CASE Tip(chain) # NoChannel
  <2>1. /\ Tip(chain) \in Channels /\ Len(chain) \in 1 .. Len(chain)
        /\ Tip(chain) = chain[Len(chain)].ch /\ ~HasDispute(Tip(chain))
    BY <1>1, <1>3, TipParts DEF Reinit, GoodChannel
  <2>2. Tip(chain).reinit # r
    BY <1>3, <2>1 DEF Reinit
  <2>3. AddBlock(Reinitialise(Tip(chain), r), NoTx)
    BY <1>3 DEF Reinit
  <2>4. QED
    BY <2>1, <2>2, <2>3, ReinitGood
<1>4. QED
  BY <1>2, <1>3

LEMMA MineStep ==
    ASSUME ChannelInv, NEW tx, Mine(tx)
    PROVE  \/ UNCHANGED chain
           \/ /\ Tip(chain) # NoChannel /\ GoodChannel(Tip(chain))
              /\ \E ch :
                    /\ AddBlock(ch, tx)
                    /\ ch # NoChannel =>
                          /\ GoodChannel(ch)
                          /\ ch.proof \in {Tip(chain).proof, tx.proof,
                                           StateProofFromReinit(Tip(chain).reinit)}
                          /\ TurnCount(LatestOnChain(ch))
                                >= TurnCount(LatestOnChain(Tip(chain)))
                          /\ HasDispute(Tip(chain)) /\ ~HasDispute(ch) =>
                                TurnCount(LatestOnChain(ch))
                                   > TurnCount(LatestOnChain(Tip(chain)))
<1> DEFINE ch == Mined(Tip(chain), Len(chain) + 1, tx)
<1>1. ChainInv /\ tx \in Txs
  BY DEF ChannelInv, DaemonInv, Mine
<1>2. UNCHANGED chain \/ (AddBlock(ch, tx) /\ ch # Tip(chain))
  <2>1. IF ch = Tip(chain) THEN UNCHANGED chain ELSE AddBlock(ch, tx)
    BY DEF Mine
  <2> HIDE DEF ch
  <2>2. QED
    BY <2>1 DEF AddBlock
<1>3. CASE Tip(chain) = NoChannel
  <2>1. ch = Tip(chain)
    BY <1>3 DEF Mined
  <2>2. QED
    BY <1>2, <2>1
<1>4. CASE Tip(chain) # NoChannel
  <2>1. GoodChannel(Tip(chain)) /\ Len(chain) + 1 \in Nat \ {0}
    BY <1>1, <1>4, TipParts
  <2>2. ch # NoChannel =>
           /\ GoodChannel(ch)
           /\ ch.proof \in {Tip(chain).proof, tx.proof,
                            StateProofFromReinit(Tip(chain).reinit)}
           /\ TurnCount(LatestOnChain(ch)) >= TurnCount(LatestOnChain(Tip(chain)))
           /\ HasDispute(Tip(chain)) /\ ~HasDispute(ch) =>
                 TurnCount(LatestOnChain(ch)) > TurnCount(LatestOnChain(Tip(chain)))
    BY <1>1, <1>4, <2>1, MinedGood
  <2> HIDE DEF ch
  <2>3. QED
    BY <1>2, <1>4, <2>1, <2>2
<1>5. QED
  BY <1>3, <1>4

LEMMA ReorgStep ==
    ASSUME ChannelInv, Reorg
    PROVE  /\ ChainInv' /\ mempool' \subseteq Txs \ {NoTx}
           /\ Len(chain) \in 1 .. Len(chain) /\ Len(chain') = Len(chain) - 1
           /\ \A i \in 1 .. Len(chain') : i \in 1 .. Len(chain) /\ chain'[i] = chain[i]
<1> DEFINE Blocks == [ch : Channels \cup {NoChannel}, tx : Txs \cup {NoTx}]
<1>1. /\ chain \in Seq(Blocks) /\ chain # <<>>
      /\ chain' = SubSeq(chain, 1, Len(chain) - 1)
      /\ \A b \in Blocks : b.tx \in Txs \cup {NoTx}
  BY DEF ChannelInv, ChainInv, Reorg
<1> HIDE DEF Blocks
<1>2. /\ Len(chain) \in 1 .. Len(chain) /\ Len(chain') = Len(chain) - 1
      /\ chain' \in Seq(Blocks) /\ chain[Len(chain)] \in Blocks
      /\ \A i \in 1 .. Len(chain') : i \in 1 .. Len(chain) /\ chain'[i] = chain[i]
  <2> DEFINE n == Len(chain)
  <2>1. n \in Nat /\ n \in 1 .. n /\ n - 1 \in 0 .. n /\ chain[n] \in Blocks
    BY <1>1
  <2>2. \A i \in 1 .. n - 1 : chain[i] \in Blocks
    BY <1>1, <2>1
  <2>3. /\ Len(chain') = IF 1 <= n - 1 THEN (n - 1) - 1 + 1 ELSE 0
        /\ chain' \in Seq(Blocks)
        /\ \A i \in 1 .. (n - 1) - 1 + 1 : chain'[i] = chain[1 + i - 1]
    <3>1. 1 \in Int /\ n - 1 \in Int
      BY <2>1
    <3>2. QED
      BY <1>1, <2>2, <3>1, SubSeqProperties
  <2>4. Len(chain') = n - 1 /\ \A i \in 1 .. n - 1 : chain'[i] = chain[i]
    <3> HIDE DEF n
    <3>1. /\ (n - 1) - 1 + 1 = n - 1 /\ n - 1 >= 0
          /\ \A i \in 1 .. n - 1 : 1 + i - 1 = i
      BY <2>1
    <3>2. Len(chain') = n - 1
      BY <2>1, <2>3
    <3>3. QED
      BY <2>3, <3>1, <3>2
  <2>5. QED
    BY <2>1, <2>3, <2>4
<1>3. \A i \in 1 .. Len(chain') : chain'[i].ch # NoChannel => GoodChannel(chain'[i].ch)
  BY <1>2 DEF ChannelInv, ChainInv
<1>4. mempool' \subseteq Txs \ {NoTx}
  BY <1>1, <1>2 DEF Reorg, ChannelInv, DaemonInv
<1>5. QED
  BY <1>2, <1>3, <1>4 DEF ChainInv, Blocks

(* A step leaves the daemons as they are. *)
LEMMA DaemonsKept ==
    ASSUME ChannelInv, mempool' \subseteq Txs \ {NoTx}, UNCHANGED <<mgr, snapshot, inbox>>
    PROVE  DaemonInv'
  BY DEF ChannelInv, DaemonInv

LEMMA ChannelStep == ChannelInv /\ [Next]_vars => ChannelInv'
<1> SUFFICES ASSUME ChannelInv, [Next]_vars PROVE ChannelInv'
  OBVIOUS
<1>1. /\ ChainInv /\ mempool \subseteq Txs \ {NoTx} /\ mgr \in [Players -> Managers]
      /\ snapshot \in [Players -> Channels \cup {NoChannel, NoSnapshot}]
      /\ inbox \in [Players -> Seq(Messages)]
      /\ \A p \in Players :
            /\ GoodManager(mgr[p]) /\ mgr[p].out = <<>> /\ mgr[p].txs = {}
            /\ snapshot[p] \notin {NoChannel, NoSnapshot} => GoodChannel(snapshot[p])
      /\ requests \in 0 .. MaxRequests /\ faults \in 0 .. MaxFaults
      /\ restarted \subseteq Players
  BY DEF ChannelInv, DaemonInv, BoundInv
<1>2. ASSUME NEW r \in Reinits, Reinit(r) PROVE ChannelInv'
  <2>1. ChainInv'
    BY <1>1, <1>2, ReinitStep, AddBlockGood
  <2>2. QED
    BY <1>1, <1>2, <2>1, DaemonsKept DEF Reinit, ChannelInv, BoundInv
<1>3. ASSUME NEW tx \in mempool, Mine(tx) PROVE ChannelInv'
  <2>1. ChainInv'
    <3>1. CASE UNCHANGED chain
      BY <1>1, <3>1 DEF ChainInv
    <3>2. CASE ~UNCHANGED chain
      BY <1>1, <1>3, <3>2, MineStep, AddBlockGood
    <3>3. QED
      BY <3>1, <3>2
  <2>2. QED
    BY <1>1, <1>3, <2>1, DaemonsKept DEF Mine, ChannelInv, BoundInv
<1>4. ASSUME NEW tx \in mempool, DropTx(tx) PROVE ChannelInv'
  <2>1. ChainInv' /\ faults' \in 0 .. MaxFaults
    BY <1>1, <1>4, FaultBound DEF DropTx, ChainInv
  <2>2. QED
    BY <1>1, <1>4, <2>1, DaemonsKept DEF DropTx, ChannelInv, BoundInv
<1>5. CASE Reorg
  <2>1. faults' \in 0 .. MaxFaults
    BY <1>1, <1>5, FaultBound DEF Reorg
  <2>2. QED
    BY <1>1, <1>5, <2>1, ReorgStep, DaemonsKept DEF Reorg, ChannelInv, BoundInv
<1>6. ASSUME NEW p \in Players, Fetch(p) PROVE ChannelInv'
  <2>1. /\ snapshot' = [snapshot EXCEPT ![p] = Tip(chain)]
        /\ UNCHANGED <<chain, mempool, mgr, inbox, requests, faults, restarted>>
    BY <1>6 DEF Fetch
  <2>2. DaemonInv'
    BY <1>1, <2>1, TipParts DEF DaemonInv
  <2>3. QED
    BY <1>1, <2>1, <2>2 DEF ChannelInv, ChainInv, BoundInv
<1>7. ASSUME NEW p \in Players, Feed(p) PROVE ChannelInv'
  <2>1. PICK m, rs, wallet : Runs(p, m, wallet, inbox) /\ Did(mgr[p], rs, m, p)
    BY <1>7, FeedRuns
  <2>2. /\ ChainInv' /\ mempool' \subseteq Txs \ {NoTx}
        /\ mgr' \in [Players -> Managers] /\ inbox' \in [Players -> Seq(Messages)]
        /\ \A q \in Players : GoodManager(mgr'[q]) /\ mgr'[q].out = <<>> /\ mgr'[q].txs = {}
        /\ faults' \in 0 .. MaxFaults /\ restarted' = restarted
    BY <1>1, <2>1, RunsGood
  <2>3. snapshot' = [snapshot EXCEPT ![p] = NoSnapshot] /\ requests' = requests
    BY <1>7 DEF Feed
  <2>4. QED
    BY <1>1, <2>2, <2>3 DEF ChannelInv, DaemonInv, BoundInv
<1>8. ASSUME NEW p \in Players, Receive(p) PROVE ChannelInv'
  <2> DEFINE received == [inbox EXCEPT ![p] = Tail(@)]
  <2>1. PICK m, rs, wallet : Runs(p, m, wallet, received) /\ Did(mgr[p], rs, m, p)
    BY <1>8, ReceiveRuns
  <2>2. received \in [Players -> Seq(Messages)]
    BY <1>1, <1>8 DEF Receive
  <2> HIDE DEF received
  <2>3. /\ ChainInv' /\ mempool' \subseteq Txs \ {NoTx}
        /\ mgr' \in [Players -> Managers] /\ inbox' \in [Players -> Seq(Messages)]
        /\ \A q \in Players : GoodManager(mgr'[q]) /\ mgr'[q].out = <<>> /\ mgr'[q].txs = {}
        /\ faults' \in 0 .. MaxFaults /\ restarted' = restarted
    BY <2>1, <2>2, RunsGood
  <2>4. snapshot' = snapshot /\ requests' = requests
    BY <1>8 DEF Receive
  <2>5. QED
    BY <1>1, <2>3, <2>4 DEF ChannelInv, DaemonInv, BoundInv
<1>9. ASSUME NEW p \in Players,
             \/ Trigger(p) \/ Request(p) \/ \E mv \in BoardMoves : LocalMove(p, mv)
      PROVE  ChannelInv'
  <2>1. PICK m, wallet : Runs(p, m, wallet, inbox) /\ Did(mgr[p], mgr[p].rs, m, p)
    BY <1>9, UserRuns
  <2>2. /\ ChainInv' /\ mempool' \subseteq Txs \ {NoTx}
        /\ mgr' \in [Players -> Managers] /\ inbox' \in [Players -> Seq(Messages)]
        /\ \A q \in Players : GoodManager(mgr'[q]) /\ mgr'[q].out = <<>> /\ mgr'[q].txs = {}
        /\ faults' \in 0 .. MaxFaults /\ restarted' = restarted
    BY <1>1, <2>1, RunsGood
  <2>3. snapshot' = snapshot /\ requests' \in 0 .. MaxRequests
    BY <1>1, <1>9, ChannelAssumption DEF Trigger, Request, LocalMove
  <2>4. QED
    BY <1>1, <2>2, <2>3 DEF ChannelInv, DaemonInv, BoundInv
<1>10. ASSUME NEW p \in Players, Stop(p) PROVE ChannelInv'
  <2> DEFINE x == StopUpdates(mgr[p])
  <2>1. GoodManager(x) /\ x.out = <<>> /\ x.txs = {} /\ x \in Managers
    <3>1. /\ x \in Managers /\ x.rs = mgr[p].rs /\ x.check = mgr[p].check
          /\ x.exists = mgr[p].exists /\ x.dispute = mgr[p].dispute
          /\ x.out = mgr[p].out /\ x.txs = mgr[p].txs
      <4>1. mgr[p] \in Managers /\ TRUE \in BOOLEAN
        BY <1>1
      <4>2. QED
        BY <4>1, ManagerFlags, Zenon DEF StopUpdates
    <3> HIDE DEF x
    <3>2. QED
      BY <1>1, <1>10, <3>1 DEF GoodManager, GoodCheck, Stop, Alive
  <2>2. /\ mgr' = [mgr EXCEPT ![p] = x] /\ faults' \in 0 .. MaxFaults
        /\ UNCHANGED <<chain, mempool, snapshot, inbox, requests, restarted>>
    BY <1>1, <1>10, FaultBound DEF Stop
  <2> HIDE DEF x
  <2>3. DaemonInv'
    BY <1>1, <2>1, <2>2 DEF DaemonInv
  <2>4. QED
    BY <1>1, <2>2, <2>3 DEF ChannelInv, ChainInv, BoundInv
<1>11. ASSUME NEW p \in Players, Start(p) PROVE ChannelInv'
  <2> DEFINE x == NewManager(p)
  <2>1. GoodManager(x) /\ x.out = <<>> /\ x.txs = {} /\ x \in Managers
    BY NewManagerGood, GoodHasType
  <2>2. /\ mgr' = [mgr EXCEPT ![p] = x]
        /\ inbox' = [inbox EXCEPT ![p] = <<>>]
        /\ restarted' = restarted \cup {p}
        /\ UNCHANGED <<chain, mempool, snapshot, requests, faults>>
    BY <1>11 DEF Start
  <2> HIDE DEF x
  <2>3. DaemonInv'
    BY <1>1, <2>1, <2>2 DEF DaemonInv
  <2>4. QED
    BY <1>1, <2>2, <2>3 DEF ChannelInv, ChainInv, BoundInv
<1>12. CASE UNCHANGED vars
  BY <1>12 DEF vars, ChannelInv, ChainInv, DaemonInv, BoundInv
<1>13. QED
  BY <1>2, <1>3, <1>4, <1>5, <1>6, <1>7, <1>8, <1>9, <1>10, <1>11, <1>12 DEF Next

-----------------------------------------------------------------------------
(* The history grows with the steps. *)
LEMMA InExtends ==
    ASSUME ChannelInv, NEW H \in Histories, NEW H2 \in Histories, Extends(H, H2)
    PROVE  /\ ChainIn(H, chain) => ChainIn(H2, chain)
           /\ PoolIn(H, mempool) => PoolIn(H2, mempool)
           /\ \A p \in Players : SnapshotIn(H, snapshot[p]) => SnapshotIn(H2, snapshot[p])
           /\ \A box \in Seq(Messages) : BoxIn(H, box) => BoxIn(H2, box)
<1> DEFINE Blocks == [ch : Channels \cup {NoChannel}, tx : Txs \cup {NoTx}]
<1>1. \A ch \in Channels \cup {NoChannel} : ChannelIn(H, ch) => ChannelIn(H2, ch)
  <2>1. \A ch \in Channels : ch.proof \in StateProofs
    BY DEF Channels
  <2>2. QED
    BY <2>1, SignedInExtends DEF ChannelIn
<1>2. \A tx \in Txs \cup {NoTx} : TxIn(H, tx) => TxIn(H2, tx)
  <2>1. \A tx \in Txs : tx.proof \in StateProofs
    BY DEF Txs
  <2>2. QED
    BY <2>1, SignedInExtends DEF TxIn
<1>3. ChainIn(H, chain) => ChainIn(H2, chain)
  <2>1. /\ chain \in Seq(Blocks)
        /\ \A b \in Blocks : b.ch \in Channels \cup {NoChannel} /\ b.tx \in Txs \cup {NoTx}
    BY DEF ChannelInv, ChainInv
  <2> HIDE DEF Blocks
  <2>2. \A i \in 1 .. Len(chain) : chain[i] \in Blocks
    BY <2>1
  <2>3. QED
    BY <1>1, <1>2, <2>1, <2>2 DEF ChainIn
<1>4. PoolIn(H, mempool) => PoolIn(H2, mempool)
  BY <1>2 DEF ChannelInv, DaemonInv, PoolIn
<1>5. ASSUME NEW p \in Players, SnapshotIn(H, snapshot[p])
      PROVE  SnapshotIn(H2, snapshot[p])
  BY <1>1, <1>5 DEF ChannelInv, DaemonInv, SnapshotIn
<1>6. ASSUME NEW box \in Seq(Messages), BoxIn(H, box)
      PROVE  BoxIn(H2, box)
  <2>1. \A msg \in Messages : msg.proof \in StateProofs
    BY DEF Messages
  <2>2. \A i \in 1 .. Len(box) : box[i] \in Messages
    OBVIOUS
  <2>3. QED
    BY <1>6, <2>1, <2>2, SignedInExtends DEF BoxIn
<1>7. QED
  BY <1>3, <1>4, <1>5, <1>6

(* A manager learns from the chain and from a message. *)
LEMMA ChainLearning ==
    ASSUME NEW H \in Histories, NEW R \in [Players -> RollingStates], Fits(H, R),
           NEW me \in Players, GoodRolling(R[me]), NEW r \in Reinits,
           NEW proof \in StateProofs, VerifyStateProof(r, proof), SignedIn(H, proof)
    PROVE  Fits(H, [R EXCEPT ![me] = UpdateOnChain(R[me], r, proof)])
<1> DEFINE rs2 == UpdateOnChain(R[me], r, proof)
<1>1. /\ GoodRolling(rs2)
      /\ \A q \in Reinits \ {r} : rs2.reinits[q] = R[me].reinits[q]
      /\ \/ rs2.reinits[r].proof = proof
         \/ Known(R[me], r) /\ rs2.reinits[r].proof = R[me].reinits[r].proof
      /\ Known(R[me], r) =>
            ProofCount(rs2.reinits[r].proof) >= ProofCount(R[me].reinits[r].proof)
      /\ rs2.reinitId = r
  BY UpdateOnChainGood
<1> HIDE DEF rs2
<1>2. Known(rs2, r) /\ rs2 \in RollingStates
  BY <1>1 DEF GoodRolling
<1>3. RollingIn(H, R[me])
  BY DEF Fits
<1>4. RollingIn(H, rs2)
  BY <1>1, <1>3 DEF RollingIn, Known
<1>5. ASSUME NEW q \in Reinits, Known(R[me], q)
      PROVE  /\ Known(rs2, q)
             /\ TurnCount(LatestOf(rs2, q)) >= TurnCount(LatestOf(R[me], q))
  <2>1. Known(rs2, q)
    BY <1>1, <1>2, <1>5 DEF Known
  <2>2. /\ TurnCount(LatestOf(rs2, q)) = ProofCount(rs2.reinits[q].proof)
        /\ TurnCount(LatestOf(R[me], q)) = ProofCount(R[me].reinits[q].proof)
        /\ ProofCount(R[me].reinits[q].proof) \in Nat
    BY <1>1, <1>5, <2>1, EntryParts, ProofCountNat
  <2>3. QED
    BY <1>1, <1>5, <2>1, <2>2
<1>6. QED
  BY <1>1, <1>2, <1>4, <1>5, LearningFits DEF rs2

LEMMA MessageLearning ==
    ASSUME NEW H \in Histories, NEW R \in [Players -> RollingStates], Fits(H, R),
           NEW me \in Players, GoodRolling(R[me]), NEW r \in Reinits,
           NEW proof \in StateProofs, SignedIn(H, proof)
    PROVE  Fits(H, [R EXCEPT ![me] = UpdateWithMove(R[me], r, proof)])
<1> DEFINE rs2 == UpdateWithMove(R[me], r, proof)
<1>1. /\ GoodRolling(rs2)
      /\ \A q \in Reinits \ {r} : rs2.reinits[q] = R[me].reinits[q]
      /\ \/ rs2 = R[me]
         \/ /\ Known(R[me], r) /\ Known(rs2, r)
            /\ rs2.reinits[r].proof = proof
            /\ ProofCount(proof) > ProofCount(R[me].reinits[r].proof)
  BY UpdateWithMoveGood
<1> HIDE DEF rs2
<1>2. rs2 \in RollingStates
  BY <1>1 DEF GoodRolling
<1>3. RollingIn(H, R[me])
  BY DEF Fits
<1>4. RollingIn(H, rs2)
  BY <1>1, <1>3 DEF RollingIn, Known
<1>5. ASSUME NEW q \in Reinits, Known(R[me], q)
      PROVE  /\ Known(rs2, q)
             /\ TurnCount(LatestOf(rs2, q)) >= TurnCount(LatestOf(R[me], q))
  <2>1. Known(rs2, q)
    BY <1>1, <1>5 DEF Known
  <2>2. /\ TurnCount(LatestOf(rs2, q)) = ProofCount(rs2.reinits[q].proof)
        /\ TurnCount(LatestOf(R[me], q)) = ProofCount(R[me].reinits[q].proof)
        /\ ProofCount(R[me].reinits[q].proof) \in Nat /\ ProofCount(proof) \in Nat
    BY <1>1, <1>5, <2>1, EntryParts, ProofCountNat
  <2>3. QED
    BY <1>1, <1>5, <2>1, <2>2
<1>6. QED
  BY <1>1, <1>2, <1>4, <1>5, LearningFits DEF rs2

(* A method runs, having learnt rs. *)
LEMMA RunsHistory ==
    ASSUME ChannelInv, NEW p \in Players, NEW m, NEW rs \in RollingStates,
           Did(mgr[p], rs, m, p),
           NEW wallet, NEW received \in [Players -> Seq(Messages)],
           Runs(p, m, wallet, received),
           \A q \in Players : snapshot'[q] \in {snapshot[q], NoSnapshot},
           NEW H \in Histories, Fits(H, [Rolling(mgr) EXCEPT ![p] = rs]),
           ChainIn(H, chain), PoolIn(H, mempool),
           \A q \in Players : SnapshotIn(H, snapshot[q]) /\ BoxIn(H, received[q])
    PROVE  \E H2 \in Histories : HistoryOf(H2, chain', mempool', mgr', snapshot', inbox')
<1> DEFINE R == [Rolling(mgr) EXCEPT ![p] = rs]
<1>1. /\ \A q \in Players : GoodManager(mgr[q])
      /\ mgr[p].out = <<>> /\ mgr[p].txs = {}
  BY DEF ChannelInv, DaemonInv
<1>2. Rolling(mgr) \in [Players -> RollingStates]
  BY <1>1, GoodHasType DEF Rolling
<1>3. R \in [Players -> RollingStates] /\ R[p] = rs
  BY <1>2
<1>4. [R EXCEPT ![p] = m.rs] = [Rolling(mgr) EXCEPT ![p] = m.rs]
  BY <1>2
<1>5. Rolling(mgr') = [R EXCEPT ![p] = m.rs]
  BY <1>4, RunsGood
<1>6. Fits(H, R)
  OBVIOUS
<1> HIDE DEF R
<1>7. PICK H2 \in Histories : Extends(H, H2) /\ Fits(H2, Rolling(mgr'))
  <2>1. Grows(p, rs, m.rs)
    BY DEF Did
  <2>2. \E H2 \in Histories : Extends(H, H2) /\ Fits(H2, [R EXCEPT ![p] = m.rs])
    BY <1>3, <1>6, <2>1 DEF Grows
  <2>3. QED
    BY <1>5, <2>2
<1>8. m.rs \in RollingStates
  BY GoodHasType DEF Did
<1>9. RollingIn(H2, m.rs)
  <2>1. Rolling(mgr')[p] = m.rs
    BY <1>3, <1>5, <1>8
  <2>2. QED
    BY <1>7, <2>1 DEF Fits
<1>10. m.out \in Seq(Messages) /\ BoxIn(H2, m.out) /\ PoolIn(H2, m.txs)
  BY <1>1, <1>9, DidSends
<1>11. /\ ChainIn(H2, chain) /\ PoolIn(H2, mempool)
       /\ \A q \in Players : SnapshotIn(H2, snapshot[q]) /\ BoxIn(H2, received[q])
  BY <1>7, InExtends
<1>12. /\ mempool' = mempool \cup (m.txs \ {NoTx})
       /\ inbox' = [q \in Players |->
                       IF q = p THEN received[q] ELSE received[q] \o m.out]
       /\ chain' = chain
  BY DEF Runs
<1>13. ChainIn(H2, chain') /\ PoolIn(H2, mempool')
  BY <1>10, <1>11, <1>12 DEF PoolIn
<1>14. ASSUME NEW q \in Players PROVE SnapshotIn(H2, snapshot'[q]) /\ BoxIn(H2, inbox'[q])
  <2>1. SnapshotIn(H2, snapshot'[q])
    BY <1>11 DEF SnapshotIn
  <2>2. CASE q = p
    BY <1>11, <1>12, <2>1, <2>2
  <2>3. CASE q # p
    <3> DEFINE a == received[q]
               b == m.out
    <3>1. inbox'[q] = a \o b
      BY <1>12, <2>3
    <3>2. a \in Seq(Messages) /\ b \in Seq(Messages) /\ BoxIn(H2, a) /\ BoxIn(H2, b)
      BY <1>10, <1>11
    <3> HIDE DEF a, b
    <3>3. /\ Len(a \o b) = Len(a) + Len(b) /\ Len(a) \in Nat /\ Len(b) \in Nat
          /\ \A i \in 1 .. Len(a) + Len(b) :
                (a \o b)[i] = IF i <= Len(a) THEN a[i] ELSE b[i - Len(a)]
      BY <3>2
    <3>4. ASSUME NEW i \in 1 .. Len(a \o b) PROVE SignedIn(H2, (a \o b)[i].proof)
      <4>1. CASE i <= Len(a)
        BY <3>2, <3>3, <4>1 DEF BoxIn
      <4>2. CASE ~(i <= Len(a))
        <5>1. i - Len(a) \in 1 .. Len(b) /\ (a \o b)[i] = b[i - Len(a)]
          BY <3>3, <4>2
        <5>2. QED
          BY <3>2, <5>1 DEF BoxIn
      <4>3. QED
        BY <4>1, <4>2
    <3>5. QED
      BY <2>1, <3>1, <3>4 DEF BoxIn
  <2>4. QED
    BY <2>2, <2>3
<1>15. QED
  BY <1>7, <1>13, <1>14 DEF HistoryOf

LEMMA HistoryInit == Init => HistoryInv
<1> SUFFICES ASSUME Init PROVE HistoryInv
  OBVIOUS
<1> DEFINE H == [r \in Reinits |-> {ReinitState(r)}]
<1>1. H \in Histories
  BY RulesAssumption DEF Histories
<1>2. OnePerCount(H)
  BY DEF OnePerCount
<1>3. LaterKnown(H, Rolling(mgr))
  <2>1. ASSUME NEW r \in Reinits PROVE \A s, t \in H[r] : ~(TurnCount(s) < TurnCount(t))
    BY RulesAssumption
  <2> HIDE DEF H
  <2>2. QED
    BY <2>1 DEF LaterKnown
<1>4. \A p \in Players : RollingIn(H, Rolling(mgr)[p])
  <2>1. \A p \in Players : Rolling(mgr)[p] = NewRollingState
    BY NewManagerGood DEF Init, Rolling
  <2>2. \A p \in Players : \A r \in Reinits : ~Known(NewRollingState, r)
    BY NewManagerGood
  <2> HIDE DEF H
  <2>3. QED
    BY <2>1, <2>2 DEF RollingIn
<1> HIDE DEF H
<1>5. /\ ChainIn(H, chain) /\ PoolIn(H, mempool)
      /\ \A p \in Players : SnapshotIn(H, snapshot[p]) /\ BoxIn(H, inbox[p])
  BY DEF Init, ChainIn, PoolIn, SnapshotIn, BoxIn
<1>6. QED
  BY <1>1, <1>2, <1>3, <1>4, <1>5 DEF HistoryInv, HistoryOf, Fits

(* A block is added whose channel and move fit the history. *)
LEMMA AddBlockIn ==
    ASSUME ChainInv, NEW H, ChainIn(H, chain), NEW ch, NEW tx, AddBlock(ch, tx),
           ChannelIn(H, ch), TxIn(H, tx)
    PROVE  ChainIn(H, chain')
<1> DEFINE Blocks == [ch : Channels \cup {NoChannel}, tx : Txs \cup {NoTx}]
           b == [ch |-> ch, tx |-> tx]
<1>1. chain \in Seq(Blocks) /\ chain' = Append(chain, b) /\ b.ch = ch /\ b.tx = tx
  BY DEF ChainInv, AddBlock
<1> HIDE DEF Blocks, b
<1>2. /\ Len(chain') = Len(chain) + 1 /\ Len(chain) \in Nat
      /\ chain'[Len(chain) + 1] = b
      /\ \A i \in 1 .. Len(chain) : chain'[i] = chain[i]
  BY <1>1
<1>3. \A i \in 1 .. Len(chain') : i = Len(chain) + 1 \/ i \in 1 .. Len(chain)
  BY <1>2
<1>4. QED
  BY <1>1, <1>2, <1>3 DEF ChainIn

LEMMA HistoryStep == ChannelInv /\ HistoryInv /\ [Next]_vars => HistoryInv'
<1> SUFFICES ASSUME ChannelInv, HistoryInv, [Next]_vars, restarted' = {}
             PROVE  \E H2 \in Histories :
                       HistoryOf(H2, chain', mempool', mgr', snapshot', inbox')
  BY DEF HistoryInv
<1>1. restarted = {} /\ \A p \in Players : ~Start(p)
  <2>1. ASSUME NEW p \in Players, Start(p) PROVE FALSE
    BY <2>1 DEF Start
  <2>2. UNCHANGED restarted
    BY <2>1, ZenonT(60) DEF Next, vars, Reinit, Mine, DropTx, Reorg, Fetch, Feed, Receive, Trigger,
                Request, Stop, LocalMove, Runs
  <2>3. QED
    BY <2>1, <2>2
<1>2. PICK H \in Histories : HistoryOf(H, chain, mempool, mgr, snapshot, inbox)
  BY <1>1 DEF HistoryInv
<1>3. /\ Fits(H, Rolling(mgr)) /\ ChainIn(H, chain) /\ PoolIn(H, mempool)
      /\ \A p \in Players : SnapshotIn(H, snapshot[p]) /\ BoxIn(H, inbox[p])
  BY <1>2 DEF HistoryOf
<1>4. /\ ChainInv /\ mempool \subseteq Txs \ {NoTx} /\ inbox \in [Players -> Seq(Messages)]
      /\ mgr \in [Players -> Managers]
      /\ snapshot \in [Players -> Channels \cup {NoChannel, NoSnapshot}]
      /\ \A p \in Players : /\ GoodManager(mgr[p]) /\ GoodRolling(mgr[p].rs)
                            /\ mgr[p].rs \in RollingStates
      /\ \A p \in Players :
            snapshot[p] \notin {NoChannel, NoSnapshot} => GoodChannel(snapshot[p])
  BY GoodHasType DEF ChannelInv, DaemonInv
<1>5. /\ Rolling(mgr) \in [Players -> RollingStates]
      /\ \A p \in Players : /\ Rolling(mgr)[p] = mgr[p].rs
                            /\ [Rolling(mgr) EXCEPT ![p] = mgr[p].rs] = Rolling(mgr)
  BY <1>4 DEF Rolling
<1>6. ASSUME NEW r \in Reinits, Reinit(r)
      PROVE  HistoryOf(H, chain', mempool', mgr', snapshot', inbox')
  <2>1. PICK ch : AddBlock(ch, NoTx) /\ ch.proof = StateProofFromReinit(r)
    BY <1>6, ReinitStep
  <2>2. ChannelIn(H, ch) /\ TxIn(H, NoTx)
    BY <2>1, ReinitSignedIn DEF ChannelIn, TxIn
  <2>3. ChainIn(H, chain')
    BY <1>3, <1>4, <2>1, <2>2, AddBlockIn
  <2>4. QED
    BY <1>3, <1>6, <2>3 DEF Reinit, HistoryOf
<1>7. ASSUME NEW tx \in mempool, Mine(tx)
      PROVE  HistoryOf(H, chain', mempool', mgr', snapshot', inbox')
  <2>1. TxIn(H, tx) /\ PoolIn(H, mempool')
    BY <1>3, <1>7 DEF PoolIn, Mine
  <2>2. ChainIn(H, chain')
    <3>1. CASE UNCHANGED chain
      BY <1>3, <3>1
    <3>2. CASE ~UNCHANGED chain
      <4>1. PICK ch :
               /\ AddBlock(ch, tx) /\ Tip(chain) # NoChannel /\ GoodChannel(Tip(chain))
               /\ ch # NoChannel =>
                     ch.proof \in {Tip(chain).proof, tx.proof,
                                   StateProofFromReinit(Tip(chain).reinit)}
        BY <1>7, <3>2, MineStep
      <4>2. SignedIn(H, Tip(chain).proof)
        BY <1>3, <1>4, <4>1, TipParts DEF ChainIn, ChannelIn
      <4>3. SignedIn(H, StateProofFromReinit(Tip(chain).reinit))
        BY <4>1, ReinitSignedIn DEF GoodChannel, Channels
      <4>4. ChannelIn(H, ch)
        <5>1. tx # NoTx
          BY <1>4
        <5>2. QED
          BY <2>1, <4>1, <4>2, <4>3, <5>1 DEF ChannelIn, TxIn
      <4>5. QED
        BY <1>3, <1>4, <2>1, <4>1, <4>4, AddBlockIn
    <3>3. QED
      BY <3>1, <3>2
  <2>3. QED
    BY <1>3, <1>7, <2>1, <2>2 DEF Mine, HistoryOf
<1>8. ASSUME NEW tx \in mempool, DropTx(tx)
      PROVE  HistoryOf(H, chain', mempool', mgr', snapshot', inbox')
  BY <1>3, <1>8 DEF DropTx, HistoryOf, PoolIn
<1>9. ASSUME Reorg PROVE HistoryOf(H, chain', mempool', mgr', snapshot', inbox')
  <2>1. ChainIn(H, chain')
    BY <1>3, <1>9, ReorgStep DEF ChainIn
  <2>2. TxIn(H, chain[Len(chain)].tx)
    BY <1>3, <1>9, ReorgStep DEF ChainIn
  <2>3. PoolIn(H, mempool')
    BY <1>3, <1>9, <2>2 DEF Reorg, PoolIn
  <2>4. QED
    BY <1>3, <1>9, <2>1, <2>3 DEF Reorg, HistoryOf
<1>10. ASSUME NEW p \in Players, Fetch(p)
       PROVE  HistoryOf(H, chain', mempool', mgr', snapshot', inbox')
  <2>1. SnapshotIn(H, Tip(chain))
    BY <1>3, <1>4, TipParts DEF ChainIn, ChannelIn, SnapshotIn
  <2>2. \A q \in Players : SnapshotIn(H, snapshot'[q])
    BY <1>3, <1>4, <1>10, <2>1 DEF Fetch
  <2>3. QED
    BY <1>3, <1>10, <2>2 DEF Fetch, HistoryOf
<1>11. ASSUME NEW p \in Players, Feed(p)
       PROVE  \E H2 \in Histories :
                 HistoryOf(H2, chain', mempool', mgr', snapshot', inbox')
  <2>1. PICK m, rs, wallet :
           /\ Runs(p, m, wallet, inbox) /\ Did(mgr[p], rs, m, p)
           /\ \/ rs = mgr[p].rs
              \/ /\ snapshot[p] \notin {NoChannel, NoSnapshot}
                 /\ rs = UpdateOnChain(mgr[p].rs, snapshot[p].reinit, snapshot[p].proof)
    BY <1>11, FeedRuns
  <2>2. \A q \in Players : snapshot'[q] \in {snapshot[q], NoSnapshot}
    BY <1>4, <1>11 DEF Feed
  <2>3. rs \in RollingStates /\ Fits(H, [Rolling(mgr) EXCEPT ![p] = rs])
    <3>1. CASE rs = mgr[p].rs
      BY <1>3, <1>4, <1>5, <3>1
    <3>2. CASE rs # mgr[p].rs
      <4> DEFINE r == snapshot[p].reinit
                 proof == snapshot[p].proof
      <4>1. /\ snapshot[p] \notin {NoChannel, NoSnapshot}
            /\ rs = UpdateOnChain(mgr[p].rs, r, proof)
        BY <2>1, <3>2
      <4>2. /\ r \in Reinits /\ proof \in StateProofs /\ VerifyStateProof(r, proof)
            /\ SignedIn(H, proof)
        BY <1>3, <1>4, <4>1 DEF GoodChannel, Channels, SnapshotIn, ChannelIn
      <4> HIDE DEF r, proof
      <4>3. rs \in RollingStates
        BY <1>4, <4>1, <4>2, UpdateOnChainGood DEF GoodRolling
      <4>4. Fits(H, [Rolling(mgr) EXCEPT ![p] =
                        UpdateOnChain(Rolling(mgr)[p], r, proof)])
        BY <1>3, <1>4, <1>5, <4>2, ChainLearning
      <4>5. QED
        BY <1>5, <4>1, <4>3, <4>4
    <3>3. QED
      BY <3>1, <3>2
  <2>4. QED
    BY <1>3, <1>4, <2>1, <2>2, <2>3, RunsHistory
<1>12. ASSUME NEW p \in Players, Receive(p)
       PROVE  \E H2 \in Histories :
                 HistoryOf(H2, chain', mempool', mgr', snapshot', inbox')
  <2> DEFINE received == [inbox EXCEPT ![p] = Tail(@)]
             msg == Head(inbox[p])
  <2>1. PICK m, rs, wallet :
           /\ Runs(p, m, wallet, received) /\ Did(mgr[p], rs, m, p)
           /\ \/ rs = mgr[p].rs
              \/ rs = UpdateWithMove(mgr[p].rs, msg.reinit, msg.proof)
    BY <1>12, ReceiveRuns
  <2>2. inbox[p] \in Seq(Messages) /\ inbox[p] # <<>> /\ BoxIn(H, inbox[p])
    BY <1>3, <1>4, <1>12 DEF Receive
  <2>3. /\ msg \in Messages /\ msg = inbox[p][1] /\ 1 \in 1 .. Len(inbox[p])
        /\ Tail(inbox[p]) \in Seq(Messages)
        /\ Len(Tail(inbox[p])) = Len(inbox[p]) - 1 /\ Len(inbox[p]) \in Nat
        /\ \A i \in 1 .. Len(inbox[p]) - 1 : Tail(inbox[p])[i] = inbox[p][i + 1]
    BY <2>2
  <2>4. BoxIn(H, Tail(inbox[p]))
    BY <2>2, <2>3 DEF BoxIn
  <2>5. /\ msg.reinit \in Reinits /\ msg.proof \in StateProofs
        /\ SignedIn(H, msg.proof)
    BY <2>2, <2>3 DEF BoxIn, Messages
  <2>6. /\ received \in [Players -> Seq(Messages)]
        /\ \A q \in Players : BoxIn(H, received[q])
    BY <1>3, <1>4, <2>3, <2>4
  <2>7. \A q \in Players : snapshot'[q] \in {snapshot[q], NoSnapshot}
    BY <1>12 DEF Receive
  <2> HIDE DEF received, msg
  <2>8. rs \in RollingStates /\ Fits(H, [Rolling(mgr) EXCEPT ![p] = rs])
    <3>1. CASE rs = mgr[p].rs
      BY <1>3, <1>4, <1>5, <3>1
    <3>2. CASE rs = UpdateWithMove(mgr[p].rs, msg.reinit, msg.proof)
      <4>1. rs \in RollingStates
        BY <1>4, <2>5, <3>2, UpdateWithMoveGood DEF GoodRolling
      <4>2. Fits(H, [Rolling(mgr) EXCEPT ![p] =
                        UpdateWithMove(Rolling(mgr)[p], msg.reinit, msg.proof)])
        BY <1>3, <1>4, <1>5, <2>5, MessageLearning
      <4>3. QED
        BY <1>5, <3>2, <4>1, <4>2
    <3>3. QED
      BY <2>1, <3>1, <3>2
  <2>9. QED
    BY <1>3, <2>1, <2>6, <2>7, <2>8, RunsHistory
<1>13. ASSUME NEW p \in Players,
              \/ Trigger(p) \/ Request(p) \/ \E mv \in BoardMoves : LocalMove(p, mv)
       PROVE  \E H2 \in Histories :
                 HistoryOf(H2, chain', mempool', mgr', snapshot', inbox')
  <2>1. PICK m, wallet : Runs(p, m, wallet, inbox) /\ Did(mgr[p], mgr[p].rs, m, p)
    BY <1>13, UserRuns
  <2>2. \A q \in Players : snapshot'[q] \in {snapshot[q], NoSnapshot}
    BY <1>13 DEF Trigger, Request, LocalMove
  <2>3. QED
    BY <1>3, <1>4, <1>5, <2>1, <2>2, RunsHistory, SMTT(30)
<1>14. ASSUME NEW p \in Players, Stop(p)
       PROVE  HistoryOf(H, chain', mempool', mgr', snapshot', inbox')
  <2>1. \A q \in Players : mgr'[q].rs = mgr[q].rs
    <3>1. mgr' = [mgr EXCEPT ![p] = StopUpdates(mgr[p])]
      BY <1>14 DEF Stop
    <3>2. StopUpdates(mgr[p]).rs = mgr[p].rs
      <4>1. mgr[p] \in Managers /\ TRUE \in BOOLEAN
        BY <1>4
      <4>2. QED
        BY <4>1, ManagerFlags, Zenon DEF StopUpdates
    <3>3. QED
      BY <1>4, <3>1, <3>2
  <2>2. Rolling(mgr') = Rolling(mgr)
    BY <2>1 DEF Rolling
  <2>3. QED
    BY <1>3, <1>14, <2>2 DEF Stop, HistoryOf
<1>15. CASE UNCHANGED vars
  BY <1>2, <1>15 DEF vars
<1>16. QED
  BY <1>1, <1>6, <1>7, <1>8, <1>9, <1>10, <1>11, <1>12, <1>13, <1>14, <1>15 DEF Next

-----------------------------------------------------------------------------
(* Every reachable state of the chain, of the daemons and of the queues    *)
(* between them has its type.                                              *)
THEOREM ChannelTypeCorrect == Spec => []TypeOK
<1>1. ChannelInv => TypeOK
  <2> SUFFICES ASSUME ChannelInv PROVE TypeOK
    OBVIOUS
  <2> DEFINE Blocks == [ch : Channels \cup {NoChannel}, tx : Txs \cup {NoTx}]
  <2>1. /\ chain \in Seq(Blocks)
        /\ \A b \in Blocks : b.ch \in Channels \cup {NoChannel} /\ b.tx \in Txs \cup {NoTx}
    BY DEF ChannelInv, ChainInv
  <2> HIDE DEF Blocks
  <2>2. \A i \in 1 .. Len(chain) : /\ chain[i].ch \in Channels \cup {NoChannel}
                                   /\ chain[i].tx \in Txs \cup {NoTx}
    BY <2>1
  <2>3. QED
    BY <2>2 DEF ChannelInv, DaemonInv, BoundInv, TypeOK
<1>2. QED
  BY <1>1, ChannelInit, ChannelStep, PTL DEF Spec

(* The proof of every state that a daemon keeps, for any reinitialisation, *)
(* and the proof on chain verify: for every board game, whatever was       *)
(* trimmed by ExtendStateProof, stored and read back by ChannelData,       *)
(* broadcast, reorged, lost or restarted before.                           *)
THEOREM StateProofsVerify == Spec => []ProofsVerify
<1>1. ChannelInv => ProofsVerify
  <2> SUFFICES ASSUME ChannelInv PROVE ProofsVerify
    OBVIOUS
  <2>1. ChainInv /\ \A p \in Players : GoodManager(mgr[p])
    BY DEF ChannelInv, DaemonInv
  <2>2. \A p \in Players, r \in Reinits :
           Known(mgr[p].rs, r) => VerifyStateProof(r, mgr[p].rs.reinits[r].proof)
    BY <2>1, GoodHasType, EntryParts
  <2>3. Tip(chain) # NoChannel => VerifyStateProof(Tip(chain).reinit, Tip(chain).proof)
    BY <2>1, TipParts DEF GoodChannel
  <2>4. QED
    BY <2>2, <2>3 DEF ProofsVerify
<1>2. QED
  BY <1>1, ChannelInit, ChannelStep, PTL DEF Spec

(* The state a daemon knows is never behind the best state it has seen on  *)
(* chain, for any reinitialisation and across reorgs: what the CHECK in    *)
(* PutStateOnChain relies on.                                              *)
THEOREM ChainNotAhead == Spec => []LatestNotBehindChain
<1>1. ChannelInv => LatestNotBehindChain
  <2> SUFFICES ASSUME ChannelInv PROVE LatestNotBehindChain
    OBVIOUS
  <2>1. \A p \in Players : GoodRolling(mgr[p].rs)
    BY GoodHasType DEF ChannelInv, DaemonInv
  <2>2. QED
    BY <2>1, EntryParts DEF LatestNotBehindChain
<1>2. QED
  BY <1>1, ChannelInit, ChannelStep, PTL DEF Spec

(* Two CHECKs of the channel manager's methods can fail, each in one       *)
(* situation: CHECK (ApplyLocalMove) when the wallet does not sign an      *)
(* automove on an existing channel, and the one on the channel's existence *)
(* when a message brings a state fresher than the chain ever had, with an  *)
(* automove, after the channel is gone.  No other CHECK fails, and none by *)
(* what the chain, the user or a stop does.                                *)
THEOREM ChecksHold == Spec => []ChecksFailAsKnown
<1>1. ChannelInv => ChecksFailAsKnown
  BY DEF ChannelInv, DaemonInv, GoodManager, GoodCheck, ChecksFailAsKnown, Alive
<1>2. QED
  BY <1>1, ChannelInit, ChannelStep, PTL DEF Spec

(* A block removes an open dispute only with a state of a higher turn      *)
(* count, and never replaces the state on chain by an older one            *)
(* (ProcessDispute and ProcessResolution).                                 *)
THEOREM DisputesEndFresher == Spec => DisputeNeedsFresherState
<1> DEFINE Count(ch) == TurnCount(LatestOnChain(ch))
           Fresher == /\ Len(chain') > Len(chain)
                      /\ Tip(chain) # NoChannel /\ Tip(chain') # NoChannel
                      /\ Tip(chain).reinit = Tip(chain').reinit
                      => /\ Count(Tip(chain')) >= Count(Tip(chain))
                         /\ HasDispute(Tip(chain)) /\ ~HasDispute(Tip(chain')) =>
                               Count(Tip(chain')) > Count(Tip(chain))
<1>1. ChannelInv /\ [Next]_vars => [Fresher]_vars
  <2> SUFFICES ASSUME ChannelInv, Next, Len(chain') > Len(chain),
                      Tip(chain) # NoChannel, Tip(chain') # NoChannel,
                      Tip(chain).reinit = Tip(chain').reinit
               PROVE  /\ Count(Tip(chain')) >= Count(Tip(chain))
                      /\ HasDispute(Tip(chain)) /\ ~HasDispute(Tip(chain')) =>
                            Count(Tip(chain')) > Count(Tip(chain))
    OBVIOUS
  <2>1. ChainInv /\ Len(chain) \in Nat /\ mempool \subseteq Txs
    BY TipParts DEF ChannelInv, DaemonInv
  <2>2. chain' # chain
    BY <2>1
  <2>3. ASSUME NEW r \in Reinits, Reinit(r) PROVE FALSE
    <3>1. PICK ch : /\ AddBlock(ch, NoTx) /\ GoodChannel(ch) /\ ch.reinit = r
                    /\ Tip(chain).reinit # r
      BY <2>3, ReinitStep
    <3>2. Tip(chain') = ch
      BY <2>1, <3>1, AddBlockGood
    <3>3. QED
      BY <3>1, <3>2
  <2>4. ~Reorg
    BY <2>1, ReorgStep
  <2>5. PICK tx \in mempool : Mine(tx)
    BY <2>2, <2>3, <2>4, ZenonT(60) DEF Next, DropTx, Fetch, Feed, Receive, Trigger, Request, Stop,
                            Start, LocalMove, Runs
  <2>6. PICK ch :
           /\ AddBlock(ch, tx)
           /\ ch # NoChannel =>
                 /\ GoodChannel(ch)
                 /\ Count(ch) >= Count(Tip(chain))
                 /\ HasDispute(Tip(chain)) /\ ~HasDispute(ch) =>
                       Count(ch) > Count(Tip(chain))
    BY <2>2, <2>5, MineStep
  <2>7. Tip(chain') = ch
    BY <2>1, <2>6, AddBlockGood
  <2>8. QED
    BY <2>6, <2>7
<1>2. [][Fresher]_vars => DisputeNeedsFresherState
  BY DEF DisputeNeedsFresherState
<1> HIDE DEF Fresher
<1>3. QED
  BY <1>1, <1>2, ChannelInit, ChannelStep, PTL DEF Spec

(* As long as no daemon has lost its state, whatever two daemons, or a     *)
(* daemon and any block of the chain, hold for the same reinitialisation   *)
(* and turn count is the same board state: for every board game, any       *)
(* number of players, and broadcasts, blocks and reorgs in any order.      *)
THEOREM PlayersAgree == Spec => []AgreeOnMoves
<1>1. ChannelInv /\ HistoryInv => AgreeOnMoves
  <2> SUFFICES ASSUME ChannelInv, HistoryInv, restarted = {},
                      NEW p \in Players, NEW r \in Reinits, Known(mgr[p].rs, r)
               PROVE  LET s == LatestOf(mgr[p].rs, r)
                          Agrees(t) == TurnCount(s) = TurnCount(t) => s = t
                      IN  /\ \A q \in Players :
                                Known(mgr[q].rs, r) => Agrees(LatestOf(mgr[q].rs, r))
                          /\ \A i \in 1 .. Len(chain) :
                                chain[i].ch # NoChannel /\ chain[i].ch.reinit = r =>
                                   Agrees(LatestOnChain(chain[i].ch))
    BY DEF AgreeOnMoves
  <2>1. PICK H \in Histories : HistoryOf(H, chain, mempool, mgr, snapshot, inbox)
    BY DEF HistoryInv
  <2>2. /\ OnePerCount(H) /\ ChainIn(H, chain)
        /\ \A q \in Players : RollingIn(H, Rolling(mgr)[q])
    BY <2>1 DEF HistoryOf, Fits
  <2>3. \A q \in Players : RollingIn(H, mgr[q].rs)
    BY <2>2 DEF Rolling
  <2>4. \A q \in Players : GoodRolling(mgr[q].rs)
    BY GoodHasType DEF ChannelInv, DaemonInv
  <2>5. /\ ReinitState(r) \in H[r]
        /\ \A s, t \in H[r] : TurnCount(s) = TurnCount(t) => s = t
    BY <2>2 DEF OnePerCount
  <2>6. ASSUME NEW q \in Players, Known(mgr[q].rs, r)
        PROVE  LatestOf(mgr[q].rs, r) \in H[r]
    <3>1. /\ mgr[q].rs.reinits[r].proof \in StateProofs
          /\ VerifyStateProof(r, mgr[q].rs.reinits[r].proof)
      BY <2>4, <2>6, EntryParts
    <3>2. SignedIn(H, mgr[q].rs.reinits[r].proof)
      BY <2>3, <2>6 DEF RollingIn
    <3>3. QED
      BY <2>5, <3>1, <3>2, EndInHistory DEF LatestOf
  <2>7. ASSUME NEW i \in 1 .. Len(chain), chain[i].ch # NoChannel, chain[i].ch.reinit = r
        PROVE  LatestOnChain(chain[i].ch) \in H[r]
    <3>1. GoodChannel(chain[i].ch)
      BY <2>7 DEF ChannelInv, ChainInv
    <3>2. /\ chain[i].ch.proof \in StateProofs
          /\ VerifyStateProof(r, chain[i].ch.proof)
      BY <2>7, <3>1 DEF GoodChannel, Channels
    <3>3. SignedIn(H, chain[i].ch.proof)
      BY <2>2, <2>7 DEF ChainIn, ChannelIn
    <3>4. QED
      BY <2>5, <3>2, <3>3, EndInHistory DEF LatestOnChain
  <2>8. QED
    BY <2>5, <2>6, <2>7
<1>2. QED
  BY <1>1, ChannelInit, ChannelStep, HistoryInit, HistoryStep, PTL DEF Spec
=============================================================================
