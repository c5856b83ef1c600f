------------------------- MODULE StateProofTheorems -------------------------
(***************************************************************************)
(* What the channel code relies on in its state proofs, for every game and *)
(* every length of a proof: the proof of a reinitialisation verifies, and  *)
(* so does a verifying proof that ExtendStateProof has extended by a move  *)
(* and cut to what is needed.                                              *)
(***************************************************************************)
EXTENDS StateProof, WellFoundedInduction, TLAPS

(* Every set of natural numbers has a least element: the form of induction *)
(* used in these proofs.                                                   *)
LEMMA LeastNumber ==
    ASSUME NEW T, T \subseteq Nat, T # {}
    PROVE  \E x \in T : \A y \in T : x <= y
<1>1. PICK x \in T : \A y \in T : ~(<<y, x>> \in OpToRel(<, Nat))
  BY WFMin, NatLessThanWellFounded, Zenon
<1>2. \A y \in T : y < x => <<y, x>> \in OpToRel(<, Nat)
  BY DEF OpToRel
<1>3. \A y \in T : ~(y < x)
  BY <1>1, <1>2, Zenon
<1>4. QED
  BY <1>3

(* A bounded set of natural numbers has a greatest element. *)
LEMMA GreatestNumber ==
    ASSUME NEW n \in Nat, NEW T, T \subseteq 1 .. n, T # {}
    PROVE  Max(T) \in T /\ \A y \in T : y <= Max(T)
<1> DEFINE U == {k \in Nat : n - k \in T}
<1>1. U # {} /\ U \subseteq Nat
  <2>1. PICK x \in T : TRUE
    OBVIOUS
  <2>2. n - x \in Nat /\ n - (n - x) = x
    BY <2>1
  <2>3. QED
    BY <2>1, <2>2
<1>2. PICK k \in U : \A j \in U : k <= j
  BY <1>1, LeastNumber
<1>3. n - k \in T /\ \A y \in T : n - k >= y
  <2>1. \A y \in T : n - y \in U /\ n - (n - y) = y
    OBVIOUS
  <2>2. QED
    BY <1>2, <2>1
<1>4. \E x \in T : \A y \in T : x >= y
  BY <1>3
<1>5. Max(T) \in T /\ \A y \in T : Max(T) >= y
  BY <1>4 DEF Max
<1>6. QED
  BY <1>5

-----------------------------------------------------------------------------
(* The parts of a proof. *)
LEMMA ProofParts ==
    ASSUME NEW proof \in StateProofs
    PROVE  /\ proof.initial_state \in SignedData
           /\ proof.transitions \in Seq(Transitions)
           /\ Len(proof.transitions) \in Nat
           /\ \A i \in 1 .. Len(proof.transitions) :
                 /\ proof.transitions[i] \in Transitions
                 /\ proof.transitions[i].move \in BoardMoves
                 /\ proof.transitions[i].new_state \in SignedData
<1>1. proof.initial_state \in SignedData /\ proof.transitions \in Seq(Transitions)
  BY DEF StateProofs
<1>2. \A i \in 1 .. Len(proof.transitions) : proof.transitions[i] \in Transitions
  BY <1>1
<1>3. \A t \in Transitions : t.move \in BoardMoves /\ t.new_state \in SignedData
  BY DEF Transitions
<1>4. QED
  BY <1>1, <1>2, <1>3

(* The state at the end of a proof is a board state. *)
LEMMA EndIsState ==
    ASSUME NEW proof \in StateProofs
    PROVE  UnverifiedProofEndState(proof) \in BoardStates
<1>1. \A sd \in SignedData : sd.data \in BoardStates
  BY DEF SignedData
<1>2. proof.transitions # <<>> =>
         Len(proof.transitions) \in 1 .. Len(proof.transitions)
  BY ProofParts
<1>3. QED
  BY <1>1, <1>2, ProofParts DEF UnverifiedProofEndState

(* The end of a proof is the last of its signed states. *)
LEMMA EndIsLastSigned ==
    ASSUME NEW proof \in StateProofs
    PROVE  UnverifiedProofEndState(proof)
              = SignedStates(proof)[Len(proof.transitions) + 1].data
<1>1. CASE proof.transitions = <<>>
  BY <1>1 DEF UnverifiedProofEndState, SignedStates
<1>2. CASE proof.transitions # <<>>
  <2>1. Len(proof.transitions) \in Nat \ {0}
    BY <1>2, ProofParts
  <2>2. QED
    BY <1>2, <2>1 DEF UnverifiedProofEndState, SignedStates
<1>3. QED
  BY <1>1, <1>2

(* The proof of a reinitialisation verifies and ends in its state. *)
LEMMA ReinitProofVerifies ==
    ASSUME NEW r \in Reinits
    PROVE  /\ StateProofFromReinit(r) \in StateProofs
           /\ VerifyStateProof(r, StateProofFromReinit(r))
           /\ UnverifiedProofEndState(StateProofFromReinit(r)) = ReinitState(r)
<1>1. ReinitState(r) \in BoardStates
  BY RulesAssumption
<1>2. Unsigned(ReinitState(r)) \in SignedData
  BY <1>1 DEF Unsigned, SignedData
<1>3. StateProofFromReinit(r) \in StateProofs
  BY <1>2 DEF StateProofFromReinit, StateProofs
<1>4. /\ StateProofFromReinit(r).transitions = <<>>
      /\ StateProofFromReinit(r).initial_state.data = ReinitState(r)
  BY DEF StateProofFromReinit, Unsigned
<1>5. QED
  BY <1>3, <1>4 DEF VerifyStateProof, UnverifiedProofEndState
(* The signed data that extends a proof by a move. *)
NewState(r, old, mv) ==
    SignDataForParticipant(r, WhoseTurn(old), Unsigned(ApplyMove(old, mv)))

(* It is signed by the player who makes the move. *)
LEMMA NewStateSigned ==
    ASSUME NEW r \in Reinits, NEW old \in BoardStates, NEW mv \in BoardMoves,
           WhoseTurn(old) # NO_TURN, IsMove(old, mv)
    PROVE  /\ NewState(r, old, mv) \in SignedData
           /\ NewState(r, old, mv).data = ApplyMove(old, mv)
           /\ NewState(r, old, mv).signatures =
                 {[addr |-> Participants[WhoseTurn(old)],
                   msg |-> [reinit |-> r, topic |-> "state",
                            data |-> ApplyMove(old, mv)]]}
           /\ VerifyStateTransition(r, old, [move |-> mv,
                                             new_state |-> NewState(r, old, mv)])
<1> DEFINE s == ApplyMove(old, mv)
           p == WhoseTurn(old)
           sig == [addr |-> Participants[p],
                   msg |-> [reinit |-> r, topic |-> "state", data |-> s]]
<1>1. s \in BoardStates /\ p \in Players
  BY RulesAssumption
<1>2. NewState(r, old, mv) = [data |-> s, signatures |-> {sig}]
  BY DEF NewState, SignDataForParticipant, Unsigned, SignatureMessage
<1>3. sig \in Signatures
  BY <1>1 DEF Signatures
<1>4. NewState(r, old, mv) \in SignedData
  BY <1>1, <1>2, <1>3 DEF SignedData
<1>5. p \in VerifyParticipantSignatures(r, NewState(r, old, mv))
  BY <1>1, <1>2 DEF VerifyParticipantSignatures, SignatureMessage
<1>6. VerifyStateTransition(r, old, [move |-> mv, new_state |-> NewState(r, old, mv)])
  BY <1>2, <1>5 DEF VerifyStateTransition
<1>7. QED
  BY <1>2, <1>4, <1>6

(* The proof that is left when the states before the b-th are cut off. *)
Cut(trans, states, b) == [initial_state |-> states[b],
                          transitions |-> SubSeq(trans, b, Len(trans))]

(***************************************************************************)
(* The signed states of a proof with one more transition, and what of them *)
(* ExtendStateProof keeps: those from TrailingBegin on.                    *)
(***************************************************************************)
LEMMA ExtendedParts ==
    ASSUME NEW r \in Reinits, NEW proof \in StateProofs, NEW mv \in BoardMoves,
           CanExtend(proof, mv)
    PROVE  \E trans \in Seq(Transitions), states \in Seq(SignedData), b \in Nat :
              LET n == Len(proof.transitions)
                  old == UnverifiedProofEndState(proof)
              IN  /\ Len(trans) = n + 1 /\ Len(states) = n + 2
                  /\ \A i \in 1 .. n : trans[i] = proof.transitions[i]
                  /\ trans[n + 1] = [move |-> mv, new_state |-> NewState(r, old, mv)]
                  /\ states[1] = proof.initial_state
                  /\ \A i \in 1 .. n + 1 : states[i + 1] = trans[i].new_state
                  /\ b = TrailingBegin(r, states)
                  /\ ExtendStateProof(r, proof, mv) = Cut(trans, states, b)
<1> DEFINE old == UnverifiedProofEndState(proof)
           n == Len(proof.transitions)
           new == [move |-> mv, new_state |-> NewState(r, old, mv)]
           trans == Extended(r, proof, mv)
           tail == [i \in 1 .. Len(trans) |-> trans[i].new_state]
           states == <<proof.initial_state>> \o tail
<1>1. new \in Transitions
  BY EndIsState, NewStateSigned DEF CanExtend, Transitions
<1>2. trans = Append(proof.transitions, new)
  BY DEF Extended, NewState
<1>3. proof.transitions \in Seq(Transitions) /\ n \in Nat
  BY ProofParts
<1>4. /\ trans \in Seq(Transitions) /\ Len(trans) = n + 1
      /\ \A i \in 1 .. n : trans[i] = proof.transitions[i]
      /\ trans[n + 1] = new
  BY <1>1, <1>2, <1>3
<1>5. HIDE DEF trans, n, new
<1>6. \A i \in 1 .. Len(trans) : trans[i].new_state \in SignedData
  <2>1. \A t \in Transitions : t.new_state \in SignedData
    BY DEF Transitions
  <2>2. QED
    BY <1>4, <2>1
<1>7. /\ tail \in Seq(SignedData) /\ Len(tail) = n + 1
      /\ \A i \in 1 .. n + 1 : tail[i] = trans[i].new_state
  BY <1>3, <1>4, <1>6
<1>8. HIDE DEF tail
<1>9. proof.initial_state \in SignedData
  BY ProofParts
<1>10. /\ states \in Seq(SignedData) /\ Len(states) = n + 2
       /\ states[1] = proof.initial_state
       /\ \A i \in 1 .. n + 1 : states[i + 1] = tail[i]
  BY <1>3, <1>7, <1>9
<1>11. ExtendStateProof(r, proof, mv) =
          Cut(trans, states, TrailingBegin(r, states))
  BY DEF ExtendStateProof, tail, trans, Cut
<1>12. HIDE DEF states
<1>13. TrailingBegin(r, states) \in 1 .. n + 2
  <2> DEFINE enough == {b \in 1 .. Len(states) :
                           Players \subseteq SignersFrom(r, states, b)}
  <2>1. CASE enough = {}
    BY <1>3, <2>1 DEF TrailingBegin
  <2>2. CASE enough # {}
    <3>1. n + 2 \in Nat /\ enough \subseteq 1 .. n + 2
      BY <1>3, <1>10
    <3>2. Max(enough) \in enough
      BY <2>2, <3>1, GreatestNumber
    <3>3. TrailingBegin(r, states) = Max(enough)
      BY <2>2 DEF TrailingBegin
    <3>4. QED
      BY <3>1, <3>2, <3>3
  <2>3. QED
    BY <2>1, <2>2
<1>14. TrailingBegin(r, states) \in Nat
  BY <1>3, <1>13
<1>15. \A i \in 1 .. n + 1 : states[i + 1] = trans[i].new_state
  BY <1>7, <1>10
<1>16. trans \in Seq(Transitions) /\ states \in Seq(SignedData)
  BY <1>4, <1>10
<1>17. USE <1>14, <1>16
<1>18. WITNESS trans \in Seq(Transitions), states \in Seq(SignedData),
               TrailingBegin(r, states) \in Nat
<1>19. QED
  BY <1>4, <1>10, <1>11, <1>15 DEF n, new
(* The signed states that are kept, in the order of the new proof. *)
LEMMA KeptStates ==
    ASSUME NEW trans \in Seq(Transitions), NEW states \in Seq(SignedData),
           NEW n \in Nat, Len(trans) = n + 1, Len(states) = n + 2,
           \A i \in 1 .. n + 1 : states[i + 1] = trans[i].new_state,
           NEW b \in 1 .. n + 2
    PROVE  LET new == Cut(trans, states, b)
           IN  /\ new \in StateProofs
               /\ Len(new.transitions) = n + 2 - b
               /\ \A i \in 1 .. n + 2 - b : new.transitions[i] = trans[b + i - 1]
               /\ Len(SignedStates(new)) = n + 3 - b
               /\ \A i \in 1 .. n + 3 - b : SignedStates(new)[i] = states[b + i - 1]
<1> DEFINE new == Cut(trans, states, b)
<1>1. new.initial_state = states[b] /\ new.transitions = SubSeq(trans, b, n + 1)
  BY DEF Cut
<1>2. new.initial_state \in SignedData
  BY <1>1
<1>3. /\ new.transitions \in Seq(Transitions)
      /\ Len(new.transitions) = n + 2 - b
      /\ \A i \in 1 .. n + 2 - b : new.transitions[i] = trans[b + i - 1]
  BY <1>1
<1>4. new \in StateProofs
  BY <1>2, <1>3 DEF StateProofs, Cut
<1> HIDE DEF new
<1>5. Len(SignedStates(new)) = n + 3 - b
  BY <1>3 DEF SignedStates
<1>6. ASSUME NEW i \in 1 .. n + 3 - b
      PROVE  SignedStates(new)[i] = states[b + i - 1]
  <2>1. CASE i = 1
    BY <1>1, <1>3, <2>1 DEF SignedStates
  <2>2. CASE i # 1
    <3>1. /\ i - 1 \in 1 .. n + 2 - b /\ b + (i - 1) - 1 \in 1 .. n + 1
          /\ (b + (i - 1) - 1) + 1 = b + i - 1 /\ i \in 1 .. Len(new.transitions) + 1
      BY <1>3, <2>2
    <3>2. SignedStates(new)[i] = new.transitions[i - 1].new_state
      BY <2>2, <3>1 DEF SignedStates
    <3>3. states[(b + (i - 1) - 1) + 1] = trans[b + (i - 1) - 1].new_state
      BY <3>1
    <3>4. QED
      BY <1>3, <3>1, <3>2, <3>3
  <2>3. QED
    BY <2>1, <2>2
<1>7. QED
  BY <1>3, <1>4, <1>5, <1>6 DEF new

(* The signers of the states from one on are those of the states cut there. *)
LEMMA SignersShift ==
    ASSUME NEW r, NEW s, NEW t, NEW n \in Nat, NEW b \in 1 .. n,
           Len(s) = n, Len(t) = n + 1 - b,
           \A i \in 1 .. n + 1 - b : t[i] = s[b + i - 1]
    PROVE  SignersFrom(r, s, b) = SignersFrom(r, t, 1)
<1>1. ASSUME NEW i \in b .. Len(s)
      PROVE  i - b + 1 \in 1 .. Len(t) /\ t[i - b + 1] = s[i]
  <2>1. i - b + 1 \in 1 .. n + 1 - b /\ b + (i - b + 1) - 1 = i
    OBVIOUS
  <2>2. QED
    BY <2>1
<1>2. ASSUME NEW i \in 1 .. Len(t)
      PROVE  b + i - 1 \in b .. Len(s) /\ t[i] = s[b + i - 1]
  OBVIOUS
<1>3. \A p : p \in SignersFrom(r, s, b) <=> p \in SignersFrom(r, t, 1)
  BY <1>1, <1>2 DEF SignersFrom
<1>4. QED
  BY <1>3

(***************************************************************************)
(* ExtendStateProof: a verifying proof, extended by a move of the player   *)
(* whose turn it is and trimmed, verifies and ends in the state after the  *)
(* move, which has a higher turn count.  Its signed states are some of the *)
(* old proof's and the new one.                                            *)
(***************************************************************************)
THEOREM ExtendedProofVerifies ==
    ASSUME NEW r \in Reinits, NEW proof \in StateProofs, NEW mv \in BoardMoves,
           VerifyStateProof(r, proof), CanExtend(proof, mv)
    PROVE  LET new == ExtendStateProof(r, proof, mv)
               old == UnverifiedProofEndState(proof)
           IN  /\ new \in StateProofs
               /\ VerifyStateProof(r, new)
               /\ UnverifiedProofEndState(new) = ApplyMove(old, mv)
               /\ TurnCount(UnverifiedProofEndState(new)) > TurnCount(old)
               /\ \A i \in 1 .. Len(SignedStates(new)) :
                     \/ SignedStates(new)[i] = NewState(r, old, mv)
                     \/ \E j \in 1 .. Len(SignedStates(proof)) :
                           SignedStates(new)[i] = SignedStates(proof)[j]
<1> DEFINE new == ExtendStateProof(r, proof, mv)
           old == UnverifiedProofEndState(proof)
           n == Len(proof.transitions)
           before == SignedStates(proof)
<1>1. PICK trans \in Seq(Transitions), states \in Seq(SignedData), b \in Nat :
         /\ Len(trans) = n + 1 /\ Len(states) = n + 2
         /\ \A i \in 1 .. n : trans[i] = proof.transitions[i]
         /\ trans[n + 1] = [move |-> mv, new_state |-> NewState(r, old, mv)]
         /\ states[1] = proof.initial_state
         /\ \A i \in 1 .. n + 1 : states[i + 1] = trans[i].new_state
         /\ b = TrailingBegin(r, states)
         /\ new = Cut(trans, states, b)
  BY ExtendedParts
<1> HIDE DEF new
<1>2. n \in Nat /\ old \in BoardStates
  BY ProofParts, EndIsState
<1>3. /\ WhoseTurn(old) # NO_TURN /\ IsMove(old, mv)
      /\ TurnCount(ApplyMove(old, mv)) > TurnCount(old)
  BY <1>2, RulesAssumption DEF CanExtend
<1>4. \A i \in 1 .. n + 1 : before[i] = states[i]
  <2> SUFFICES ASSUME NEW i \in 1 .. n + 1 PROVE before[i] = states[i]
    OBVIOUS
  <2>1. CASE i = 1
    BY <1>1, <1>2, <2>1 DEF SignedStates
  <2>2. CASE i # 1
    <3>1. i - 1 \in 1 .. n /\ i - 1 \in 1 .. n + 1 /\ (i - 1) + 1 = i
      BY <1>2, <2>2
    <3>2. before[i] = proof.transitions[i - 1].new_state
      BY <2>2 DEF SignedStates
    <3>3. QED
      BY <1>1, <3>1, <3>2
  <2>3. QED
    BY <2>1, <2>2
<1>5. \A k \in 1 .. n + 1 : VerifyStateTransition(r, states[k].data, trans[k])
  <2> SUFFICES ASSUME NEW k \in 1 .. n + 1
               PROVE  VerifyStateTransition(r, states[k].data, trans[k])
    OBVIOUS
  <2>1. CASE k \in 1 .. n
    BY <1>1, <1>2, <1>4, <2>1 DEF VerifyStateProof
  <2>2. CASE k = n + 1
    <3>1. states[k].data = old
      BY <1>2, <1>4, <2>2, EndIsLastSigned
    <3>2. QED
      BY <1>1, <1>2, <1>3, <2>2, <3>1, NewStateSigned
  <2>3. QED
    BY <1>2, <2>1, <2>2
<1> DEFINE enough == {c \in 1 .. Len(states) :
                         Players \subseteq SignersFrom(r, states, c)}
<1>6. \/ b \in 1 .. n + 2 /\ Players \subseteq SignersFrom(r, states, b)
      \/ b = 1 /\ enough = {}
  <2>1. CASE enough = {}
    BY <1>1, <2>1 DEF TrailingBegin
  <2>2. CASE enough # {}
    <3>1. n + 2 \in Nat /\ enough \subseteq 1 .. n + 2
      BY <1>1, <1>2
    <3>2. Max(enough) \in enough
      BY <2>2, <3>1, GreatestNumber
    <3>3. b = Max(enough)
      BY <1>1, <2>2 DEF TrailingBegin
    <3>4. QED
      BY <3>1, <3>2, <3>3
  <2>3. QED
    BY <2>1, <2>2
<1>7. b \in 1 .. n + 2
  BY <1>2, <1>6
<1>8. /\ new \in StateProofs
      /\ Len(new.transitions) = n + 2 - b
      /\ \A i \in 1 .. n + 2 - b : new.transitions[i] = trans[b + i - 1]
      /\ Len(SignedStates(new)) = n + 3 - b
      /\ \A i \in 1 .. n + 3 - b : SignedStates(new)[i] = states[b + i - 1]
  <2> HIDE DEF n, old
  <2>1. /\ Len(trans) = n + 1 /\ Len(states) = n + 2
        /\ \A i \in 1 .. n + 1 : states[i + 1] = trans[i].new_state
        /\ new = Cut(trans, states, b)
    BY <1>1
  <2>2. QED
    BY <1>2, <1>7, <2>1, KeptStates, Zenon
<1>9. \A i \in 1 .. Len(new.transitions) :
         VerifyStateTransition(r, SignedStates(new)[i].data, new.transitions[i])
  <2> SUFFICES ASSUME NEW i \in 1 .. n + 2 - b
               PROVE  VerifyStateTransition(r, SignedStates(new)[i].data,
                                            new.transitions[i])
    BY <1>8
  <2>1. b + i - 1 \in 1 .. n + 1 /\ i \in 1 .. n + 3 - b
    BY <1>2, <1>7
  <2>2. QED
    BY <1>5, <1>8, <2>1
<1>10. \/ new.initial_state.data = ReinitState(r)
       \/ Players \subseteq SignersFrom(r, SignedStates(new), 1)
  <2>1. CASE Players \subseteq SignersFrom(r, states, b)
    <3>1. SignersFrom(r, states, b) = SignersFrom(r, SignedStates(new), 1)
      <4>1. n + 2 \in Nat /\ (n + 2) + 1 - b = n + 3 - b
        BY <1>2
      <4>2. QED
        <5> HIDE DEF n
        <5>1. /\ Len(states) = n + 2 /\ Len(SignedStates(new)) = (n + 2) + 1 - b
              /\ \A i \in 1 .. (n + 2) + 1 - b :
                    SignedStates(new)[i] = states[b + i - 1]
          BY <1>1, <1>8, <4>1
        <5>2. QED
          BY <1>7, <4>1, <5>1, SignersShift, Zenon
    <3>2. QED
      BY <2>1, <3>1
  <2>2. CASE b = 1 /\ enough = {}
    <3>1. new.initial_state = proof.initial_state
      BY <1>1, <2>2 DEF Cut
    <3>2. CASE Players \subseteq SignersFrom(r, before, 1)
      <4>1. Len(before) = n + 1
        BY <1>2 DEF SignedStates
      <4>2. SignersFrom(r, before, 1) \subseteq SignersFrom(r, states, 1)
        <5> HIDE DEF n, before
        <5>1. \A i \in 1 .. Len(before) : i \in 1 .. Len(states) /\ before[i] = states[i]
          BY <1>1, <1>2, <1>4, <4>1
        <5>2. QED
          BY <5>1 DEF SignersFrom
      <4>3. 1 \in enough
        BY <1>1, <1>2, <3>2, <4>2
      <4>4. QED
        BY <2>2, <4>3
    <3>3. QED
      BY <3>1, <3>2 DEF VerifyStateProof
  <2>3. QED
    BY <1>6, <2>1, <2>2
<1>11. VerifyStateProof(r, new)
  BY <1>9, <1>10 DEF VerifyStateProof
<1>12. UnverifiedProofEndState(new) = ApplyMove(old, mv)
  <2>1. UnverifiedProofEndState(new) = SignedStates(new)[n + 3 - b].data
    <3>1. (n + 2 - b) + 1 = n + 3 - b
      BY <1>2, <1>7
    <3>2. QED
      BY <1>8, <3>1, EndIsLastSigned
  <2>2. SignedStates(new)[n + 3 - b] = states[n + 2]
    <3>1. n + 3 - b \in 1 .. n + 3 - b /\ b + (n + 3 - b) - 1 = n + 2
      BY <1>2, <1>7
    <3>2. QED
      BY <1>8, <3>1
  <2>3. states[n + 2] = NewState(r, old, mv)
    <3>1. n + 1 \in 1 .. n + 1 /\ (n + 1) + 1 = n + 2
      BY <1>2
    <3>2. states[n + 2] = trans[n + 1].new_state
      BY <1>1, <3>1
    <3>3. QED
      BY <1>1, <3>2
  <2>4. QED
    <3> HIDE DEF old
    <3>1. NewState(r, old, mv).data = ApplyMove(old, mv)
      BY <1>2, <1>3, NewStateSigned
    <3>2. QED
      BY <2>1, <2>2, <2>3, <3>1
<1>13. ASSUME NEW i \in 1 .. Len(SignedStates(new))
       PROVE  \/ SignedStates(new)[i] = NewState(r, old, mv)
              \/ \E j \in 1 .. Len(before) : SignedStates(new)[i] = before[j]
  <2>1. Len(before) = n + 1
    BY <1>2 DEF SignedStates
  <2> HIDE DEF n, before, old
  <2>2. SignedStates(new)[i] = states[b + i - 1] /\ b + i - 1 \in 1 .. n + 2
    BY <1>2, <1>7, <1>8, <1>13
  <2>3. CASE b + i - 1 \in 1 .. n + 1
    BY <1>4, <2>1, <2>2, <2>3
  <2>4. CASE b + i - 1 = n + 2
    <3>1. n + 1 \in 1 .. n + 1 /\ (n + 1) + 1 = n + 2
      BY <1>2
    <3>2. states[n + 2] = trans[n + 1].new_state
      BY <1>1, <3>1
    <3>3. QED
      BY <1>1, <2>2, <2>4, <3>2
  <2>5. QED
    BY <1>2, <2>2, <2>3, <2>4, SMTT(30)
<1>14. QED
  BY <1>3, <1>8, <1>11, <1>12, <1>13 DEF new
=============================================================================
