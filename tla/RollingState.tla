---------------------------- MODULE RollingState ----------------------------
(***************************************************************************)
(* RollingState: the best state known for each reinitialisation of the     *)
(* channel.  An entry has the state proof, of which the latest state is    *)
(* the end, and the turn count of the best state seen on chain.            *)
(***************************************************************************)
EXTENDS StateProof

CONSTANTS NoReinit, NoEntry

Entries == [proof : StateProofs, onChainTurn : Nat]

ASSUME RollingAssumption == NoEntry \notin Entries

RollingStates == [reinitId : Reinits \cup {NoReinit},
                  reinits : [Reinits -> Entries \cup {NoEntry}]]

NewRollingState == [reinitId |-> NoReinit,
                    reinits |-> [r \in Reinits |-> NoEntry]]

Known(rs, r) == rs.reinits[r] # NoEntry

LatestOf(rs, r) == UnverifiedProofEndState(rs.reinits[r].proof)

ProofCount(proof) == TurnCount(UnverifiedProofEndState(proof))

GetStateProof(rs) == rs.reinits[rs.reinitId].proof

GetLatestState(rs) == LatestOf(rs, rs.reinitId)

GetOnChainTurnCount(rs) == rs.reinits[rs.reinitId].onChainTurn

-----------------------------------------------------------------------------
\* Mutant: the on-chain state replaces a fresher one.
UpdateOnChainAlways(rs, r, proof) ==
    [reinitId |-> r,
     reinits |-> [rs.reinits EXCEPT ![r] = [proof |-> proof,
                                            onChainTurn |-> ProofCount(proof)]]]

\* Mutant: the on-chain turn count goes up, the state stays.
UpdateOnChainCountOnly(rs, r, proof) ==
    [reinitId |-> r,
     reinits |->
        IF ~Known(rs, r)
        THEN [rs.reinits EXCEPT ![r] = [proof |-> proof,
                                        onChainTurn |-> ProofCount(proof)]]
        ELSE [rs.reinits EXCEPT ![r].onChainTurn = Max({@, ProofCount(proof)})]]

\* The channel is on chain with reinitialisation r and this proof.
UpdateOnChain(rs, r, proof) ==
    LET cnt == ProofCount(proof)
        new == [proof |-> proof, onChainTurn |-> cnt]
        old == rs.reinits[r]
        fresher == [proof |-> IF ProofCount(old.proof) >= cnt
                              THEN old.proof ELSE proof,
                    onChainTurn |-> IF cnt > old.onChainTurn
                                    THEN cnt ELSE old.onChainTurn]
    IN  [reinitId |-> r,
         reinits |-> [rs.reinits EXCEPT
                         ![r] = IF Known(rs, r) THEN fresher ELSE new]]

\* The CHECK at the start of UpdateOnChain.
OnChainProofIsValid(r, proof) == VerifyStateProof(r, proof)

\* Whether UpdateWithMove takes the proof.
AcceptsMove(rs, r, proof) ==
    /\ Known(rs, r)
    /\ VerifyStateProof(r, proof)
    /\ ProofCount(proof) > TurnCount(LatestOf(rs, r))

\* Mutant: the update goes to the current reinitialisation.
UpdateWithMoveCurrent(rs, r, proof) ==
    IF AcceptsMove(rs, r, proof)
    THEN [rs EXCEPT !.reinits[rs.reinitId].proof = proof] ELSE rs

UpdateWithMove(rs, r, proof) ==
    IF AcceptsMove(rs, r, proof)
    THEN [rs EXCEPT !.reinits[r].proof = proof] ELSE rs

\* What UpdateWithMove returns: only a change of the current
\* reinitialisation is signalled.
SignalsChange(rs, r, proof) == AcceptsMove(rs, r, proof) /\ r = rs.reinitId
=============================================================================
