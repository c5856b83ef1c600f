---------------------------- MODULE ChannelGame -----------------------------
(***************************************************************************)
(* ChannelGame and ChannelData: the on-chain side of a game channel.  The  *)
(* row of a channel has the reinitialisation, the state proof and the      *)
(* height of an open dispute (0 for none).  Operations on a ChannelData    *)
(* end with its destructor, which writes the row back.                     *)
(***************************************************************************)
EXTENDS StateProof

Channels == [reinit : Reinits, proof : StateProofs, disputeHeight : Nat]

HasDispute(ch) == ch.disputeHeight > 0

LatestOnChain(ch) == UnverifiedProofEndState(ch.proof)

\* Writing and reading the row: a proof whose end is the state of the
\* reinitialisation is stored as NULL and read as the proof from that state.
Stored(ch) ==
    IF LatestOnChain(ch) = ReinitState(ch.reinit)
    THEN [ch EXCEPT !.proof = StateProofFromReinit(ch.reinit)] ELSE ch

CreateNew(r) == [reinit |-> r, proof |-> StateProofFromReinit(r),
                 disputeHeight |-> 0]

\* The open dispute, if any, stays.
Reinitialise(ch, r) == Stored([ch EXCEPT !.reinit = r,
                                         !.proof = StateProofFromReinit(r)])

-----------------------------------------------------------------------------
ValidDispute(ch, proof) ==
    LET new == UnverifiedProofEndState(proof)
        old == LatestOnChain(ch)
    IN  /\ VerifyStateProof(ch.reinit, proof)
        /\ WhoseTurn(new) # NO_TURN
        /\ \/ TurnCount(new) > TurnCount(old)
           \/ /\ TurnCount(new) = TurnCount(old)
              /\ ~HasDispute(ch)
              /\ new = old

\* Mutant: the state of a dispute is taken whether it is fresher or not.
ProcessDisputeStale(ch, height, proof) ==
    IF VerifyStateProof(ch.reinit, proof)
    THEN Stored([ch EXCEPT !.proof = proof, !.disputeHeight = height]) ELSE ch

\* A dispute with the state that is on chain already keeps its proof.
ProcessDispute(ch, height, proof) ==
    IF ~ValidDispute(ch, proof) THEN ch
    ELSE IF TurnCount(UnverifiedProofEndState(proof))
              > TurnCount(LatestOnChain(ch))
    THEN Stored([ch EXCEPT !.proof = proof, !.disputeHeight = height])
    ELSE Stored([ch EXCEPT !.disputeHeight = height])

ValidResolution(ch, proof) ==
    /\ VerifyStateProof(ch.reinit, proof)
    /\ TurnCount(UnverifiedProofEndState(proof))
         > TurnCount(LatestOnChain(ch))

ProcessResolution(ch, proof) ==
    IF ValidResolution(ch, proof)
    THEN Stored([ch EXCEPT !.proof = proof, !.disputeHeight = 0]) ELSE ch
=============================================================================
