----------------------------- MODULE StateProof -----------------------------
(***************************************************************************)
(* State proofs of a game channel: how a board state is shown to be agreed *)
(* on, and how a proof is extended by a move and cut to what is needed.    *)
(*                                                                         *)
(* The rules of the board game are parameters, as BoardRules and           *)
(* ParsedBoardState are abstract classes in the code.  A board state is    *)
(* its parsed form, so Equals is equality; a signature is the pair of the  *)
(* address and the message it signs, and the message keeps what the code   *)
(* hashes: the reinitialisation, the topic and the data (there is one      *)
(* channel).  Participants are numbered from 1.                            *)
(***************************************************************************)
EXTENDS Integers, Sequences, FiniteSets, FiniteSetsExt

CONSTANTS
    Participants,       \* sequence of the addresses of the channel
    Reinits,            \* IDs of reinitialisations
    BoardStates,        \* what ParseState accepts
    BoardMoves,
    WhoseTurn(_),       \* ParsedBoardState::WhoseTurn
    TurnCount(_),       \* ParsedBoardState::TurnCount
    IsMove(_, _),       \* whether ApplyMove accepts a move
    ApplyMove(_, _),    \* the state it yields
    ReinitState(_)      \* the board state a reinitialisation starts with

NO_TURN == 0

Players == 1 .. Len(Participants)

\* What the channel code expects of the rules: a turn is that of a
\* participant, and a move leads to a state with a higher turn count.
ASSUME RulesAssumption ==
    /\ Participants \in Seq(STRING)
    /\ \A i, j \in Players : Participants[i] = Participants[j] => i = j
    /\ \A s \in BoardStates : /\ WhoseTurn(s) \in Players \cup {NO_TURN}
                              /\ TurnCount(s) \in Nat
    /\ \A s \in BoardStates, mv \in BoardMoves :
          WhoseTurn(s) # NO_TURN /\ IsMove(s, mv) =>
             /\ ApplyMove(s, mv) \in BoardStates
             /\ TurnCount(ApplyMove(s, mv)) > TurnCount(s)
    /\ \A r \in Reinits : ReinitState(r) \in BoardStates

-----------------------------------------------------------------------------
SignatureMessage(r, topic, data) == [reinit |-> r, topic |-> topic,
                                     data |-> data]

Signatures == [addr : {Participants[i] : i \in Players},
               msg : [reinit : Reinits, topic : {"state"}, data : BoardStates]]

SignedData == [data : BoardStates, signatures : SUBSET Signatures]

Transitions == [move : BoardMoves, new_state : SignedData]

StateProofs == [initial_state : SignedData, transitions : Seq(Transitions)]

Unsigned(data) == [data |-> data, signatures |-> {}]

\* The participants with a valid signature on sd.
VerifyParticipantSignatures(r, sd) ==
    {i \in Players : [addr |-> Participants[i],
                      msg |-> SignatureMessage(r, "state", sd.data)]
                        \in sd.signatures}

SignDataForParticipant(r, i, sd) ==
    [sd EXCEPT !.signatures = @ \cup {[addr |-> Participants[i],
         msg |-> SignatureMessage(r, "state", sd.data)]}]

VerifyStateTransition(r, old, t) ==
    /\ WhoseTurn(old) # NO_TURN
    /\ IsMove(old, t.move)
    /\ ApplyMove(old, t.move) = t.new_state.data
    /\ WhoseTurn(old) \in VerifyParticipantSignatures(r, t.new_state)

-----------------------------------------------------------------------------
\* The signed states of a proof, the initial one first.
SignedStates(proof) ==
    [i \in 1 .. Len(proof.transitions) + 1 |->
        IF i = 1 THEN proof.initial_state
                 ELSE proof.transitions[i - 1].new_state]

UnverifiedProofEndState(proof) ==
    IF proof.transitions = <<>> THEN proof.initial_state.data
    ELSE proof.transitions[Len(proof.transitions)].new_state.data

SignersFrom(r, states, b) ==
    UNION {VerifyParticipantSignatures(r, states[i]) : i \in b .. Len(states)}

\* Every transition is valid, and the proof starts at the state of the
\* reinitialisation or has a signature of everyone on one of its states.
VerifyStateProof(r, proof) ==
    LET states == SignedStates(proof) IN
    /\ \A i \in 1 .. Len(proof.transitions) :
          VerifyStateTransition(r, states[i].data, proof.transitions[i])
    /\ \/ proof.initial_state.data = ReinitState(r)
       \/ Players \subseteq SignersFrom(r, states, 1)

\* Whether a local move can extend the proof: it is someone's turn and the
\* move is valid.  That the wallet can sign for that participant is up to
\* the caller.
CanExtend(proof, mv) ==
    LET old == UnverifiedProofEndState(proof)
    IN  WhoseTurn(old) # NO_TURN /\ IsMove(old, mv)

\* Mutant: one of the states needed is cut off, too.
TrailingBeginOneMore(r, states) ==
    LET enough == {b \in 1 .. Len(states) :
                      Players \subseteq SignersFrom(r, states, b)}
    IN  IF enough = {} THEN 1
        ELSE IF Max(enough) < Len(states) THEN Max(enough) + 1 ELSE Max(enough)

\* The first of the signed states that the extended proof needs: the last
\* one from which on everyone has signed, or else the very first.
TrailingBegin(r, states) ==
    LET enough == {b \in 1 .. Len(states) :
                      Players \subseteq SignersFrom(r, states, b)}
    IN  IF enough = {} THEN 1 ELSE Max(enough)

Extended(r, proof, mv) ==
    LET old == UnverifiedProofEndState(proof)
        new == SignDataForParticipant(r, WhoseTurn(old),
                                      Unsigned(ApplyMove(old, mv)))
    IN  Append(proof.transitions, [move |-> mv, new_state |-> new])

ExtendStateProof(r, proof, mv) ==
    LET trans == Extended(r, proof, mv)
        states == <<proof.initial_state>> \o
                     [i \in 1 .. Len(trans) |-> trans[i].new_state]
        b == TrailingBegin(r, states)
    IN  [initial_state |-> states[b],
         transitions |-> SubSeq(trans, b, Len(trans))]

\* A proof that is only the state of the reinitialisation, unsigned.
StateProofFromReinit(r) == [initial_state |-> Unsigned(ReinitState(r)),
                            transitions |-> <<>>]
=============================================================================
