------------------------------ MODULE Channel -------------------------------
(***************************************************************************)
(* A game channel as a whole: the blockchain with the GSP's view of the    *)
(* channel, the mempool, and for each player a channel daemon with its     *)
(* manager, the thread that feeds on-chain updates to it (reading the      *)
(* GSP's answer is one step, handing it to the manager another) and the    *)
(* queue of broadcast messages it has still to receive.                    *)
(*                                                                         *)
(* The chain keeps the blocks that change the channel.  Other blocks may   *)
(* come at any time: a feeder can always find a new tip and read the       *)
(* channel again, so the hash of the last block it saw is not kept.  All   *)
(* players follow the protocol; faults are reorgs, dropped transactions,   *)
(* moves the wallet does not send or not sign, and restarts of a daemon.   *)
(***************************************************************************)
EXTENDS ChannelManager, ChannelGame

CONSTANTS
    NoChannel, NoSnapshot,
    MaxRequests,        \* bound on the disputes and puts the users request
    FaultKinds,         \* what may happen, of "reorg", "drop", "send", "sign"
                        \* and "restart"
    MaxFaults           \* bound on the faults

ASSUME ChannelAssumption ==
    /\ MaxRequests \in Nat /\ MaxFaults \in Nat
    /\ Participants # <<>>
    /\ NoReinit \notin Reinits

VARIABLES
    chain,      \* sequence of [ch, tx]: the channel after the block, its move
    mempool,    \* moves sent and not mined
    mgr,        \* ChannelManager of each player
    snapshot,   \* what the feeder has read from the GSP and not handed on
    inbox,      \* broadcast messages not yet received
    requests, faults,
    restarted   \* players whose daemon has lost its state

vars == <<chain, mempool, mgr, snapshot, inbox, requests, faults,
          restarted>>

Tip(c) == IF c = <<>> THEN NoChannel ELSE c[Len(c)].ch

TypeOK ==
    /\ \A i \in 1 .. Len(chain) : /\ chain[i].ch \in Channels \cup {NoChannel}
                                  /\ chain[i].tx \in Txs \cup {NoTx}
    /\ mempool \subseteq Txs
    /\ \A p \in Players : /\ mgr[p] \in Managers
                          /\ snapshot[p] \in Channels \cup {NoChannel, NoSnapshot}
                          /\ inbox[p] \in Seq(Messages)
    /\ requests \in 0 .. MaxRequests
    /\ faults \in 0 .. MaxFaults
    /\ restarted \subseteq Players

Init ==
    /\ chain = <<>>
    /\ mempool = {}
    /\ mgr = [p \in Players |-> NewManager(p)]
    /\ snapshot = [p \in Players |-> NoSnapshot]
    /\ inbox = [p \in Players |-> <<>>]
    /\ requests = 0
    /\ faults = 0
    /\ restarted = {}

Alive(p) == mgr[p].check = NoCheck

-----------------------------------------------------------------------------
AddBlock(ch, tx) == chain' = Append(chain, [ch |-> ch, tx |-> tx])

\* The game opens the channel, once, or reinitialises it (as the join of a
\* player does: there is no dispute before).
Reinit(r) ==
    LET opened == {i \in 1 .. Len(chain) : chain[i].ch # NoChannel} IN
    /\ \A i \in opened : chain[i].ch.reinit # r
    /\ IF Tip(chain) = NoChannel THEN opened = {} ELSE ~HasDispute(Tip(chain))
    /\ AddBlock(IF Tip(chain) = NoChannel THEN CreateNew(r)
                                          ELSE Reinitialise(Tip(chain), r),
                NoTx)
    /\ UNCHANGED <<mempool, mgr, snapshot, inbox, requests, faults, restarted>>

\* The channel after a block with the move tx.
Mined(ch, height, tx) ==
    CASE ch = NoChannel -> ch
      [] ch # NoChannel /\ tx.kind = "dispute" ->
            ProcessDispute(ch, height, tx.proof)
      [] ch # NoChannel /\ tx.kind = "close" -> NoChannel
      [] OTHER -> ProcessResolution(ch, tx.proof)

\* A block with a move that turns out invalid does not touch the channel.
Mine(tx) ==
    /\ tx \in mempool
    /\ mempool' = mempool \ {tx}
    /\ LET ch == Mined(Tip(chain), Len(chain) + 1, tx)
       IN  IF ch = Tip(chain) THEN UNCHANGED chain
                              ELSE AddBlock(ch, tx)
    /\ UNCHANGED <<mgr, snapshot, inbox, requests, faults, restarted>>

Fault(kind) == /\ kind \in FaultKinds
               /\ faults < MaxFaults
               /\ faults' = faults + 1

\* A reorg detaches the last block; its move is in the mempool again.
Reorg ==
    /\ Fault("reorg")
    /\ chain # <<>>
    /\ chain' = SubSeq(chain, 1, Len(chain) - 1)
    /\ mempool' = mempool \cup ({chain[Len(chain)].tx} \ {NoTx})
    /\ UNCHANGED <<mgr, snapshot, inbox, requests, restarted>>

DropTx(tx) ==
    /\ Fault("drop")
    /\ tx \in mempool
    /\ mempool' = mempool \ {tx}
    /\ UNCHANGED <<chain, mgr, snapshot, inbox, requests, restarted>>

-----------------------------------------------------------------------------
\* Player p's manager has run a method with result m: the moves it sent
\* reach the mempool, its broadcasts everyone.  The sender itself is left
\* out: it gets its own messages, too, but they are never fresher than what
\* it knows.
Runs(p, m, wallet, received) ==
    /\ wallet.sends <=> NoTx \notin m.txs
    /\ CASE ~wallet.sends -> Fault("send")
         [] wallet.sends /\ m.check = NotSigned -> Fault("sign")
         [] OTHER -> UNCHANGED faults
    /\ mgr' = [mgr EXCEPT ![p] = [m EXCEPT !.out = <<>>, !.txs = {}]]
    /\ mempool' = mempool \cup (m.txs \ {NoTx})
    /\ inbox' = [q \in Players |->
                    IF q = p THEN received[q] ELSE received[q] \o m.out]
    /\ UNCHANGED <<chain, restarted>>

\* UpdateOnce, first part: waitforchange has reported a new block, and
\* getchannel returns the channel as of the tip.
Fetch(p) ==
    /\ Alive(p) /\ ~mgr[p].stopped
    /\ snapshot[p] = NoSnapshot
    /\ snapshot' = [snapshot EXCEPT ![p] = Tip(chain)]
    /\ UNCHANGED <<chain, mempool, mgr, inbox, requests, faults, restarted>>

\* UpdateOnce, second part.
Feed(p) ==
    /\ Alive(p)
    /\ snapshot[p] # NoSnapshot
    /\ \E wallet \in Wallets :
          Runs(p, IF snapshot[p] = NoChannel
                  THEN ProcessOnChainNonExistant(mgr[p])
                  ELSE ProcessOnChain(mgr[p], p, snapshot[p], mempool, wallet),
               wallet, inbox)
    /\ snapshot' = [snapshot EXCEPT ![p] = NoSnapshot]
    /\ UNCHANGED requests

\* The broadcast's receive thread feeds the next message.
Receive(p) ==
    /\ Alive(p) /\ ~mgr[p].stopped
    /\ inbox[p] # <<>>
    /\ \E wallet \in Wallets :
          Runs(p, ProcessOffChain(mgr[p], p, Head(inbox[p]), wallet), wallet,
               [inbox EXCEPT ![p] = Tail(@)])
    /\ UNCHANGED <<snapshot, requests>>

LocalMove(p, mv) ==
    /\ Alive(p)
    /\ \E wallet \in Wallets :
          LET m == ProcessLocalMove(mgr[p], p, mv, wallet)
          IN  m # mgr[p] /\ Runs(p, m, wallet, inbox)
    /\ UNCHANGED <<snapshot, requests>>

Trigger(p) ==
    /\ Alive(p)
    /\ ~mgr[p].auto
    /\ \E wallet \in Wallets :
          Runs(p, TriggerAutoMoves(mgr[p], p, wallet), wallet, inbox)
    /\ UNCHANGED <<snapshot, requests>>

\* The user asks to put the state on chain or to file a dispute.
Request(p) ==
    /\ Alive(p)
    /\ requests < MaxRequests
    /\ requests' = requests + 1
    /\ \E wallet \in Wallets :
          \/ LET m == PutStateOnChain(mgr[p], p, wallet)
             IN  m # mgr[p] /\ Runs(p, m, wallet, inbox)
          \/ LET m == FileDispute(mgr[p], p, wallet)
             IN  m # mgr[p] /\ Runs(p, m, wallet, inbox)
    /\ UNCHANGED snapshot

\* ChannelDaemon::Stop: the feeder and the broadcast are joined, then
\* updates are stopped.
Stop(p) ==
    /\ Alive(p) /\ ~mgr[p].stopped
    /\ snapshot[p] = NoSnapshot
    /\ Fault("restart")
    /\ mgr' = [mgr EXCEPT ![p] = StopUpdates(@)]
    /\ UNCHANGED <<chain, mempool, snapshot, inbox, requests, restarted>>

\* A new daemon process: nothing of the state is kept, and messages sent
\* before are not received any more.
Start(p) ==
    /\ mgr[p].stopped
    /\ mgr' = [mgr EXCEPT ![p] = NewManager(p)]
    /\ inbox' = [inbox EXCEPT ![p] = <<>>]
    /\ restarted' = restarted \cup {p}
    /\ UNCHANGED <<chain, mempool, snapshot, requests, faults>>

Next ==
    \/ \E r \in Reinits : Reinit(r)
    \/ \E tx \in mempool : Mine(tx) \/ DropTx(tx)
    \/ Reorg
    \/ \E p \in Players :
          \/ Fetch(p) \/ Feed(p) \/ Receive(p) \/ Trigger(p) \/ Request(p)
          \/ Stop(p) \/ Start(p)
          \/ \E mv \in BoardMoves : LocalMove(p, mv)

Spec == Init /\ [][Next]_vars

-----------------------------------------------------------------------------
\* The proofs that a daemon keeps, and the one on chain, verify: they can be
\* put on chain and broadcast whatever happened before (the trimming of
\* ExtendStateProof, states learnt from the chain and from broadcasts).
ProofsVerify ==
    /\ \A p \in Players, r \in Reinits :
          Known(mgr[p].rs, r) => VerifyStateProof(r, mgr[p].rs.reinits[r].proof)
    /\ Tip(chain) # NoChannel =>
          VerifyStateProof(Tip(chain).reinit, Tip(chain).proof)

\* Whatever one daemon and another, or the chain, hold for the same
\* reinitialisation and turn count is the same state: players cannot come to
\* disagree about what was played, unless a daemon has lost its state.
AgreeOnMoves ==
    restarted = {} =>
       \A p \in Players, r \in Reinits : Known(mgr[p].rs, r) =>
          LET s == LatestOf(mgr[p].rs, r)
              Agrees(t) == TurnCount(s) = TurnCount(t) => s = t
          IN  /\ \A q \in Players :
                    Known(mgr[q].rs, r) => Agrees(LatestOf(mgr[q].rs, r))
              /\ \A i \in 1 .. Len(chain) :
                    chain[i].ch # NoChannel /\ chain[i].ch.reinit = r =>
                       Agrees(LatestOnChain(chain[i].ch))

\* PutStateOnChain's comment: the on-chain count is never better than that
\* of the latest state, for any reinitialisation and across reorgs.
LatestNotBehindChain ==
    \A p \in Players, r \in Reinits :
       Known(mgr[p].rs, r) =>
          TurnCount(LatestOf(mgr[p].rs, r)) >= mgr[p].rs.reinits[r].onChainTurn

\* The wallet did not sign an automove on an existing channel.
SignatureRefused(m) == m.check = NotSigned /\ m.exists /\ ~m.stopped

\* An automove was due on a channel that the daemon had seen on chain before
\* and that is gone, from a state fresher than any that was on chain.
MovedWithoutChannel(m) ==
    /\ m.check = "!stopped && exists" /\ ~m.exists /\ ~m.stopped
    /\ m.rs.reinitId \in Reinits
    /\ TurnCount(Latest(m)) > GetOnChainTurnCount(m.rs)

\* Of all the CHECKs in the manager's methods, two do not always hold, and
\* each in one situation only: CHECK (ApplyLocalMove (mv)) when the wallet
\* refuses to sign an automove, never on the move itself, and the one on
\* `exists' when a broadcast makes an automove possible after the channel is
\* gone, never because of a stop, before the channel is known, or by what
\* the chain or the user did.
ChecksFailAsKnown ==
    \A p \in Players : \/ Alive(p)
                        \/ SignatureRefused(mgr[p])
                        \/ MovedWithoutChannel(mgr[p])

\* A block takes an open dispute away only with a fresher state (or by
\* closing the channel), and never puts an older state on chain.
DisputeNeedsFresherState ==
    [][LET old == Tip(chain)
           new == Tip(chain')
           Count(ch) == TurnCount(LatestOnChain(ch))
       IN  /\ Len(chain') > Len(chain)
           /\ old # NoChannel /\ new # NoChannel
           /\ old.reinit = new.reinit
           => /\ Count(new) >= Count(old)
              /\ HasDispute(old) /\ ~HasDispute(new) =>
                    Count(new) > Count(old)]_vars

-----------------------------------------------------------------------------
\* The step of Feed(p), by what it does to the feeder alone.
Fed(p) ==
    /\ Alive(p)
    /\ snapshot[p] # NoSnapshot
    /\ snapshot' = [snapshot EXCEPT ![p] = NoSnapshot]

\* Blocks keep coming and the feeder thread keeps running; moves in the
\* mempool are mined.  (Only Feed(p) steps are Fed(p) steps, and one is
\* enabled when the other is.)
Fairness ==
    /\ \A p \in Players : WF_vars(Fetch(p)) /\ WF_snapshot(Fed(p))
    /\ WF_vars(\E tx \in mempool : Mine(tx))

LiveSpec == Spec /\ Fairness

DisputedWithBetterState(p) ==
    LET ch == Tip(chain) IN
    /\ ch # NoChannel /\ HasDispute(ch)
    /\ WhoseTurn(LatestOnChain(ch)) = p
    /\ Known(mgr[p].rs, ch.reinit)
    /\ TurnCount(LatestOf(mgr[p].rs, ch.reinit)) > TurnCount(LatestOnChain(ch))

Running(p) == Alive(p) /\ ~mgr[p].stopped

\* A dispute against a player whose running daemon knows a better state
\* does not stay: the resolution is sent, again if it was dropped, reorged
\* away or not sent at all, and mined.
DisputeAnswered ==
    \A p \in Players :
       (Running(p) /\ DisputedWithBetterState(p))
          ~> ~(Running(p) /\ DisputedWithBetterState(p))

\* A state that is on chain to stay reaches every running daemon, also when
\* the broadcast of it came before the daemon knew the reinitialisation.
ChainReachesDaemons ==
    \A p \in Players :
       <>[](Running(p) => LET ch == Tip(chain) IN ch # NoChannel =>
              /\ mgr[p].rs.reinitId = ch.reinit
              /\ TurnCount(Latest(mgr[p])) >= TurnCount(LatestOnChain(ch)))
=============================================================================
