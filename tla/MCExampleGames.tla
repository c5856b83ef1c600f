--------------------------- MODULE MCExampleGames ---------------------------
EXTENDS ExampleGames

\* Two players; a walk of one step and one of two, another direction, and a
\* move that is refused.
MCMoverMoves ==
    {[name |-> "p", d |-> "l", n |-> 1], [name |-> "p", d |-> "y", n |-> 2],
     [name |-> "q", d |-> "j", n |-> 2], [name |-> "q", d |-> "j", n |-> 0]}

Op(kind, minter, asset, n, recipient) ==
    [kind |-> kind, minter |-> minter, asset |-> asset, n |-> n,
     recipient |-> recipient, data |-> n]

Mint(n) == Op("mint", "p", "gold", n, "p")
Send(n, to) == Op("transfer", "p", "gold", n, to)
Burn(n) == Op("burn", "p", "gold", n, "p")

\* The minter and another player; amounts up to the maximum, more than the
\* maximum, none, arrays of operations, transfers to oneself.
MCAssetMoves ==
    {[name |-> "p", ops |-> <<Mint(2)>>],
     [name |-> "p", ops |-> <<Send(1, "q"), Burn(1)>>],
     [name |-> "p", ops |-> <<Mint(0), Send(2, "p"), Send(2, "q")>>],
     [name |-> "q", ops |-> <<Send(1, "p"), Op("invalid", "p", "gold", 1, "p")>>],
     [name |-> "q", ops |-> <<Burn(3), Burn(0),
                              Op("mint", "q", "bad", 1, "q"), Mint(1)>>]}
=============================================================================
