------------------------------ MODULE MCBridge ------------------------------
(* Small instances of the Bridge for TLC.                                   *)
EXTENDS Bridge, TLC

\* Wallets are interchangeable, and so are scripts, deposits and users.
Interchangeable ==
    Permutations(Wallet) \union Permutations(Script) \union Permutations(DepositKey)
        \union Permutations(User)

\* What a single wallet may have signed: the spending of a deposit, of its first
\* main UTXO, a heartbeat and something no preimage justifies.
MCSighash ==
    {<<"deposit", d>> : d \in DepositKey}
        \union {<<"main", 1>>, <<"heartbeat", 1>>, <<"other", 1>>}

\* The spending of funds moved by one of the wallets, which breaks the symmetry.
MCMovedSighash == {<<"moved", CHOOSE w \in Wallet : TRUE>>}
=============================================================================
