---------------------------- MODULE MCMonitoring ----------------------------
(* Small instances of Monitoring for TLC.  What one monitor watches does not *)
(* depend on what another one does, so every behaviour has one theme.        *)
EXTENDS Monitoring

VARIABLE theme
mcVars == <<vars, theme>>

Ev(kind, key, nonce, minter) == [kind |-> kind, key |-> key, nonce |-> nonce, minter |-> minter]

Theme ==
    [minting |-> {Ev("DepositRevealed", "d1", 0, ""),
                  Ev("OptimisticMintingRequested", "d1", 0, "m1"),
                  Ev("OptimisticMintingFinalized", "d1", 0, "m2"),
                  Ev("OptimisticMintingCancelled", "d1", 0, "")},
     redemption |-> {Ev("RedemptionRequested", "r1", 1, ""),
                     Ev("RedemptionSettled", "r1", 1, ""),
                     Ev("RedemptionRequested", "r1", 2, "")},
     wallets |-> {Ev("NewWalletRegistered", "w1", 0, ""),
                  Ev("DkgResultSubmitted", "w1", 0, ""),
                  Ev("DkgResultApproved", "w1", 0, ""),
                  Ev("DkgResultChallenged", "w1", 0, "")},
     supply |-> {}]

MCChainEvent == UNION {Theme[t] : t \in DOMAIN Theme}
MCAmount == [k \in {"d1", "r1"} |-> IF k = "d1" THEN 5000000 ELSE 2000000000]
MCFundingHash == [k \in {"d1"} |-> 3]
MCMinterLists == {<<"m1">>, <<"m2", "m1">>}

\* The parts of the chain that matter to other themes stand still.
OnTheme ==
    /\ everMined \subseteq Theme[theme]
    /\ theme \in {"minting", "wallets"} => tip <= 4
    /\ theme = "supply" => tip <= 3
    /\ theme = "wallets" => Cardinality(everMined) <= 3
    /\ theme \in {"minting", "wallets"} => reorgs = 0
    /\ theme # "supply" => \A i \in DOMAIN supply : supply[i] = 100
    /\ theme # "minting" => minters = <<"m1">> /\ confirmations = 0

MCInit == theme \in DOMAIN Theme /\ MonitoringInit /\ OnTheme
MCNext == MonitoringNext /\ UNCHANGED theme /\ OnTheme'
MCSpec ==
    /\ MCInit /\ [][MCNext]_mcVars
    /\ WF_mcVars(RunStep /\ UNCHANGED theme) /\ SF_mcVars(UpToDate /\ UNCHANGED theme)
=============================================================================
