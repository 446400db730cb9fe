---------------------------- MODULE MCSeiDeposits ----------------------------
(* Deposits on Sei alone, with one recovery address.                        *)
EXTENDS SdkDeposits

MCRecoveryAddress ==
    {[key |-> "r1", type |-> "P2WPKH", compressed |-> TRUE, network |-> "mainnet"]}
MCInputList == {<<[type |-> "P2PKH", value |-> 9]>>}
=============================================================================
