-------------------------------- MODULE MCSdk --------------------------------
(***************************************************************************)
(* One run for the parts of the TypeScript SDK.  A caller uses them one    *)
(* after the other and they share no state: a behaviour exercises one of   *)
(* them, its `theme`, within the bounds its In... operator names.          *)
(***************************************************************************)
EXTENDS SdkRedemptions, WalletTx, ElectrumClient, EthereumHandles, SdkDeposits, BitcoinSpv

VARIABLE theme

\* Redemptions: the second wallet is the only one that can serve all of a request at first.
MCRegistered == <<"w1", "w2", "w3">>
MCInitialValue == [w1 |-> 2, w2 |-> 3, w3 |-> 2]
Redeemer(kind, type) == [kind |-> kind, type |-> type]
MCRedeemerInput == {Redeemer("address", "P2WPKH"), Redeemer("address", "P2TR"),
                    Redeemer("hex", "P2WPKH"), Redeemer("malformed hex", "")}

\* One call, or one on an L2 and the call that relays it; the chains change less when a read
\* fails.
InRedemptions ==
    /\ redemption.pc \in {"done", "failed"} /\ redemption'.pc = "resolve"
           => redemption.op = "crossChain" /\ redemption'.op = "relay"
    /\ readFaults' + changes' <= MaxChanges

\* Wallet transactions: deposits of two vaults and two wallets, of both kinds.
Funded(name, wallet, vault, lock, value) ==
    [name |-> name, wallet |-> wallet, vault |-> vault, lock |-> lock, value |-> value]
MCFundedDeposit ==
    {Funded("d1", "w1", "v", "P2SH", 4), Funded("d2", "w1", "v", "P2WSH", 3),
     Funded("d3", "w2", "u", "P2WSH", 3)}

\* The first wallet acts, with the deposits and the main UTXO of either; one refused
\* transaction ends a behaviour.
InWalletTx ==
    /\ \A n \in DOMAIN txs' : txs'[n].wallet = "w1"
    /\ redeeming'.wallet # "w2"
    /\ \A s \in RedeemerScript : redemptionRequests'[<<"w2", s>>] = NoRedemptionRequest
    /\ \A n \in DOMAIN txs' : txStatus'[n] = "rejected" => n = MaxTransactions
    /\ redeeming'.scripts # <<"s2", "s2">>
    \* the second transaction sweeps one deposit or redeems
    /\ Len(txs') = 2 /\ txs'[2].kind = "sweep" => Cardinality(TxDeposits(txs'[2])) <= 1
    \* the scripts are interchangeable
    /\ requestsMade' = 1 => redemptionRequests'[<<"w1", "s2">>] = NoRedemptionRequest
    \* requests are made to a wallet that has a main UTXO from the start
    /\ \A w \in SigningWallet : registeredMain'[w] # NoUtxo \/ requestsMade' = 0

MCOutputScripts == [t1 |-> <<"other", "p2wpkh">>, t2 |-> <<"p2wpkh", "p2wpkh">>, t3 |-> <<"p2pkh">>]
MCPlaceInBlock == [t1 |-> 2, t2 |-> 1, t3 |-> 3]
\* Electrum: one call from outside, about the first transaction if it is about one, and blocks
\* mined and received while it lasts; a server may lag behind from the start.  Two faults, or
\* as many as it takes to connect to no server.
InElectrum ==
    /\ frames = <<>> => frames' # <<>> /\ answer = NoAnswer
    /\ frames = <<>> /\ frames'[1].op \in AboutTransaction => frames'[1].arg = "t1"
    /\ electrumFaults' > 2 => frames[1].status = "connecting" /\ Len(frames) = 1

\* Ethereum: one call, and two transactions at most wait to be mined.
InEthereum ==
    /\ handle.pc \in {"done", "failed"} => handle'.ask = handle.ask
    /\ Len(mempool') <= 2

\* Deposits: with and without change for the funding, keys of every kind.
MCInputList ==
    {<<[type |-> "P2WPKH", value |-> 3], [type |-> "P2PKH", value |-> 9],
       [type |-> "P2WPKH", value |-> 4]>>,
     <<[type |-> "P2PKH", value |-> 9]>>}
Recovery(key, type, compressed) ==
    [key |-> key, type |-> type, compressed |-> compressed, network |-> "mainnet"]
MCRecoveryAddress ==
    {Recovery("r1", "P2WPKH", TRUE), Recovery("r2", "P2PKH", FALSE), Recovery("r1", "P2SH", TRUE)}

\* SPV: blocks of one, two, three and five transactions with the coinbase, epochs of two
\* blocks, proofs that need more, as many or fewer confirmations than there are blocks, and
\* one for a wrong epoch.
MCBlockContent == {<<>>, <<1>>, <<2, 1>>, <<1, 2, 3, 4>>}
MCEpochBits == <<4 * 2^24 + 32767, 4 * 2^24 + 16383, 4 * 2^24 + 8191>>
Proof(required, previous, current) ==
    [tx |-> 1, required |-> required, previous |-> previous, current |-> current]
\* A branch of another place in a block, one that is too short, and none.
MCForgedBranches ==
    {[merkle |-> MerkleBranch(<<11, 2, 1>>, 0), position |-> 2],
     [merkle |-> <<ShownHash(11)>>, position |-> 1], [merkle |-> <<>>, position |-> 0]}
MCProofRequests ==
    {Proof(r, 2, 4) : r \in {0, 1, 3}} \union {Proof(2, 4, 8), Proof(3, 1, 1)}
\* Servers are faulty only when the longest proof is asked for.
InSpv == spvFaults' # spvFaults => proof.of.required = 3

SdkInit ==
    /\ theme \in {"redemptions", "walletTx", "electrum", "ethereum", "deposits", "spv"}
    /\ SdkRedemptionsInit
    /\ WalletTxInit /\ (theme # "walletTx" => \A w \in SigningWallet : registeredMain[w] = NoUtxo)
    /\ ElectrumInit /\ height = 2 /\ txHeight["t2"] = 1 /\ txHeight["t3"] = 0
    /\ theme # "electrum" =>
           tip = [s \in Server |-> 2] /\ txHeight["t1"] = 0
    /\ EthereumInit /\ SdkDepositsInit /\ SpvInit

SdkNext ==
    /\ UNCHANGED theme
    /\ theme # "redemptions" => UNCHANGED redemptionVars
    /\ theme # "walletTx" => UNCHANGED walletTxVars
    /\ theme # "electrum" => UNCHANGED electrumVars
    /\ theme # "ethereum" => UNCHANGED handleVars
    /\ theme # "deposits" => UNCHANGED depositVars
    /\ theme # "spv" => UNCHANGED spvVars
    /\ \/ theme = "redemptions" /\ SdkRedemptionsNext /\ InRedemptions
       \/ theme = "walletTx" /\ WalletTxNext /\ InWalletTx
       \/ theme = "electrum" /\ ElectrumNext /\ InElectrum
       \/ theme = "ethereum" /\ EthereumNext /\ InEthereum
       \/ theme = "deposits" /\ SdkDepositsNext
       \/ theme = "spv" /\ SpvNext /\ InSpv

SdkSpec == SdkInit /\ [][SdkNext]_<<theme, redemptionVars, walletTxVars, electrumVars,
                                    handleVars, depositVars, spvVars>>
=============================================================================
