# Formal verification of tBTC v2

TLA+ models of the contracts in `solidity/contracts`, of the TypeScript SDK, of the
monitoring tool and of the programs around them (upgrade scripts, wallet simulation,
the gateway on Sui), model-checked with TLC on small instances, and theorems about
them checked by the TLA+ proof system (TLAPS) for every value of their parameters.

## The system

tBTC v2 lets Bitcoin be used on Ethereum. Groups of node operators hold ECDSA
wallets on Bitcoin; the **Bridge** contract tracks what those wallets hold, owe
and did. Nothing that happens on Bitcoin is observed directly: anyone may bring
an SPV proof of a transaction, and the Bridge draws the consequences. Depositors
are credited in the **Bank**, and vaults mint TBTC tokens against Bank balances.

| Component | State | Operations | Interacts with |
|---|---|---|---|
| Wallet registry (`Wallets.sol`) | per wallet: state, main UTXO, pending redemptions value, three timestamps, sweep request count, commitment; active wallet; number of live wallets | request and registration of a wallet, retirement, closing, termination | called by every other library; calls the external ECDSA wallet registry (create, close, seize) and is called back by it |
| Moving funds (`MovingFunds.sol`) | moved funds sweep requests | commitment, timeout reset, moving funds proof, sweep proof, both timeouts, dust report | changes the wallet state, hands requests to other wallets |
| Redemptions (`Redemption.sol`) | pending and timed-out requests | request, proof, timeout, veto | Bank balance of the Bridge, wallet state, watchtower, rebates |
| Deposits (`Deposit.sol`, `DepositSweep.sol`) | deposits, trusted vaults | reveal, sweep proof, vault status | main UTXO, Bank, vaults, rebates |
| Fraud (`Fraud.sol`) | challenges, ether held | challenge, defeat, heartbeat defeat, timeout | reads deposits, sweep requests and spent main UTXOs; terminates wallets |
| Bank (`Bank.sol`) | balances, allowances, nonces | transfer, approve, permit, burn; increase by the Bridge | vaults (callback `receiveBalanceIncrease`) |
| TBTC vault (`TBTCVault.sol`, `TBTCOptimisticMinting.sol`) | optimistic minting requests and debts, minters, guardians, parameters | mint, unmint, request, finalize, cancel, upgrade | Bank, Bridge deposits, TBTC token |
| Redemption watchtower (`RedemptionWatchtower.sol`) | veto proposals, objections, banned redeemers, detained amounts | objection, delay query, withdrawal, parameter updates | Bridge veto, Bank |
| Rebate staking (`RebateStaking.sol`) | stakes, delegations, rebates with the start index of the rolling window, parameters | stake, unstake in two steps, delegate, transfer a stake, apply for and cancel a rebate | called by deposits, redemptions and redemption timeouts |
| Bitcoin relay (`LightRelay.sol`) | epochs, current and previous difficulty | genesis, retarget, header validation | read by SPV proofs |
| Governance (`BridgeGovernance*.sol`, `Timelock.sol`) | pending parameter updates | begin and finalize of each | Bridge parameters |
| Proposal validator (`WalletProposalValidator.sol`) | none | view functions for off-chain wallets | reads the Bridge |
| Maintainer proxy (`MaintainerProxy.sol`) | two lists of maintainers | authorised and reimbursed calls | Bridge |
| Vending machines (`VendingMachine*.sol`) | balances in two tokens | mint, unmint, upgrade | TBTC token |
| Cross-chain depositors and gateways (`cross-chain/`, `integrator/`, and the programs of other chains) | state of each deposit, minting limits | initialize, finalize, send, receive | Bridge, vault, Wormhole |
| SDK: redemptions (`typescript/src/services/redemptions`) | the call in progress | request (by API, by hand, through a proxy, from an L2, relayed), query | reads Bridge and Bitcoin one call at a time, sends requests |
| SDK: wallet transactions (`services/maintenance/wallet-tx.ts`) | none | assembly, signing and broadcast of sweeps and redemptions | Bridge, Bitcoin, later judged by SPV proofs |
| SDK: deposits (`services/deposits`, `services/tbtc.ts`, depositors under `lib/`) | initialized chains, receipts, deposit owner of each depositor | initiate, fund, detect, reveal here, by an L2 transaction or by a relayer, refund | Bridge, six other chains, relayers |
| SDK: Electrum client (`lib/electrum`), Ethereum handles (`lib/ethereum`), SPV (`lib/bitcoin/spv.ts`) | a connection, a retry counter | requests over several servers; reads, writes, searches for events; assembly and validation of proofs | servers that fail, lag and answer at different times |
| Monitoring (`monitoring/`) | checkpoint block, handled events, block of the last supply alert, in files | a run of the manager: fetch, check, dispatch, store, advance | reads Bridge and vault events, calls receivers |
| Upgrade scripts (`solidity/deploy/80` to `86`) | artifacts, plans of timelock actions | deploy, upgrade, plan; schedule and execute by the Council | proxies of the Bridge and of `RebateStaking`, timelock |
| Sui gateway (`cross-chain/sui/deploy_l2`) | gateway, token, receiver, treasury | redeem, send, administration; set-up programs | Wormhole, the L1 depositor |
| Simulation (`simulation/wallets.js`) | operators, wallets, coins | a day: joins, quits, deposits, withdrawals, transfers, closing | stands alone |

### What is hard

Ethereum executes a call atomically, so concurrency means calls of many parties
in any order: depositors, redeemers, wallets, challengers, account owners and
time. What makes it hard is that

* one wallet is worked on by five libraries at once: a redemption may time out,
  be vetoed or be served while the wallet retires, moves its funds to wallets
  that retire themselves, is challenged and terminated;
* what happened on Bitcoin arrives late: a redemption may be proven after its
  timeout was reported, a wallet may be closing when funds moved to it are
  unswept;
* quantities are maintained incrementally in different files
  (`liveWalletsCount`, `pendingRedemptionsValue`,
  `pendingMovedFundsSweepRequestsCount`, the Bank balance of the Bridge), and a
  checked subtraction turns an inexact one into a call that reverts for good;
* every deadline has a party that must be able to report it, in whatever state
  the wallet has reached by then.

Off the chain nothing is atomic. The SDK and the monitoring tool await one answer
after another, while blocks are mined or reorganised and others use the same
contracts; a request may be executed although its answer is lost, and is then retried; a
process may die between two steps and start again from what it persisted.

`PROJECT.json` lists these hazards at their lines, with the properties that
would catch them; those no property covers are among the observations below.

## Modules

| Module | Models | 
|---|---|
| `Sums` | totals of satoshi-valued functions, as cardinalities of sets of satoshis |
| `Orderings` | lists in a given order and the entries of a list at some positions, by counting |
| `Wallets` | `Wallets.sol` and the external ECDSA wallet registry as the Bridge uses it |
| `MovingFunds` | `MovingFunds.sol`; extends `Wallets` |
| `BankBalances` | the balances of `Bank.sol` and what calls do to them |
| `Redemption` | `Redemption.sol`; extends `Wallets` and `BankBalances` |
| `Deposits` | `Deposit.sol`, `DepositSweep.sol`; extends `Wallets` and `BankBalances` |
| `Fraud` | `Fraud.sol`; extends `MovingFunds` and `Deposits`, whose state defeats challenges |
| `Bridge` | the composition of all of them over one storage, and the properties |
| `WalletLifecycle` | what the rest of the system may rely on about the life of a wallet: the abstract specification `Bridge` implements |
| `RedemptionWatchtower` | `RedemptionWatchtower.sol`; extends `Bridge`, whose requests and vetoes it restricts |
| `TbtcVault` | `TBTCVault.sol`, `TBTCOptimisticMinting.sol` and the TBTC token; extends `Bridge`, whose sweeps it receives |
| `RebateStaking` | `RebateStaking.sol`, with the redemption requests of the Bridge whose timeouts cancel rebates |
| `SdkRedemptions` | `services/redemptions/redemptions-service.ts`: the search of a wallet and the request |
| `WalletTx` | `services/maintenance/wallet-tx.ts`, and the judgement of the Bridge on the transactions |
| `ElectrumClient` | `lib/electrum/client.ts` with the retries of `lib/utils/backoff.ts` |
| `EthereumHandles` | `lib/ethereum`: Bridge, vault and token handles over `adapter.ts` |
| `SdkDeposits` | `services/deposits`, `services/tbtc.ts`, the depositors of Base, Arbitrum, StarkNet, Sui, Solana and Sei |
| `BitcoinSpv` | `lib/bitcoin/spv.ts`, headers, transaction parts |
| `Monitoring` | `monitoring/src`: the manager, five monitors, the receivers and the files |
| `BridgeUpgrade` | the deploy scripts 80 to 86, proxies, timelock and artifacts |
| `SuiGateway` | the Move gateway, token and depositor, and the programs that set them up |
| `Simulation` | `simulation/wallets.js` |
| `MCBridge`, `MCBridgeScenarios`, `MCWatchtower`, `MCVault`, `MCMonitoring`, `MCSdk`, `MCSeiDeposits`, `MCOperations` | symmetry, parameter sets, scenarios and themes of the TLC instances |
| `SumsProofs`, `BridgeProofs`, `WatchtowerProofs`, `VaultProofs`, `MonitoringProofs`, `OperationsProofs`, `SdkProofs`, `SdkBitcoinProofs` | lemmas and theorems |

### How state and actions correspond to the code

Every VARIABLE is a field of `BridgeState.Storage`, of a struct in it, or of the
Bank, as a function of its key. An action is one external call; its name is the
function's. Internal functions that several libraries call
(`moveFunds`, `terminateWallet`, `notifyWallet...`) are operators which the
handlers conjoin, as the code calls them. A guard is a `require` or an early
return, in the model as in the code; a call that reverts is a disabled action.

What is abstracted:

* *Bitcoin transactions.* A proof is accepted exactly when its inputs and outputs
  are what the handler accepts; the model ranges over all distributions of values
  over outputs (no more than the inputs) instead of parsing bytes. A UTXO is its
  value, and an outpoint is named by what it is: a deposit key, the n-th main
  UTXO of a wallet, the output a wallet paid to another one. The proof itself and
  its difficulty are taken for granted.
* *Identities.* A redemption key is the pair (wallet, script), a sighash is named by
  what it signs, a wallet is named by its public key hash.
* *Slashing* changes the external registry only, and is not represented apart from
  the fact that the registry reverts for a wallet it does not hold
  (`RegistryAgreement`).
* *Treasury fee rebates* are free choices in `Bridge`: any fee up to the divisor's, which is
  what `RebateWithinFee` proves of `RebateStaking`. So is the
  *watchtower* in `Bridge`: any veto of a pending request, with any penalty burned in
  the same transaction. `RedemptionWatchtower` replaces that choice by the contract's
  own rules; it starts with the watchtower set in the Bridge.
* *The vault.* One satoshi is `SatoshiMultiplier` token units. Approvals are implied by
  the call they are for; the recovery of foreign tokens is left out. In `TbtcVault`
  one member of `Vault` is the contract; the others stand for the vaults it may be
  upgraded to, whose own calls are external. Governance delays are one constant.
* *Rebates.* `RebateStaking` has rebates as the list the contract keeps, and the loops over it by
  what they do: which entries expired, where they stop. Users are any addresses but 0x0 and the
  contract's own. `countedFrom` is a history variable, the time since when the start index has
  passed nothing that was in the window.
* *Parameters* of the Bridge are CONSTANTS, constrained by what their setters require
  (`...ParametersAssumption`); they do not change during a behaviour. Those of `RebateStaking`
  and of the watchtower do.
* *Integers* are unbounded. Widths (`uint64` satoshis) are not reached by any
  amount of Bitcoin that exists; subtractions, which revert below zero in
  Solidity 0.8, are guards (`CanDecrease`, `AcceptableOutput`) or are shown not to
  go below zero by an exactness invariant.

The modules outside the contracts follow the same rule with a smaller unit. Where the
code awaits, an action ends: a call of the SDK, a run of the monitoring tool, a script
or a set-up program is a record of where it is (`pc`, `step`) and of what it has read
so far, and each request, answer or transaction is one action, between which the
chains move. What a loop does between two awaits belongs to the action. What is
abstracted there:

* *Chains seen by the SDK* are reduced to what the calls read: balances and pending
  values per wallet (`SdkRedemptions`), outputs and requests (`WalletTx`), heights of
  transactions (`ElectrumClient`), events per block (`EthereumHandles`), blocks with
  their predecessors (`BitcoinSpv`). Each module has the environment's actions of its
  own, so the modules of the SDK share no state.
* *Keys, scripts and hashes.* A script is what it takes to unlock it and by whose key.
  `BitcoinSpv` keeps bytes, since the order of bytes and the place of a hash in the Merkle
  tree are what may go wrong, but hashing only marks its preimage, which makes it
  injective.
* *Faults* (a server that does not answer, a reply that is lost after the request was
  executed, a process that dies, a receiver that rejects) are actions or choices of an
  action, counted up to a bound per behaviour.
* *Monitoring* keeps which event each monitor derives from which block; texts and
  links are left out.
* *Upgrade scripts* see a contract's code as the revision of the sources that last
  changed it.

`TimeOut`s compare against `now`, which `Tick` advances up to the bound `MaxTime`.
Because the clock is bounded and every resource finite, a behaviour may come to
an end, so deadlock is not checked.

## Properties and runs

| Run | Instance | Question |
|---|---|---|
| `bridge` (`MCBridgeScenarios`, `MCBridgeAccounts.cfg`) | three scenarios: 1 wallet with 2 redemption keys, 2 wallets with 1, 3 wallets that move funds; 459,131 states | can the Bridge return or burn what it locked; are the reserve and every counter exact; is no BTC lost beyond fees; are commitments, timeouts and retirements ordered as the code relies on; is every step one of the abstract life cycle |
| `fraud` (`MCBridgeScenarios`, `MCBridgeChallenges.cfg`) | two scenarios: challenges of every kind to 1 wallet, challenges over funds moved between 2; 754,196 states | is the ether of every open challenge there; is what a proof spends recorded as honestly spent |
| `watchtower` (`MCWatchtower`) | 1 wallet, 1 script, 2 redeemers, 3 guardians, 3 sets of parameters | are three distinct guardians behind a veto, do old objections stay clear of new requests, is everything detained there until it is withdrawn |
| `vault` (`MCVault`) | three scenarios: debts of 2 depositors, tokens and balance while the vault is replaced, governance of fee and delay; 371,096 states | is every TBTC backed or owed, does a sweep repay what was minted for it, does the Bank issue exactly what a sweep put into the wallet |
| `monitoring` (`MCMonitoring`) | four themes: deposits and minting, redemptions, wallets, supply; up to 5 blocks, 1 reorganisation in the theme of redemptions, 1 fault; 484,837 states | does the checkpoint cover every event, are redemptions, deposits and minting requests that are overdue reported, is nothing repeated that could be stored, is every event announced in the end |
| `sdk` (`MCSdk`) | six themes, one per module of the SDK; 1,170,758 states | do the calls of the SDK answer, ask for and assemble what is right although the chains move between their requests and answers are lost |
| `operations` (`MCOperations`) | five themes: upgrade scripts, simulation, Sui, stakes (3 users with 4 tokens), rebates (2 users, 1 stake of 2 tokens, windows of 1 and 2); 1,560,000 states | do a new Bridge and a new rebate contract meet whatever failed; do plans link the revision they were written from; do operators know their wallets; is every coin on Sui backed; does rebate staking hold what is at stake, do its two mappings of delegations agree, does no rebate exceed the cap |
| `closing_with_moved_funds`, `stranded_redemption`, `stranded_challenge`, `supply_alert`, `sei_owner` | | five statements of the documentation that the code does not keep, see below |

A run with *scenarios* checks several small instances of one specification: a
variable chosen at the start bounds what a behaviour may use, every library's actions
stay enabled, and what is out of bounds is left by no step. A run with *themes* checks
modules that share no state: a behaviour takes the steps of one of them. In both cases
nothing is checked of the product, which would only interleave independent
behaviours.

The properties of the SDK are about what its caller may rely on: a search for a
wallet does not overlook one that was able to serve the request during the whole call, unless
its public key could not be read (`AbleWalletFound`); one transaction is sent, and one more for
each reply that was lost, and no more requests are made than were sent
(`RequestsAccountedFor`); an assembled transaction can be proven if nothing it rests on has
changed in the Bridge (`AssembledTxProvable`), and the main UTXO it reports is the one that
will be registered (`ReportedMainUtxoRegistered`); an answer of the Electrum client was true
for some server at some moment of the call (`AnswerTruthful`), and is an error only after more
faults than are retried, and no connection stays open but those to servers that were given
up (`RetriesHideFaults`); a search for events skips and repeats none
(`EventsExactlyOnce`); a transaction found done is reported so (`RefusalReported`); a
deposit can be refunded once its locktime and the lag of the median time have passed, whatever
became of its wallet and chain (`DepositsRecoverable`), and relayers are handed the owner it was initiated for
(`HandedOverAsInitiated`); a proof accepted is true (`ValidatedProofTrue`) and a true one is
accepted if nothing moves (`QuietProofAccepted`).

### The bounds, and why they are enough

A wallet needs one unit of time for each of the deadlines (closing period,
redemption timeout, sweep timeout, defeat timeout: 1; moving funds timeout: 2,
above its reset delay of 1), so `MaxTime` of 3 or 4 lets a wallet be created, retire,
time out and finish its closing period. Three wallets are the smallest number in
which a retiring wallet splits its funds between two targets; a fourth adds
nothing that the counters could tell apart. Two scripts are the smallest number in which one proof
serves several requests, one pending and one timed out. Amounts of 3 and 4
satoshis with fees of up to 1 leave room for a fee, a treasury fee, a remainder of
an uneven split and a change output. Wallets, users, vaults, scripts and deposits
are interchangeable where `Interchangeable` and `MCSymmetry` say so; `TransferAmount`
bounds what account owners move on their own.

For the vault, two units per satoshi make an amount of 5 leave a remainder, two deposits
are the smallest number in which one repays what was minted for the other, and a
governance delay of 1 in a time of 2 lets an update begin and end around a request.
The optimistic minting delay is 0 at first: it must pass strictly, so a request still
takes one unit of time.

Monitoring has 5 blocks, timeouts of 2 or 3 and windows that reach 1 block back, so an event
can be mined, reorganised into another block and become overdue in one behaviour, and one
lagging node, one failure and one crash of a run may fall between any two steps. Blocks are
reorganised in the theme of redemptions only, since a run treats the events of all kinds alike;
the theorems have no such bound.

In the SDK three wallets make the concurrency limit of 2 take two rounds, and the second
is the only one that can serve a request at first. One retry and two faults are the
smallest numbers in which a retry both helps and does not; two transactions are the
smallest number in which one spends what the other reports; blocks of one, two, three and
five transactions, the coinbase included, give Merkle trees of every shape up to one with
duplicated nodes on two levels, and epochs of two blocks let a proof cross their boundary. A
faulty server makes up one header, or answers with the branch of another place in the block, a branch that is
too short, an empty one or another coinbase transaction. Two Electrum servers, either of which may
not know the latest blocks, and two faults, or the four it takes to connect to neither, show every way a call ends. The
median time of Bitcoin's blocks lags by up to one unit of four. `MCSdk` names the further restrictions
(`InRedemptions`, `InWalletTx`, `InElectrum`, `InEthereum`, `InSpv`): one call at a
time, since callers use the services one after the other.

For rebate staking, a stake of 2 tokens with one token per unit of fee gives a cap of two rebates,
which a third one meets and an unstaking of 1 falls below; three blocks let a rebate be in
a window of two, leave it and be followed by another one. Three users are a staker, its delegatee
and one who takes the stake over. `MaxRebates` bounds the lists that transfers between users
put together, `LastBlockTime` the time, and `UINT64_MAX` stands for the largest rebate. `StakesNext`
and `RebatesNext` in `MCOperations` bound the two themes: the first has no rebates; the second has
two users and one stake that is not split, and the fee modes stay as they are, since a disabled mode
only makes fewer rebates.

Three runs of upgrade scripts with one failure are enough to plan, fail, run
again and plan the hotfix; two staking operators, one who joins and wallets of two let
a wallet close under the loop that visits it; a minting limit of 2 is passed by the second
message on Sui.

### Fairness and liveness

`EventuallyAnnounced` says that every event that stays on the chain is announced. It is
checked under `MonitoringSpec`: weak fairness of the steps of a run (`RunStep`), because
runs are made in a loop with fixed delays (`monitoring/README.adoc:74`, deployed as a
`CronJob`) and a run that was started goes on until it ends or is aborted, and strong fairness of a run being triggered while the node is up to date (`UpToDate`), because a
node that lags does so again and again but not every time. Nothing is assumed of the chain:
it need not grow, and reorganisations are bounded by `MaxReorgs`. Faults are finite in a
behaviour; a receiver that fails for ever is not owed anything.

No other module states fairness. What parties of the protocol do to the Bridge they do
when they choose to; that someone reports a timeout is an incentive, not a
schedule. The calls of the SDK end by the shape of their code.

### Findings

* *A closing wallet may still owe a sweep.* `moveFunds` takes "no main UTXO" for "no
  BTC". A target wallet whose first funds are moved funds has no main UTXO until it
  sweeps them; if it retires before, it is `Closing` at once, and then the sweep
  can neither be proven nor reported as timed out.
* *A timed-out redemption may not be reportable.* With
  `redemptionTxMaxTotalFee` as large as `redemptionDustThreshold` (the initial
  values), or through the dust report, a wallet can reach `Closing` with a request
  pending; `notifyRedemptionTimeout` then reverts.
* *A justified fraud challenge can be stranded.* If the closing period elapses before
  the defeat timeout is reported, the wallet is `Closed` and the report reverts; the
  ether of the challenge stays in the Bridge.
* *An alert over the supply may be lost.* `supply-monitor.ts:112` stores the block of
  the alert before the alert is delivered; if the run fails then, the next one
  measures from the stored block and raises none.
* *Deposits on Sei cannot be initiated with extra data.* The depositor expects an owner of 20
  bytes and is given the 32 its own encoder writes.

Observations without a run of their own:

* A wallet may have signed a moving transaction that is not confirmed yet when
  `notifyMovingFundsBelowDust` (`MovingFunds.sol:617`) puts it into `Closing`; its proof is then refused.
  The models have no transactions in flight on Bitcoin: one is proven in the step that makes it known.
* The dust threshold forces the redeemable amount above the transaction fee
  (`Redemption.sol:535`) only if the treasury fee divisor is not close to one, since the
  setters relate the threshold to the transaction fee alone; the subtraction in `Redemption.sol:976` may
  then revert, and the request can never be served.
* A vault that has handed the token over (`TBTCVault.sol:236`) reverts in every sweep
  routed to it as long as the Bridge trusts it: governance has to withdraw the trust in the
  same breath.
* The watchtower's manager may raise the delays while requests are pending
  (`RedemptionWatchtower.sol:524`), so that a request whose delay was over can be objected to
  again; and the watchtower may be enabled before the Bridge knows it
  (`RedemptionWatchtower.sol:220`), in which case the third objection reverts.
* `getTransactionConfirmations` reverses the script hash in place inside the closure that is
  retried (`lib/electrum/client.ts:494`): after a fault the second attempt asks for another
  script and the call fails. `RetriesHideFaults` excepts this call.
* A connection may stay open. `withElectrum` closes the connection it chose
  (`lib/electrum/client.ts:250`); a server that connected but did not answer the ping, or answered
  too late, is given up after its retries and never disconnected. `RetriesHideFaults` says that
  nothing else leaves one open.
* The histories of `getTransactionHistory` are fetched all at once (`lib/electrum/client.ts:362`): when one
  fails, the call ends while the others go on, with connections of their own.
* A broadcast that is retried after a lost reply is refused when the transaction has been mined by then: the
  call fails although it has done its work (`lib/electrum/client.ts:661`). `RetriesHideFaults` excepts it.
* An error of the wallet registry is taken for a wallet without a public key (`lib/ethereum/bridge.ts:543`)
  and such a wallet for one that is not `Live` (`redemptions-service.ts:474`): a wallet that
  could serve a redemption is passed over silently. `AbleWalletFound` excepts it.
* What redemption calls return is the hash of a transaction that was sent (`lib/ethereum/tbtc-token.ts:101`,
  `lib/ethereum/l1-bitcoin-redeemer.ts:106`). It may revert when it is mined, and the caller is not told.
* A longer rolling window forgets rebates. The start index is moved past what has left the window
  and never back (`RebateStaking.sol:293`): when the owner makes the window longer, rebates that are
  in it again are not added up, and more than the cap is granted. `GrantedWithinCap` leaves this case
  out, by `countedFrom`.
* A rebate may stay used after the timeout of its redemption. `cancelRebate` looks for the first
  rebate of the block of the request (`RebateStaking.sol:400`); of two requests the redeemer made
  in that block, both timeouts find the rebate of the first.
* `getAvailableRebate` subtracts what was used from the cap without comparing them
  (`RebateStaking.sol:269`), and reverts while a staker who has used its rebates is unstaking.
* The list of minters on Sui is not read when tokens are minted: a minter
  that was removed and kept its capability still mints, although `tbtc.move:148` says that the
  capability "will no longer be valid". The Gateway is the only holder of
  one in the model.
* The loop of `dailyWithdraw` in `simulation/wallets.js:393` walks the wallets once, by index,
  while a wallet emptied to its minimum closes and moves the rest of its coins, possibly to a
  wallet the walk has passed; nothing then ends the loop. In the model such a day has no
  successor.

## Proofs

| Module | Theorems | 
|---|---|
| `SumsProofs` | lemmas about totals and ordered lists |
| `BridgeProofs` | `TypeOK`; `ActiveWalletIsLive`, `LiveWalletsCountExact`, `RegistryAgreement`; `Spec` implements `LifecycleSpec`; `EtherHeldForOpenChallenges`, `SpentMainUtxosRecorded`, `SweepRequestsCountExact`, `TimedOutKeysNotReused`, `PendingRedemptionsValueExact`, `BridgeHoldsLockedBalance`, `CommittedWalletsOweNoRedemption`, `BackingLossBounded` |
| `WatchtowerProofs` | `DetainedFundsHeld`, `ObjectionsCountExact`, `ObjectionsConcernPending`, `ReleasedRequestsStayReleased`; the books of the Bridge under the watchtower; `WatchedSpec` implements `Spec` |
| `VaultProofs` | `SupplyBacked`, `ExcessDebtBounded`; `MintingSpec` implements `Spec` |
| `MonitoringProofs` | `CheckpointCoversEvents`, `OverdueReported`, `RepeatedOnlyIfUnstored` |
| `OperationsProofs` | `CanonicalBacked`, `NewBridgeMeetsNewRebate`, `PlansLinkTheirRevision`, `OperatorsKnowTheirWallets`; of `RebateStaking`: `StakingTypeOK`, `StakesHeld`, `DelegationsMutual`, `StartIndexSound`, `GrantedWithinCap`, and that a rebate is a part of the fee |
| `SdkProofs` | `AbleWalletFound`, `RequestsAccountedFor`, `DepositsRecoverable`, `HandedOverAsInitiated`, `RefusalReported`, `EventsExactlyOnce`, `AssembledTxProvable`, `ReportedMainUtxoRegistered` |
| `SdkBitcoinProofs` | `ValidatedProofTrue`, `QuietProofAccepted`, `AnswerTruthful`, `RetriesHideFaults` |

`SumsProofs` proves what the models need of totals from cardinalities of finite sets: their
type, that they are zero only if every entry is, monotonicity, the effect of one changed entry and of
a set of cleared ones, reindexing, addition and scaling of entries, the split over a subset and over
the classes of a partition. Of the lists of `Orderings` it proves what their members are, in which order,
and that selections of adjacent parts append. No recursion is involved, so everything is within reach of the
provers.

`BridgeProofs` proves `Spec => []TypeOK` first. `TypeOK` says that every Bank balance is a
natural number, although a redemption proof burns and transfers several sums in one call;
the inductive invariant adds that no treasury fee exceeds the amount it is taken
from, without which the burned sums would not be natural numbers.

Next come the facts of the wallet registry and the refinement
`Spec => LifecycleSpec`. Their inductive
invariant is about the wallet registry alone: each handler of the other libraries is shown to
do to the wallet fields what one of six named steps does. It then proves that the books of the Bridge are exact, in whatever order the
libraries work on them. Each book has its section: what a handler does to the book is
stated as a few named steps (a request is added, settled, kept; a sweep request is
created, ended), every action of every library is shown to take one of them, and each step
to keep the book. What makes the books inductive:

* *Sweep requests.* The count is exact only if no proof creates a request that exists
  already. `SweepSourcesRetired` says that a source of a request has left
  `MovingFunds` for good, so that its funds cannot be moved twice.
* *Redemptions.* `RedemptionInv` joins both books (`pendingRedemptionsValue` and the balance
  locked in the Bank) and says that an absent request records nothing: then a
  new request adds to the totals what it records, and a proof that settles many
  requests at once takes away the total of what they recorded.
* *Timed out keys.* A wallet with a timed out request is not merely not `Live`, it has been
  registered (`TimeoutInv`); otherwise a registration could make it so.
* *Commitments.* A pending request must have something left to redeem (`CommitmentInv`), or a
  pending value of zero would not mean that nothing is pending; and a wallet that has committed
  is past taking requests. The first needs `RedemptionTreasuryFeeDivisor # 1`: with a divisor
  of one the fee may be the whole amount, the request reserves nothing and the commitment
  is accepted over it. The contract's own comment at `Redemption.sol:535` takes for
  granted that something is left; the setters do not ensure it. This is the theorem's hypothesis.
* *Backing.* `Deficit` is what the Bank owes beyond the BTC of wallets, of deposits and of moved
  funds on their way. Every action is shown to change both sides by the same: a sweep credits what
  its inputs hold less the fees, since the shares of the transaction fee, with the remainder on the
  last deposit, add up to it; a redemption pays out what it burns. It takes `DepositsKnown` (a
  credit goes to a named depositor, so none is lost from the sum of balances) and
  `SweepSourcesRetired` (a moving transaction creates its requests afresh, so moved funds are
  counted once). The transactions that may lose backing are recognised by the main UTXO they replace or
  record as spent: the value alone does not tell, because a sweep of moved funds may pay
  all of them as its fee and leave a main UTXO of the same value.

`WatchtowerProofs` proves what the redemption watchtower promises for every set of
guardians and whatever its manager makes of the parameters. Its inductive invariant joins
the three invariants the run checks with `FinalizedByLastObjection` (a proposal with fewer than
three objections is not finalized, so an objection never counts detained funds of
an earlier veto) and `RedeemersKnown` (a pending request and a finalized proposal name a user to
pay, so that neither the withdrawal nor the timeout pays the watchtower or the
Bridge, which would break the sums). `ReleasedRequestsStayReleased` is an action property: once
the delay is over, no call but a change of the parameters makes a request wait again.

`VaultProofs` proves that no TBTC exists that is neither backed by Bank balance of a vault nor owed
by a depositor. `SupplyBacked` is kept by a sweep only if the deposits it sweeps
name their depositors and leave something after the fee (`DepositsKnown`), if debts are only
incurred for revealed deposits (`RequestedDepositsRevealed`) and if an upgrade pays a vault
(`UpgradesToVault`); the sweep credits depositors one after the other, repays debts and mints
the rest, which is summed up with the partition of the deposits by depositor. `ExcessDebtBounded` is
an action property that compares a depositor's debt with the deposits that are minted for and unswept, before and
after each step. It needs one more invariant, that these deposits are routed to the vault
(`MintedInv`): a sweep of them then either reaches the vault and repays all but the fee share of
each, which the Bridge bounds for the last and therefore largest one, or the Bridge no longer trusts
the vault and the property allows for the whole deposit. The run `vault`
checks `ScenariosSpec`, which restricts `MintingSpec`; the theorems are about `MintingSpec`.

`WatchedSpec => Spec` and `MintingSpec => Spec` say that the two contracts do nothing to the
Bridge and the Bank that `Bridge` alone leaves out: what is proved of `Spec` holds under them.
Both have the hypothesis `TransferAmount = Nat`, since that constant is a bound for
TLC on what account owners move, and withdrawals and mints move any amount.

`OperationsProofs` proves `SuiSpec => []CanonicalBacked`: on Sui the supply of canonical coins, the
wrapped coins in the treasury and the gateway's own count are equal, for all limits,
messages and administrators. The inductive invariant `Backed` adds only that the amounts are
natural numbers and that the objects keep their fields; the proof splits the steps into
those that move no coins (every program and administrative call, whatever they read and
however they interleave), redemptions, where both branches of the limit are followed, and
transfers, where the branch that would set the count to zero is shown to be reached only
when zero is the difference.

It also proves both properties of the upgrade scripts, for any series of releases that satisfies
`ReleaseAssumption` (the comments of the scripts: TIP-109 changes `RebateStaking`, later hotfixes
leave `Deposit` alone) and whatever is checked out, dies or is run again between two transactions.
`UpgradeInv` says that what a script in progress has built is of the revision checked out
(`ScriptInv`), that once the release is prepared the `Deposit` library on record is the
release's, where the hotfixes look it up (`RecordedInv`), that every plan of the scripts
85 and 86 upgrades `RebateStaking` before the Bridge and to the implementations of its own
revision (`PlansInv`), and that on mainnet nothing but such plans has changed the proxies
(`MainnetInv`).

And it proves `OperatorsKnowTheirWallets` of the simulation, for any number of operators and wallets. The
loops walk over collections that grow and shrink under them; `Numbered` says that operators and
wallets were given the numbers below the next one, `LoopKeys` that the loop over operators meets staking
ones only and the loop over a quitter's wallets open ones only, and `Agree` is the property.

Its last section is about rebate staking, for any users, supplies and fees and whatever parameters the
owner sets. `StakingInv` joins `StakingTypeOK`, `StakesHeld`, `DelegationsMutual` and
`StartIndexSound` with `RebatesPast` (no
rebate is of a later block), which makes the list of a staker grow in order. The argument is about
one list:

* *The start index* is moved by one for each expired entry, wherever that entry stands. Entries that
  count are in order, so everything from the first of them on is unexpired, the expired ones are all
  before it, and so is the index after it was moved by their number (`SkipSound`). A cancelled
  rebate keeps its place and time (`SameTimesSound`). The list of a user who takes over a stake while
  it has rebates of its own is not ordered; nothing is claimed of either from before that time
  (`ConcatSound`).
* *The cap.* What the loop adds up is no less than all rebates since `countedFrom` in the window,
  since the index passed none of them (`GrantWithinUsed`), and the new rebate is at most what is
  left (`RebateBounds`). That needs `StakesHeld`, or the cap would be computed from less than
  nothing.
* *Stakes* are a total over users, which a transfer leaves the same and each other call changes by
  what it moves. *Delegations* are compared side by side for each call; that a delegatee has no
  stake is what makes staking end its delegation, and keeps it from delegating itself.

`RebateWithinFee` states what the Bridge modules assume: the treasury fee after a rebate is between zero
and the full fee.

`SdkProofs` proves the safety properties of the SDK that concern its callers, for every service or
handle on its own, against a chain that moves between any two of its reads.

* *Finding a wallet.* `SearchInv`: of a wallet that is able all along, what the search has read
  can only be out of date in the wallet's favour (its main UTXO is the one it was and its
  pending value has only grown), so that a missing public key is all it can be dropped for; and the
  chunks before the current one have been examined.
* *Requests.* `AccountInv`: a call that succeeded is done, so that it cannot send another
  transaction. Sending one moves it to `inFlight`, from where it is mined, and granted or
  reverted; either way what is granted and what may still be is no more than what was sent.
* *Deposits.* `DepositInv`: an output's script is made from the receipt of an object in
  memory, which the Bitcoin side never changes, and extra data goes unchanged from there to relayers
  and L2 transactions; the owner set on the depositor may have changed since. Every locktime in
  memory is in the byte order that scripts are read in, so that what the refund's is read back as, reversed,
  is the one in the script, and the median time is past it once it lags no more.
* *Wallet transactions.* `WalletTxInv`: every transaction has the shape of a sweep or a redemption
  the SDK assembles (`TxsInv`), the main UTXO registered for a wallet is one its key can spend
  (`MainsInv`), and the requests of the Bridge, and those read of it for a transaction being
  assembled, name amounts that exist (`RequestsInv`, `RedeemingInv`). Judging a proof by the
  rules of the Bridge is then arithmetic on the totals of the transaction: what its inputs
  hold, less its outputs, is the fee the SDK was given, and each output is what its request asks for.
* *Refusals.* `RefusalInv`: once a call was refused because its work is done, it has failed with that
  error; no retry follows.
* *Events.* `EventsInv`: what was pulled is exactly the events from the first block
  asked for to the one before the next batch, and no block is counted as searched
  before it is mined. The lists are defined by the places of their entries
  (`Orderings`): the events of two adjacent ranges of blocks, appended, are those of both
  (`SelectedSplit`), and a later block leaves a list of earlier ones as it was (`SelectedKept`).
  Neither takes recursion.

`SdkBitcoinProofs` proves what the SDK learns of Bitcoin. First come both properties of SPV proofs, for blocks of any length, any number of required
confirmations and any bound on blocks, reorganisations and faults. Functions that are
defined step by step (the levels of a Merkle tree, an index halved level by level, the
hashes of a climb) are shown to exist from `NumbersFromZero`, induction stated over a set of
numbers, and `Iterates`, which collects finite approximations into one function.

* *A validated proof is true.* A node of a tree holds nothing but transactions of the block and marks
  of hashing (`RootFacts`), and whatever nodes a server sends, a climb keeps what it
  started from (`AcceptedHeld`): a root that is reached holds the transaction.
  The headers were either mined or made by nobody (`ServedHeaders`), any number of them in an answer,
  and a branch may be forged at every level; the work tells the former apart, and the root the
  latter. No two miners have a nonce in common (`MinedInv`), so the first header's root
  is that of one block, and each block is on the one before.
* *A refusal has a reason.* `QuietInv`: what a call has read is still so when nothing happened
  since it began. The branch of the transaction at any position climbs through the levels of
  the tree, the node of index *i* to that of *i* ÷ 2, also at the end of odd levels (`BesideFacts`,
  `BranchAccepted`); bytes of headers are read back as the headers (`HeadersRoundTrip`); a coinbase
  transaction is first in its block and nowhere else (`CoinbaseFirst`). Only the difficulties remain
  to be refused for.

Its assumptions are that coinbase transactions have numbers of their own and that targets are above
the numbers that stand for the hashes of mined headers.

Then the answers of the Electrum client, for any number of servers and retries.

* *The answers.* `WorldInv`: servers learn of more blocks and never fewer, and what is in a block
  stays there. `Heard` says of the user's call what it has been told so far, from servers that
  need not be the same: each history has what was confirmed at all of them before the call, what
  it says is confirmed is so for good, and the tip is not below that of the slowest of them. Such
  facts stay true as the chain grows (`HeardStays`, `ToldStays`), so blocks may be mined between any
  two requests. A tip below the transaction's block means that not every server knew that block
  when the call began, and then zero confirmations are what one of them would have said. The answer is
  put together by sorting, filtering and cutting lists, which keep these facts.
* *The errors.* `Counted` compares the attempts of a call with the faults since the user made it,
  which is why an error takes more of them than there are retries; `Excused` names what servers may
  refuse. Both matter only while the user waits: when one of several histories has failed, the
  others go on, and all that is asked of them is to close what they opened.
* *The connections.* `Paid` is a ledger: every connection that is open beyond those in use was
  paid for with all the attempts of a server that was given up. Summed over the calls in progress,
  open connections times attempts, and the attempts still pending, do not exceed the faults and
  what connections in use are credited with; `SumsProofs` gives the totals.

`MonitoringProofs` proves the safety properties of the monitoring tool for every chain, every depth of
reorganisations up to the one the tool allows for, and however far nodes lag and however often calls
fail. Its inductive invariant `MonitorInv` follows a run: `Expected` is what the
events of a window call for, namely the announcements of events deeper than a reorganisation
reaches and the alerts of requests whose time is over; a run without errors has fetched what they
are derived from, then reported them, then delivered them (`ProgressInv`), and everything expected
up to the checkpoint was delivered (`CoverInv`). The chain moves meanwhile, but cannot change what is expected of
those blocks (`ExpectedStable`), and the window of a run joins the checkpoint it started with,
also when a lagging node makes the checkpoint move back (`ExpectedByRuns`). That an overdue deposit or
minting request is reported follows from what its run reads: events that settle it would have been
mined, and none ever was (`Unsettled`). That an overdue redemption is reported takes the causal order
of the chain: the request found pending under a key is the one whose time is over, since a second one
under the key follows the settlement of the first (`RequestsAssumption`, which is what `Redemption.sol`
requires of a request). `BooksInv` accounts for every delivery as handled, about to be, or lost by a fault.

The assumptions are those of the modules: finite sets of wallets, users, scripts
and deposits, distinct accounts (a user is not a vault), and the parameter constraints the
setters enforce.

Every invariant and every action property that a passing run checks is proved. Five more are proved
and checked by no run, since others of the runs say more: `ActiveWalletIsLive`, `RefusalReported`,
`HandedOverAsInitiated`, `StakingTypeOK` and `StartIndexSound`. Model-checked only:

* `EventuallyAnnounced` of `Monitoring`: liveness under fairness is out of the prover's reach.
* The runs that expect a violation, whose counterexamples are findings.

## Plan

1. Bitcoin transactions in flight, `LightRelay`, governance delays of the Bridge's parameters, Bank
   allowances.
2. Proposal validator: an accepted proposal leads to a proof the Bridge accepts.
3. Cross-chain depositors on L1, and the chains other than Sui.

## Not modelled

Byte-level parsing and hashing of Bitcoin transactions in the contracts (`BitcoinTx.sol`,
`EcdsaLib.sol`; the SDK's side of SPV proofs is in `BitcoinSpv`), gas reimbursement
(`MaintainerProxy.sol`), the deploy scripts 00 to 43, which deploy once and keep no state, the
depositors and gateways of `cross-chain/` and `integrator/` other than Sui's, the vending
machines, `LightRelay` and governance (planned above), system tests and the
yield strategies. `PROJECT.json` gives the reason for each component.
