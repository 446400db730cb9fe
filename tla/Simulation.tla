----------------------------- MODULE Simulation -----------------------------
(***************************************************************************)
(* src/simulation/wallets.js: the program the team sizes wallets with.  A  *)
(* day runs through the same subroutines in the same order; each of them   *)
(* is a loop over a snapshot of keys, in ascending order, taken here one   *)
(* key per step, as closing a wallet moves coins and operators under the   *)
(* loop that closes it.  The Poisson and uniform draws are                 *)
(* nondeterministic choices; the statistics and the caches that are only   *)
(* written (walletLiveOperators, numberOfTransfers, biggestWalletBalance,  *)
(* lastWalletCreationDay) are left out.                                    *)
(***************************************************************************)
EXTENDS Integers, FiniteSetsExt

CONSTANTS
  OperatorCount,          \* operators at the start: 0 .. OperatorCount - 1
  WalletSize, Heartbeat,  \* WALLET_SIZE, HEARTBEAT
  DaysToUnstake, WalletCreationPeriod, WalletMaxAge,  \* in days
  WalletMinBtc, WalletTransferMax,
  NewDeposit, NewWithdraw,      \* amounts the Poisson draws may give
  TransferImplementation,       \* the implementations considered
  DaysToSimulate,               \* bound on the days
  MaxOperators                  \* bound on the operators ever registered

ASSUME SimulationAssumption ==
  /\ {OperatorCount, Heartbeat, WalletMinBtc, MaxOperators} \subseteq Nat
  /\ {WalletSize, DaysToUnstake, WalletCreationPeriod, WalletMaxAge,
      WalletTransferMax, DaysToSimulate} \subseteq Nat \ {0}
  /\ NewDeposit \subseteq Nat /\ NewWithdraw \subseteq Nat
  /\ TransferImplementation \subseteq
       {"randomTransferWithoutCap", "randomTransfer", "transferToActive"}

VARIABLES
  transfer,               \* the implementation in use
  day, phase, todo,       \* the loop in progress and the keys it has left
  quitter,                \* the operator whose wallets "leave" goes through
  remaining,              \* what dailyWithdraw has still to withdraw
  walletBalances, walletIndex, walletStakingOperators,
  operatorToWallets, operatorIndex,
  stakingOperators, liveOperators, unstakingOperators,
  btcInSystem

loopVars == <<day, phase, todo, quitter, remaining>>
walletGroupVars == <<walletStakingOperators, operatorToWallets>>
operatorVars == <<operatorIndex, stakingOperators, liveOperators, unstakingOperators>>
simulationVars ==
  <<transfer, loopVars, walletBalances, walletIndex, walletGroupVars,
    operatorVars, btcInSystem>>

(* Object.keys lists integer keys in ascending order: the next one is the    *)
(* smallest of those left.                                                   *)
NextKey == Min(todo)
NoKeys == [x \in {} |-> {}]
Without(f, k) == [x \in DOMAIN f \ {k} |-> f[x]]
With(f, k, v) == [x \in DOMAIN f \cup {k} |-> IF x = k THEN v ELSE f[x]]
ActiveWalletIndex == walletIndex - 1

SimulationInit ==
  /\ transfer \in TransferImplementation
  /\ day = 0 /\ phase = "close old" /\ todo = {}
  /\ quitter = -1 /\ remaining = 0
  /\ walletBalances = NoKeys /\ walletIndex = 0 /\ walletStakingOperators = NoKeys
  /\ operatorToWallets = NoKeys /\ operatorIndex = OperatorCount
  /\ stakingOperators = 0..(OperatorCount - 1)
  /\ liveOperators = 0..(OperatorCount - 1)
  /\ unstakingOperators = NoKeys
  /\ btcInSystem = 0

------------------------------------------------------------------------------
(* Closing a wallet: its coins go to other wallets, or nowhere.              *)

(* The wallets that a random transfer may choose.                            *)
LiveWallets(wallet, stakers) ==
  {i \in DOMAIN walletBalances :
     /\ walletBalances[i] > WalletMinBtc
     /\ Cardinality(stakers[i]) >= Heartbeat
     /\ i # wallet}

Credit(wallets, amount) ==
  [i \in DOMAIN walletBalances |->
     IF i \in wallets THEN walletBalances[i] + amount ELSE walletBalances[i]]

GetRandomSample(set, size) ==
  IF Cardinality(set) <= size THEN {set} ELSE kSubset(size, set)

RandomTransferWithoutCap(wallet, balance, live) ==
  {Credit(chosen, balance) : chosen \in GetRandomSample(live, 1)}

(* The batches are even; the model follows the splits that are exact.        *)
RandomTransfer(wallet, balance, live) ==
  LET batches == (balance + WalletTransferMax - 1) \div WalletTransferMax
      transferCount == Min({Cardinality(live), batches})
  IN IF transferCount = 0
       THEN {walletBalances}
       ELSE {Credit(chosen, balance \div transferCount) :
               chosen \in {c \in GetRandomSample(live, transferCount) :
                             balance % transferCount = 0}}

TransferToActive(wallet, balance, live) == {Credit({ActiveWalletIndex}, balance)}

Transfer(wallet, balance, live) ==
  CASE transfer = "randomTransfer" -> RandomTransfer(wallet, balance, live)
    [] transfer = "randomTransferWithoutCap" ->
         RandomTransferWithoutCap(wallet, balance, live)
    [] transfer = "transferToActive" -> TransferToActive(wallet, balance, live)

CanClose(wallet) == wallet < ActiveWalletIndex /\ wallet \in DOMAIN walletBalances

\* Mutant: the operators keep the closed wallet.
KeepWallet(wallet, signers) == operatorToWallets

(* The operators that still sign for a closing wallet forget it.             *)
Forget(wallet, signers) ==
  [o \in DOMAIN operatorToWallets |->
     IF o \in signers THEN operatorToWallets[o] \ {wallet} ELSE operatorToWallets[o]]

(* "balance" is what the wallet holds and "stakers" who signs for which       *)
(* wallet when it is closed.                                                 *)
CloseWallet(wallet, balance, stakers) ==
  IF ~CanClose(wallet)
    THEN /\ walletBalances' = [walletBalances EXCEPT ![wallet] = balance]
         /\ walletStakingOperators' = stakers
         /\ UNCHANGED operatorToWallets
    ELSE /\ \E balances \in (IF balance > 0
                               THEN Transfer(wallet, balance,
                                             LiveWallets(wallet, stakers))
                               ELSE {walletBalances}) :
              walletBalances' = Without(balances, wallet)
         /\ walletStakingOperators' = Without(stakers, wallet)
         /\ operatorToWallets' = Forget(wallet, stakers[wallet])

------------------------------------------------------------------------------
(* A day.                                                                    *)

Enter(next, keys) == phase' = next /\ todo' = keys

(* closeOldWallets                                                           *)
CloseOldWallet ==
  /\ phase = "close old" /\ todo # {}
  /\ IF day >= NextKey * WalletCreationPeriod + WalletMaxAge
       THEN CloseWallet(NextKey, walletBalances[NextKey],
                        walletStakingOperators)
       ELSE UNCHANGED <<walletBalances, walletGroupVars>>
  /\ todo' = todo \ {NextKey}
  /\ UNCHANGED <<transfer, day, phase, quitter, remaining, walletIndex,
                 operatorVars, btcInSystem>>

RegisterNewOperators ==
  /\ phase = "close old" /\ todo = {}
  /\ \E newOperators \in 0..(MaxOperators - operatorIndex) :
       LET joined == operatorIndex..(operatorIndex + newOperators - 1) IN
       /\ liveOperators' = liveOperators \cup joined
       /\ stakingOperators' = stakingOperators \cup joined
       /\ operatorIndex' = operatorIndex + newOperators
       /\ Enter("begin unstaking", stakingOperators \cup joined)
  /\ unstakingOperators' = With(unstakingOperators, day + DaysToUnstake, {})
  /\ UNCHANGED <<transfer, day, quitter, remaining, walletBalances, walletIndex,
                 walletGroupVars, btcInSystem>>

(* beginUnstakingOperators: the next operator stays, or quits and leaves the *)
(* wallets it knows one after the other.  The last staking operator stays    *)
(* (of the 2000 of the program so many never quit).                          *)
OperatorStays ==
  /\ phase = "begin unstaking" /\ todo # {}
  /\ todo' = todo \ {NextKey}
  /\ UNCHANGED <<transfer, day, phase, quitter, remaining, walletBalances,
                 walletIndex, walletGroupVars, operatorVars, btcInSystem>>

WalletsOf(operator) ==
  IF operator \in DOMAIN operatorToWallets THEN operatorToWallets[operator] ELSE {}

OperatorQuits ==
  LET operator == NextKey IN
  /\ phase = "begin unstaking" /\ todo # {}
  /\ Cardinality(stakingOperators) > 1
  /\ stakingOperators' = stakingOperators \ {operator}
  /\ unstakingOperators' = [unstakingOperators EXCEPT
                              ![day + DaysToUnstake] = @ \cup {operator}]
  /\ quitter' = operator
  /\ Enter("leave", WalletsOf(operator))
  /\ UNCHANGED <<transfer, day, remaining, walletBalances, walletIndex,
                 walletGroupVars, operatorIndex, liveOperators, btcInSystem>>

LeaveWallet ==
  LET wallet == NextKey
      stakers == [walletStakingOperators EXCEPT ![wallet] = @ \ {quitter}]
  IN
  /\ phase = "leave" /\ todo # {}
  /\ wallet \in DOMAIN walletStakingOperators
  /\ IF Cardinality(stakers[wallet]) < Heartbeat
       THEN CloseWallet(wallet, walletBalances[wallet], stakers)
       ELSE /\ walletStakingOperators' = stakers
            /\ UNCHANGED <<walletBalances, operatorToWallets>>
  /\ todo' = todo \ {NextKey}
  /\ UNCHANGED <<transfer, day, phase, quitter, remaining, walletIndex,
                 operatorVars, btcInSystem>>

OperatorHasLeft ==
  /\ phase = "leave" /\ todo = {}
  /\ Enter("begin unstaking", {o \in stakingOperators : o > quitter})
  /\ quitter' = -1
  /\ UNCHANGED <<transfer, day, remaining, walletBalances, walletIndex,
                 walletGroupVars, operatorVars, btcInSystem>>

UnstakeOperators ==
  /\ phase = "begin unstaking" /\ todo = {}
  /\ liveOperators' = liveOperators \
       (IF day \in DOMAIN unstakingOperators THEN unstakingOperators[day] ELSE {})
  /\ unstakingOperators' = Without(unstakingOperators, day)
  /\ Enter("create wallet", {})
  /\ UNCHANGED <<transfer, day, quitter, remaining, walletBalances, walletIndex,
                 walletGroupVars, operatorIndex, stakingOperators, btcInSystem>>

NewWallet(operators) ==
  /\ walletBalances' = With(walletBalances, walletIndex, 0)
  /\ walletStakingOperators' = With(walletStakingOperators, walletIndex, operators)
  /\ operatorToWallets' =
       [o \in DOMAIN operatorToWallets \cup operators |->
          IF o \in operators THEN WalletsOf(o) \cup {walletIndex}
                             ELSE operatorToWallets[o]]
  /\ walletIndex' = walletIndex + 1

CreateNewWalletEvent ==
  /\ phase = "create wallet"
  /\ IF day % WalletCreationPeriod = 0
       THEN \E operators \in GetRandomSample(stakingOperators, WalletSize) :
              NewWallet(operators)
       ELSE UNCHANGED <<walletBalances, walletIndex, walletGroupVars>>
  /\ Enter("deposit", {})
  /\ UNCHANGED <<transfer, day, quitter, remaining, operatorVars, btcInSystem>>

DailyDeposit ==
  /\ phase = "deposit"
  /\ \E amount \in NewDeposit :
       /\ walletBalances' = [walletBalances EXCEPT ![ActiveWalletIndex] = @ + amount]
       /\ btcInSystem' = btcInSystem + amount
  /\ Enter("start withdraw", {})
  /\ UNCHANGED <<transfer, day, quitter, remaining, walletIndex, walletGroupVars,
                 operatorVars>>

StartDailyWithdraw ==
  /\ phase = "start withdraw"
  /\ \E amount \in NewWithdraw : remaining' = Min({amount, btcInSystem})
  /\ Enter("withdraw", 0..(walletIndex - 1))
  /\ UNCHANGED <<transfer, day, quitter, walletBalances, walletIndex,
                 walletGroupVars, operatorVars, btcInSystem>>

Withdraw(wallet, amount) ==
  LET remainingBalance == walletBalances[wallet] - amount IN
  /\ btcInSystem' = btcInSystem - amount
  /\ IF remainingBalance <= WalletMinBtc
       THEN CloseWallet(wallet, remainingBalance, walletStakingOperators)
       ELSE /\ walletBalances' = [walletBalances EXCEPT ![wallet] = remainingBalance]
            /\ UNCHANGED walletGroupVars

DailyWithdraw ==
  LET wallet == NextKey IN
  /\ phase = "withdraw" /\ todo # {} /\ remaining > 0
  /\ IF wallet \in DOMAIN walletBalances /\ walletBalances[wallet] > 0
       THEN LET amount == Min({remaining, walletBalances[wallet]}) IN
            /\ Withdraw(wallet, amount)
            /\ remaining' = remaining - amount
       ELSE UNCHANGED <<walletBalances, walletGroupVars, btcInSystem, remaining>>
  /\ todo' = todo \ {NextKey}
  /\ UNCHANGED <<transfer, day, phase, quitter, walletIndex, operatorVars>>

(* A day whose withdrawal finds no more coins never ends.                    *)
NewDay ==
  /\ phase = "withdraw" /\ remaining = 0
  /\ day + 1 < DaysToSimulate
  /\ day' = day + 1
  /\ Enter("close old", DOMAIN walletBalances)
  /\ UNCHANGED <<transfer, quitter, remaining, walletBalances, walletIndex,
                 walletGroupVars, operatorVars, btcInSystem>>

SimulationNext ==
  \/ CloseOldWallet \/ RegisterNewOperators
  \/ OperatorStays \/ OperatorQuits \/ LeaveWallet \/ OperatorHasLeft
  \/ UnstakeOperators \/ CreateNewWalletEvent
  \/ DailyDeposit \/ StartDailyWithdraw \/ DailyWithdraw
  \/ NewDay

SimulationSpec == SimulationInit /\ [][SimulationNext]_simulationVars

------------------------------------------------------------------------------
(* A staking operator knows exactly the open wallets it signs for, although  *)
(* wallets close in the middle of the loops over operators and wallets: a    *)
(* quitting operator never looks up the signers of a wallet that is gone.    *)
OperatorsKnowTheirWallets ==
  /\ \A o \in stakingOperators :
        WalletsOf(o) = {w \in DOMAIN walletStakingOperators :
                          o \in walletStakingOperators[w]}
  /\ phase = "leave" => todo \subseteq DOMAIN walletStakingOperators

==============================================================================
