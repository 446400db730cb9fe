------------------------------ MODULE MCVault ------------------------------
(* Small instances of TbtcVault for TLC, one for each scenario: the debts   *)
(* of two depositors, tokens turned into balance and back while the vault   *)
(* is replaced, and the governance of the optimistic minting of a deposit.  *)
EXTENDS TbtcVault, TLC

CONSTANT OtherVault
VARIABLE scenario

MCSymmetry == Permutations(User) \union Permutations(DepositKey)

\* Who owns, owes, deposits or redeems anything.
ActiveUsers ==
    {u \in User :
        \/ balanceOf[u] # 0 \/ tbtcBalanceOf[u] # 0 \/ optimisticMintingDebt[u] # 0
        \/ \E d \in DepositKey : deposits[d].depositor = u
        \/ \E k \in RedemptionKey : \/ pendingRedemptions[k].redeemer = u
                                    \/ timedOutRedemptions[k].redeemer = u}
Revealed == {d \in DepositKey : deposits[d].revealedAt # 0}

OneDeposit == Cardinality(ActiveUsers) <= 1 /\ Cardinality(Revealed) <= 1
NoRedemptions ==
    \A k \in RedemptionKey : ~Exists(pendingRedemptions[k])
OneVault ==
    /\ OtherVault \notin isVaultTrusted /\ upgrade.initiatedAt = 0
    /\ \A d \in DepositKey : deposits[d].vault # OtherVault
NoNewParameters == feeUpdate.initiatedAt = 0 /\ delayUpdate.initiatedAt = 0

InScenario ==
    CASE scenario = "debts" -> NoRedemptions /\ OneVault /\ NoNewParameters
      [] scenario = "tokens" ->
            OneDeposit /\ NoNewParameters /\ isMinter = {} /\ isGuardian = {}
      [] scenario = "governance" ->
            OneDeposit /\ NoRedemptions /\ OneVault /\ isGuardian = {}

ScenariosInit == scenario \in {"debts", "tokens", "governance"} /\ MintingInit
ScenariosNext ==
    /\ \/ BridgeNext
       \/ VaultSweepNext
       \/ scenario = "tokens" /\ \E holder \in Holder : HolderNext(holder)
       \/ OptimisticMintingNext
       \/ GovernanceNext
    /\ UNCHANGED scenario /\ InScenario'
ScenariosSpec == ScenariosInit /\ [][ScenariosNext]_<<mintingSystemVars, scenario>>
=============================================================================
