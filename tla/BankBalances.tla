---------------------------- MODULE BankBalances ----------------------------
(***************************************************************************)
(* The balances the Bank keeps for its account owners, and what its        *)
(* internal functions do to them.  The contracts that call the Bank        *)
(* conjoin these operators; several calls in one transaction compose.      *)
(***************************************************************************)
EXTENDS Sums

CONSTANTS
    User,                         \* depositors and redeemers
    NoUser,                       \* the zero address
    Vault,                        \* contracts that can be a deposit's vault
    BridgeAccount,                \* the Bridge contract
    Treasury,
    Watchtower,                   \* the redemption watchtower contract
    TransferAmount                \* bound: what account owners move or burn

Account == User \union Vault \union {BridgeAccount, Treasury, Watchtower}

ASSUME AccountAssumption ==
    /\ IsFiniteSet(User)
    /\ IsFiniteSet(Vault)
    /\ TransferAmount \subseteq Nat
    /\ NoUser \notin User
    /\ Treasury # BridgeAccount
    /\ Watchtower \notin {BridgeAccount, Treasury}
    /\ {BridgeAccount, Treasury, Watchtower} \intersect (User \union Vault) = {}

VARIABLE balanceOf

BankTypeOK == balanceOf \in [Account -> Nat]
BankInit == balanceOf = [a \in Account |-> 0]

\* _increaseBalance
Increased(balances, account, amount) ==
    [balances EXCEPT ![account] = @ + amount]

\* Mutant: the subtraction is unchecked.
DecreaseUnchecked(balances, account, amount) == TRUE

\* decreaseBalance; the subtraction reverts unless CanDecrease holds.
CanDecrease(balances, account, amount) == balances[account] >= amount
Decreased(balances, account, amount) ==
    [balances EXCEPT ![account] = @ - amount]

\* _transferBalance; reverts unless CanDecrease holds for the spender.
Transferred(balances, spender, recipient, amount) ==
    Increased(Decreased(balances, spender, amount), recipient, amount)

\* increaseBalances, for the amount credited to each account.
AllIncreased(balances, credits) ==
    [a \in DOMAIN balances |-> balances[a] + credits[a]]

\* transferBalance called by an account owner other than the Bridge.
TransferBalance(spender, recipient, amount) ==
    /\ spender # BridgeAccount
    /\ CanDecrease(balanceOf, spender, amount)
    /\ balanceOf' = Transferred(balanceOf, spender, recipient, amount)

\* decreaseBalance called by an account owner other than the Bridge.
DecreaseBalance(account, amount) ==
    /\ account # BridgeAccount
    /\ CanDecrease(balanceOf, account, amount)
    /\ balanceOf' = Decreased(balanceOf, account, amount)

BankSupply == Total(balanceOf)
=============================================================================
