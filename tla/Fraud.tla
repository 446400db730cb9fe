-------------------------------- MODULE Fraud --------------------------------
(***************************************************************************)
(* Fraud challenges (library Fraud): anyone who holds a signature of a     *)
(* wallet over the spending of a UTXO may challenge the wallet, at the     *)
(* price of a deposit of ether.  The wallet defeats the challenge once the *)
(* Bridge knows the UTXO as honestly spent; otherwise the wallet is        *)
(* terminated and the challenger gets the deposit back.                    *)
(*                                                                         *)
(* A sighash is named by what it signs: <<"deposit", key>>,                *)
(* <<"moved", source>> (the output a moving wallet paid to this one),      *)
(* <<"main", n>> (the n-th main UTXO of the wallet), <<"heartbeat", n>> or *)
(* anything else, which no preimage can justify.  All deposits of ether    *)
(* are of the same size, the unit of bridgeEther.                          *)
(***************************************************************************)
EXTENDS MovingFunds, Deposits

CONSTANTS
    Sighash,                      \* bound: what wallets may have signed
    FraudChallengeDefeatTimeout

\* What updateFraudParameters requires.
FraudParametersAccepted == FraudChallengeDefeatTimeout \in Nat \ {0}
ASSUME FraudParametersAssumption == FraudParametersAccepted

ASSUME SighashAssumption == IsFiniteSet(Sighash)

VARIABLES
    fraudChallenges,
    bridgeEther                   \* challenge deposits the Bridge holds

fraudVars == <<fraudChallenges, bridgeEther>>

ChallengeKey == Wallet \X Sighash

FraudChallenge == [reportedAt : Nat, resolved : BOOLEAN]

FraudTypeOK ==
    /\ fraudChallenges \in [ChallengeKey -> FraudChallenge]
    /\ bridgeEther \in Int

FraudInit ==
    /\ fraudChallenges = [k \in ChallengeKey |-> [reportedAt |-> 0, resolved |-> FALSE]]
    /\ bridgeEther = 0

IsOpen(challenge) == challenge.reportedAt > 0 /\ ~challenge.resolved

-----------------------------------------------------------------------------
SubmitFraudChallenge(w, sighash) ==
    LET key == <<w, sighash>>
    IN  /\ walletState[w] \in {"Live", "MovingFunds", "Closing"}
        /\ fraudChallenges[key].reportedAt = 0
        /\ fraudChallenges' = [fraudChallenges EXCEPT ![key] =
               [reportedAt |-> now, resolved |-> FALSE]]
        /\ bridgeEther' = bridgeEther + 1
        /\ UNCHANGED <<walletVars, registryVars>>

\* The UTXO behind the sighash is known to the Bridge as honestly spent.
CorrectlySpent(w, sighash) ==
    \/ /\ sighash[1] = "deposit"
       /\ deposits[sighash[2]].sweptAt > 0
    \/ /\ sighash[1] = "main"
       /\ sighash[2] <= spentMainUTXOs[w]
    \/ /\ sighash[1] = "moved"
       /\ movedFundsSweepRequests[<<sighash[2], w>>].state = "Processed"

\* Mutant: the deposit of ether leaves, the challenge stays open.
PayOutOnly(key) == bridgeEther' = bridgeEther - 1 /\ UNCHANGED fraudChallenges

\* The challenge is resolved, and its deposit of ether leaves the Bridge, to the
\* treasury or back to the challenger, unless the receiver rejects it: the
\* outcome of that call is ignored.
ResolveFraudChallenge(key) ==
    /\ fraudChallenges' = [fraudChallenges EXCEPT ![key].resolved = TRUE]
    /\ \/ bridgeEther' = bridgeEther - 1
       \/ UNCHANGED bridgeEther

DefeatFraudChallenge(w, sighash) ==
    /\ IsOpen(fraudChallenges[<<w, sighash>>])
    /\ CorrectlySpent(w, sighash)
    /\ ResolveFraudChallenge(<<w, sighash>>)
    /\ UNCHANGED <<walletVars, registryVars>>

DefeatFraudChallengeWithHeartbeat(w, sighash) ==
    /\ IsOpen(fraudChallenges[<<w, sighash>>])
    /\ sighash[1] = "heartbeat"
    /\ ResolveFraudChallenge(<<w, sighash>>)
    /\ UNCHANGED <<walletVars, registryVars>>

NotifyFraudChallengeDefeatTimeout(w, sighash) ==
    LET challenge == fraudChallenges[<<w, sighash>>]
    IN  /\ IsOpen(challenge)
        /\ now >= challenge.reportedAt + FraudChallengeDefeatTimeout
        /\ ResolveFraudChallenge(<<w, sighash>>)
        /\ NotifyWalletFraudChallengeDefeatTimeout(w)

FraudNext ==
    /\ \E w \in Wallet, sighash \in Sighash :
          \/ SubmitFraudChallenge(w, sighash)
          \/ DefeatFraudChallenge(w, sighash)
          \/ DefeatFraudChallengeWithHeartbeat(w, sighash)
          \/ NotifyFraudChallengeDefeatTimeout(w, sighash)
    /\ UNCHANGED <<now, balanceFields, movedFundsSweepRequests, depositVars,
                   balanceOf>>
=============================================================================
