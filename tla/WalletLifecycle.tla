--------------------------- MODULE WalletLifecycle ---------------------------
(***************************************************************************)
(* What the Bridge promises about the life of its wallets, whatever else   *)
(* it does: a wallet is registered once, goes through its states in one    *)
(* direction and never leaves Closed or Terminated; at most one wallet is  *)
(* active, it is the last one registered, and a wallet that stops being    *)
(* live stops being active in the same step.                               *)
(***************************************************************************)
CONSTANTS Wallet, NoWallet

VARIABLES state, active

lifecycleVars == <<state, active>>

Init ==
    /\ state = [w \in Wallet |-> "Unknown"]
    /\ active = NoWallet

Becomes(w, s) == state' = [state EXCEPT ![w] = s]
Deactivate(w) == active' = IF active = w THEN NoWallet ELSE active

Register(w) ==
    /\ state[w] = "Unknown"
    /\ Becomes(w, "Live")
    /\ active' = w

\* A wallet with funds has to move them, one without starts closing.
Retire(w) ==
    /\ state[w] = "Live"
    /\ Becomes(w, "MovingFunds") \/ Becomes(w, "Closing")
    /\ Deactivate(w)

BeginClosing(w) ==
    /\ state[w] = "MovingFunds"
    /\ Becomes(w, "Closing")
    /\ UNCHANGED active

Close(w) ==
    /\ state[w] = "Closing"
    /\ Becomes(w, "Closed")
    /\ UNCHANGED active

Terminate(w) ==
    /\ state[w] \in {"Live", "MovingFunds", "Closing"}
    /\ Becomes(w, "Terminated")
    /\ Deactivate(w)

Next == \E w \in Wallet :
            Register(w) \/ Retire(w) \/ BeginClosing(w) \/ Close(w) \/ Terminate(w)

Spec == Init /\ [][Next]_lifecycleVars
=============================================================================
