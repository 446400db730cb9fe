---------------------------- MODULE MCWatchtower ----------------------------
(* The instance of RedemptionWatchtower that TLC checks.                   *)
EXTENDS RedemptionWatchtower, TLC

\* The parameters of initialize and two sets the manager may choose.
MCInitialParameters ==
    [watchtowerLifetime |-> 1, vetoPenaltyFeeDivisor |-> 1, vetoFreezePeriod |-> 1,
     defaultDelay |-> 1, levelOneDelay |-> 1, levelTwoDelay |-> 2,
     waivedAmountLimit |-> 0]

MCParameters ==
    {[MCInitialParameters EXCEPT !.vetoPenaltyFeeDivisor = 0],
     [MCInitialParameters EXCEPT !.vetoPenaltyFeeDivisor = 20,
                                 !.waivedAmountLimit = 3]}

MCInterchangeable == Permutations(Guardian) \union Permutations(User)
=============================================================================
