--------------------------- MODULE MC_GovernanceTx ---------------------------
EXTENDS GovernanceTx, TLC

CONSTANTS a1, a2, k1, k2

MCAddrOf == (k1 :> a1) @@ (k2 :> a2)
\* a1 is the root account and the validator k1; a2 does not exist yet.
MCGenesisAccounts ==
    (a1 :> [balance |-> 2, publicKey |-> k1, root |-> TRUE]) @@ (a2 :> NoAccount)
MCGenesisValidators == (k1 :> 1) @@ (k2 :> 0)
=============================================================================
