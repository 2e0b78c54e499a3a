\* Counterexample run: ValidatorsHaveAccounts.
CONSTANTS
    a1 = a1
    a2 = a2
    k1 = k1
    k2 = k2
    Addrs = {a1, a2}
    Keys = {k1, k2}
    AddrOf <- MCAddrOf
    Balances = {2}
    Powers = {0, 1}
    MaxTxs = 2
    MaxUpdates = 2
    Nil = Nil
    NoAccount = NoAccount
    GenesisAccounts <- MCGenesisAccounts
    GenesisValidators <- MCGenesisValidators
SPECIFICATION Spec
INVARIANT ValidatorsHaveAccounts
\* The run stops once MaxTxs transactions have executed.
CHECK_DEADLOCK FALSE
