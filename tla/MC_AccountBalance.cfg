\* Balances of 3 bits: every sum and difference at the wrap-around edge.
CONSTANT Width = 3
SPECIFICATION Spec
INVARIANT BalanceArithmeticExact
