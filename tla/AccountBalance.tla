--------------------------- MODULE AccountBalance ---------------------------
(***************************************************************************)
(* Account.AddToBalance and Account.SubtractFromBalance                   *)
(* (src/unnamed/part_006) on a balance of Width bits (uint64 in the code). *)
(* Go's uint64 arithmetic wraps, so the model computes it % 2^Width; the   *)
(* overflow check binary.IsUint64SumOverflow (not in this tree) is         *)
(* MaxUint - a < b.                                                        *)
(***************************************************************************)
EXTENDS Naturals

CONSTANT Width

MaxUint == 2^Width - 1
Uint == 0..MaxUint

\* Go's + and - on uint64.
AddU(a, b) == (a + b) % 2^Width
SubU(a, b) == (a - b + 2^Width) % 2^Width

IsUint64SumOverflow(a, b) == MaxUint - a < b

VARIABLES
    balance,  \* acc.Balance
    last      \* the last call: operation, amount, balance before, error

vars == <<balance, last>>

Init ==
    /\ balance \in Uint
    /\ last = [op |-> "none", amount |-> 0, before |-> balance, err |-> FALSE]

AddToBalance(amount) ==
    /\ balance' = IF IsUint64SumOverflow(balance, amount) THEN balance
                  ELSE AddU(balance, amount)
    /\ last' = [op |-> "add", amount |-> amount, before |-> balance,
                err |-> IsUint64SumOverflow(balance, amount)]

\* Mutant: "amount >= acc.Balance" for the insufficient-funds test.
SubtractFromBalanceOffByOne(amount) ==
    /\ balance' = IF amount >= balance THEN balance ELSE SubU(balance, amount)
    /\ last' = [op |-> "sub", amount |-> amount, before |-> balance,
                err |-> amount >= balance]

SubtractFromBalance(amount) ==
    /\ balance' = IF amount > balance THEN balance ELSE SubU(balance, amount)
    /\ last' = [op |-> "sub", amount |-> amount, before |-> balance,
                err |-> amount > balance]

Next == \E amount \in Uint : AddToBalance(amount) \/ SubtractFromBalance(amount)

Spec == Init /\ [][Next]_vars

-----------------------------------------------------------------------------
\* The balance arithmetic is exact: a call fails exactly when the true
\* (unbounded) result leaves 0..MaxUint, a failed call leaves the balance
\* as it was, and a successful one stores the true result, never a value
\* wrapped round at 2^64.
BalanceArithmeticExact ==
    LET exact == IF last.op = "add" THEN last.before + last.amount
                ELSE last.before - last.amount
    IN last.op # "none" =>
         IF exact \in Uint THEN ~last.err /\ balance = exact
         ELSE last.err /\ balance = last.before
=============================================================================
