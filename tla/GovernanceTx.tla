---------------------------- MODULE GovernanceTx ----------------------------
(***************************************************************************)
(* GovernanceContext.Execute of a GovTx                                    *)
(* (src/execution/contexts/governance_context.go): the inputs must exist   *)
(* and hold the Root permission; then every account update of the tx is    *)
(* run in order (VerifyIdentity, getOrMakeOutput, UpdateAccount), each     *)
(* writing the validator set and the account state, and the first error   *)
(* returns at once.                                                        *)
(*                                                                         *)
(* Accounts keep the fields the code reads or writes: balance, public key, *)
(* and the Root bit of their base permissions.  Code and roles are set     *)
(* without any check that can fail and are left out.  A permission list   *)
(* is "none" (empty: kept), one parsing to a Root or a non-Root base, or   *)
(* "unparsable".  Update lists are read one entry per loop iteration, so   *)
(* each iteration chooses its template.                                    *)
(***************************************************************************)
EXTENDS Naturals, Sequences, FiniteSets

CONSTANTS
    Addrs,       \* account addresses
    Keys,        \* public keys
    AddrOf,      \* PublicKey.GetAddress, a function Keys -> Addrs
    Balances,    \* native balances a template may set
    Powers,      \* validator powers a template may set (0 removes)
    MaxTxs,      \* GovTxs executed in a behaviour
    MaxUpdates,  \* account updates of one GovTx
    Nil,         \* an absent template field (nil pointer)
    NoAccount    \* GetAccount returned nil

Perms == {"none", "root", "nonroot", "unparsable"}

Account == [balance : Balances \cup {0}, publicKey : Keys \cup {Nil}, root : BOOLEAN]

Template == [address : Addrs \cup {Nil}, publicKey : Keys \cup {Nil},
             native : Balances \cup {Nil}, power : Powers \cup {Nil},
             permissions : Perms]

VARIABLES
    accounts,    \* StateWriter: address -> account or NoAccount
    validators,  \* ValidatorSet: key -> power
    txpc,        \* "idle" or "loop" (inside the AccountUpdates loop)
    updates,     \* iterations of the loop done in the current tx
    txs,         \* GovTxs executed
    events       \* GovernAccount events recorded on the TxExecution

vars == <<accounts, validators, txpc, updates, txs, events>>

(***************************************************************************)
(* MaybeGetPublicKey: the key of the account in state, if it has one.     *)
(***************************************************************************)
MaybeGetPublicKey(a) ==
    IF accounts[a] # NoAccount /\ accounts[a].publicKey # Nil
    THEN accounts[a].publicKey ELSE Nil

(***************************************************************************)
(* VerifyIdentity: fills in the key from state and the address from the   *)
(* key; returns the error, if any, and the completed template.            *)
(***************************************************************************)
VerifyIdentity(t) ==
    IF t.address = Nil /\ t.publicKey = Nil THEN [err |-> "identity", tmpl |-> t]
    ELSE
      LET key == IF t.publicKey = Nil THEN MaybeGetPublicKey(t.address) ELSE t.publicKey
      IN IF key # Nil
         THEN IF t.address # Nil /\ AddrOf[key] # t.address
              THEN [err |-> "mismatch", tmpl |-> [t EXCEPT !.publicKey = key]]
              ELSE [err |-> "none",
                    tmpl |-> [t EXCEPT !.publicKey = key, !.address = AddrOf[key]]]
         ELSE IF t.power # Nil
              THEN [err |-> "needkey", tmpl |-> t]
              ELSE [err |-> "none", tmpl |-> t]

\* getOrMakeOutput: the account in state, or a fresh one with no key,
\* zero balance and no permissions.
GetOrMakeOutput(a) ==
    IF accounts[a] # NoAccount THEN accounts[a]
    ELSE [balance |-> 0, publicKey |-> Nil, root |-> FALSE]

(***************************************************************************)
(* GovernanceContext.UpdateAccount on account acc with the verified        *)
(* template t; powerFails is the outcome of ValidatorSet.SetPower and      *)
(* writeFails that of StateWriter.UpdateAccount (line 110).  Returns the   *)
(* error and the new validator set and account state.                      *)
(***************************************************************************)
UpdateAccount(acc, t, powerFails, writeFails) ==
    LET withBalance == IF t.native # Nil THEN [acc EXCEPT !.balance = t.native] ELSE acc
        vals == IF t.power # Nil /\ t.publicKey # Nil /\ ~powerFails
                THEN [validators EXCEPT ![t.publicKey] = t.power]
                ELSE validators
        perms == CASE t.permissions = "root" -> TRUE
                   [] t.permissions = "nonroot" -> FALSE
                   [] OTHER -> acc.root
    IN CASE t.power # Nil /\ t.publicKey = Nil ->
              [err |-> "nokey", validators |-> validators, accounts |-> accounts]
         [] t.power # Nil /\ powerFails ->
              [err |-> "power", validators |-> validators, accounts |-> accounts]
         [] t.permissions = "unparsable" ->
              [err |-> "perms", validators |-> vals, accounts |-> accounts]
         [] writeFails ->
              [err |-> "write", validators |-> vals, accounts |-> accounts]
         [] OTHER ->
              [err |-> "none", validators |-> vals,
               accounts |-> [accounts EXCEPT ![t.address] = [withBalance EXCEPT !.root = perms]]]

-----------------------------------------------------------------------------
CONSTANTS
    GenesisAccounts,    \* the state the chain starts from
    GenesisValidators

Init ==
    /\ accounts = GenesisAccounts
    /\ validators = GenesisValidators
    /\ txpc = "idle"
    /\ updates = 0
    /\ txs = 0
    /\ events = <<>>

\* getInputs finds the input account and allHavePermission finds Root in it.
InputAuthorised(a) == accounts[a] # NoAccount /\ accounts[a].root

\* getInputs and allHavePermission(Root) at the head of Execute: a GovTx
\* whose input account is missing or lacks Root returns an error and
\* changes nothing.
RejectTx ==
    /\ txpc = "idle"
    /\ txs < MaxTxs
    /\ \E in \in Addrs : ~InputAuthorised(in)
    /\ txs' = txs + 1
    /\ UNCHANGED <<accounts, validators, txpc, updates, events>>

StartTx ==
    /\ txpc = "idle"
    /\ txs < MaxTxs
    /\ \E in \in Addrs : InputAuthorised(in)
    /\ txpc' = "loop"
    /\ updates' = 0
    /\ txs' = txs + 1
    /\ UNCHANGED <<accounts, validators, events>>

\* An iteration of "for _, update := range ctx.tx.AccountUpdates" that
\* returns before UpdateAccount: VerifyIdentity fails, or getOrMakeOutput
\* must create the account and an input lacks CreateAccount (inputs'
\* permissions other than Root are not kept: either outcome may happen).
IdentityRejected ==
    /\ txpc = "loop"
    /\ updates < MaxUpdates
    /\ \E t \in Template : VerifyIdentity(t).err # "none"
    /\ txpc' = "idle"
    /\ UNCHANGED <<accounts, validators, updates, txs, events>>

OutputRefused ==
    /\ txpc = "loop"
    /\ updates < MaxUpdates
    /\ \E t \in Template :
         LET v == VerifyIdentity(t)
         IN v.err = "none" /\ accounts[v.tmpl.address] = NoAccount
    /\ txpc' = "idle"
    /\ UNCHANGED <<accounts, validators, updates, txs, events>>

\* The GovernAccount event of an update: the template as VerifyIdentity
\* completed it and the exception UpdateAccount returned.
GovernEvent(t, v, r) ==
    [asked |-> t.address, address |-> v.tmpl.address,
     publicKey |-> v.tmpl.publicKey, exception |-> r.err]

\* Mutant: an update that fails records no event.
ApplyUpdateNoErrorEvent ==
    /\ txpc = "loop"
    /\ updates < MaxUpdates
    /\ \E t \in Template :
         LET v == VerifyIdentity(t)
         IN /\ v.err = "none"
            /\ \E powerFails \in IF v.tmpl.power # Nil THEN BOOLEAN ELSE {FALSE},
                 writeFails \in BOOLEAN :
                 LET r == UpdateAccount(GetOrMakeOutput(v.tmpl.address), v.tmpl,
                                        powerFails, writeFails)
                 IN /\ accounts' = r.accounts
                    /\ validators' = r.validators
                    /\ events' = IF r.err = "none" THEN Append(events, GovernEvent(t, v, r))
                                  ELSE events
                    /\ txpc' = IF r.err = "none" THEN "loop" ELSE "idle"
                    /\ updates' = updates + 1
    /\ UNCHANGED txs

\* The rest of the iteration: getOrMakeOutput returns the account (or a
\* fresh one), UpdateAccount runs, txe.GovernAccount records its event,
\* with the exception if it failed, and the error, if any, returns.
ApplyUpdate ==
    /\ txpc = "loop"
    /\ updates < MaxUpdates
    /\ \E t \in Template :
         LET v == VerifyIdentity(t)
         IN /\ v.err = "none"
            /\ \E powerFails \in IF v.tmpl.power # Nil THEN BOOLEAN ELSE {FALSE},
                 writeFails \in BOOLEAN :
                 LET r == UpdateAccount(GetOrMakeOutput(v.tmpl.address), v.tmpl,
                                        powerFails, writeFails)
                 IN /\ accounts' = r.accounts
                    /\ validators' = r.validators
                    /\ events' = Append(events, GovernEvent(t, v, r))
                    /\ txpc' = IF r.err = "none" THEN "loop" ELSE "idle"
                    /\ updates' = updates + 1
    /\ UNCHANGED txs

\* The loop ran out of updates: Execute returns nil.
EndTx ==
    /\ txpc = "loop"
    /\ txpc' = "idle"
    /\ UNCHANGED <<accounts, validators, updates, txs, events>>

Next == RejectTx \/ StartTx \/ IdentityRejected \/ OutputRefused \/ ApplyUpdate \/ EndTx

Spec == Init /\ [][Next]_vars

-----------------------------------------------------------------------------
\* The GovernAccount events are an audit trail of the chain state GovTxs
\* change: every step that changes a validator's power or an account
\* records exactly one event, naming that key and that address, also when
\* UpdateAccount fails after SetPower (permission parse, state write) and
\* returns with the validator set changed.
ValidatorChangesAudited ==
    [][ (validators' # validators \/ accounts' # accounts) =>
          /\ Len(events') = Len(events) + 1
          /\ \A k \in Keys : validators'[k] # validators[k] => events'[Len(events')].publicKey = k
          /\ \A a \in Addrs : accounts'[a] # accounts[a] => events'[Len(events')].address = a
      ]_vars

\* Every key the validator set gives power to belongs to an account in
\* state: the validator and its account are updated together.
ValidatorsHaveAccounts ==
    \A k \in Keys : validators[k] > 0 => accounts[AddrOf[k]] # NoAccount

=============================================================================
