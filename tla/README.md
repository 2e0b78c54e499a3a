# TLA+ models of burrow's execution state store

These modules model the ledger state store of burrow (`src/execution/config.go`,
type `State`) together with the pieces it stands on: the key-space prefixer and
its range iterators (`src/unnamed/part_004`, lines 230-458, package `storage`),
and, from the natural-language spec because their code is not in this tree, the
versioned tree `RWTree`, the batching `CacheDB` and the key formats; an
abstract atomic store the state store is shown to refine, and an abstract
sub-store scan every prefixed scan is shown to refine; the account balance
arithmetic (`src/unnamed/part_006`); and the governance transaction
(`src/execution/contexts/governance_context.go`).

## 1. Inventory

### Components

| Component | Source | State it keeps | Operations |
|---|---|---|---|
| State store (`State`, `writeState`) | `src/execution/config.go` 62-492 | `height`, the RWTree, the refs store, the CacheDB, a `sync.RWMutex` | `NewState`, `MakeGenesisState`, `LoadState`, `Update`, `commit`, `UpdateAccount`, `RemoveAccount`, `SetStorage`, `UpdateName`, `RemoveName`, `AddBlock`, `addTx`, readers `GetAccount`, `GetStorage`, `GetName`, `GetTx`, `GetBlock`, `GetBlocks`, `Iterate*`, `Hash`, `Copy` |
| Key-space prefixer and iterators (`storage.Prefix`) | `src/unnamed/part_004` 230-458 | per iterator: `invalid` flag and the underlying iterator | `Key`, `Suffix`, `Above`, `Below`, `Iterator`, `ReverseIterator`, `skipOne`, `validate`, `Valid`, `Next`, `Close`, prefixed `Get/Has/Set/Delete` |
| Versioned tree (`storage.RWTree`, IAVL) | not in this tree (spec 4.2) | working tree, read tree of the last Save, version counter, saved versions | `Get`, `Set`, `Delete`, `Save`, `Load`, `Hash`, `IterateRange` |
| Batched durable cache (`storage.CacheDB`) | not in this tree (spec 2, 4.3) | buffered writes over the physical db | reads through the cache, `Commit(batch)` then `WriteSync` |
| Key formats (`storage.KeyFormat`) | not in this tree (spec 3, 6) | none | `Key`, `Scan`, `Fix`, `Iterator` |
| Accounts (`acm.Account`) | `src/unnamed/part_006` | balance, sequence, code, permissions | `AddToBalance`, `SubtractFromBalance`, `Copy`, `Equal`, `Get` |
| Governance transaction (`GovernanceContext`) | `src/execution/contexts/governance_context.go` | writes accounts and the validator set | `Execute`, `UpdateAccount`, `VerifyIdentity`, `MaybeGetPublicKey` |
| Execution options | `src/execution/config.go` 1-61 | none | `ExecutionOptions` (configuration mapping) |
| RPC HTTP server, CLI start, deploy query helpers, key client, loggers | `src/unnamed/part_000`, `part_004` 1-229, `logging/loggers/shared_test.go` | none of interest | I/O and formatting |
| Tests, Solidity fixtures, shell scripts | the remaining files | - | - |

### How they interact

`State.Update(fn)` takes the write lock, runs the caller's `fn` against the
write view (`writeState`), and, if `fn` returns nil, runs `commit()`:
`tree.Save()` seals the working tree as a new version (its nodes go into the
CacheDB under prefix `m`) and repoints the read tree; the `CommitID{hash,
height, version}` is set in the refs store (prefix `r`, also in the CacheDB);
then the CacheDB is written to the physical db in one synchronous batch.
`AddBlock` writes the block and a tx-hash index into the refs store and advances
`height`.  Readers (`GetAccount`, `GetStorage`, `GetName`, `Iterate*`, `GetTx`,
`GetBlock`, `GetBlocks`) take no lock: tree readers see the read tree, refs
readers see the CacheDB, flushed or not.  `LoadState(hash)` builds a fresh
`State`, resolves the `CommitID` from the durable refs and loads that tree
version.  All tree and refs keys pass through a `Prefix` and a key format.

### What is hard

* Crashes: the process can die between `tree.Save` and `batch.WriteSync`;
  restart reloads by hash, and version numbers lost in the crash are reused.
  It can also die after `WriteSync` and before `Update` returns: the version
  is durable but nobody holds its hash, the restart loads the previous hash,
  and the next `Save` meets a version number already sealed on disk.
* `LoadState` restores the tree version but not `height` (spec 9 leaves this
  open), so the height check of `AddBlock` starts over after a restart.
* A failed `fn` leaves its tree and refs writes pending; the next successful
  `Update` commits them.
* `AddBlock` advances `height` and indexes the transactions before
  `be.Encode()`; when encoding fails the block is missing but the next
  height is accepted (modelled as `AddBlockEncodeFails`; no run isolates
  it, as `BlockLogAppendOnly` is first violated by the restart).
* Concurrency: writers are serialised by the lock, readers are not: a reader
  sees a sealed version before it is durable, and refs readers see unflushed
  blocks.
* Boundaries: `Above`/`Below` byte arithmetic at 0x00/0xFF, the reverse
  iterator's inclusive-start/exclusive-end asymmetry and its `skipOne`.
* Iterators opened by the `Iterate*` readers are never closed on early stop.
* Governance updates: the validator power is set before the account is
  written, and an error between them leaves the two stores disagreeing.
* Balance arithmetic at the uint64 boundary.

### What makes each component correct

* State store: the hash of every acknowledged commit is loadable after any
  crash and reproduces that state; every `CommitID` names a durable version
  with that content; `Hash()`, under the read lock, agrees with the hash the
  last `Update` returned; `Update` returns on every path; blocks are appended in
  height order; committed transactions are found by `GetTx`; a commit seals
  only the writes of its own `Update`.
* Prefixer: `Suffix(Key(k)) = k`; `Above`/`Below` are the nearest bounds;
  forward and reverse iterators yield exactly the prefixed keys of their
  range, in order, and stay invalid once invalid.
* Accounts: balances never wrap; a failed add or subtract leaves them alone.
* Governance: all-or-nothing effect of an account update on state and
  validator set, and an event on the `TxExecution` for every change made.
* Unlocked readers: what a reader or a copy was given is not retracted
  later by a crash.

## 2. Plan and status

1. `StateStore` (done): the store with RWTree and CacheDB, writers, failing
   `fn`s, crashes and `LoadState`; crash consistency, commit index,
   liveness, and the disagreements found.
2. `KeyPrefix` (done): `Above`, `Below`, `Key`, `Suffix` as operators over
   byte strings, checked against reference definitions; the forward and
   reverse prefixed iterators driven by the readers' scan loop over every
   store of up to three keys; the readers' missing `Close`.
3. Unlocked readers (done, inside `StateStore`): what a reader without the
   lock sees during an `Update`.
4. `AtomicStore` + refinement (done): `StateStore` implements an atomic
   store (`INSTANCE ... WITH`, checked in `store_safety`).
5. `AccountBalance` (done): `AddToBalance`/`SubtractFromBalance` with
   wrapping unsigned arithmetic of a small width.
6. `GovernanceTx` (done): `Execute`/`UpdateAccount`/`VerifyIdentity` over
   accounts and the validator set, every error path.
7. Done: `AddBlock`'s encode failure, the point readers and `Copy` in
   `StateStore`; each reader's own iterator range and error checks in
   `KeyPrefix`; `SubStoreScan` + refinement (every scan implements the
   abstract sub-store scan, checked in `prefix_scan`).
8. Done: the crash window between `WriteSync` and `Update`'s return, with
   `RWTree.Save`'s refusal to reseal a version with other contents
   (`SaveFails`); `Hash()` under the read lock (`HashAgreesWithUpdate`).
9. Left: `prefixKVStore` point operations; the executor's rollback of a
   failed GovTx (not in this tree).

## 3. Modules and runs

### StateStore.tla (`src/execution/config.go`)

Variables: `phase` (no state / up / LoadState failed), `pc` per writer
goroutine (`idle`, `locking`, `fn`, `flush`, `return`), `lock` (the write lock holder),
`working` and `readTree` (RWTree working and read trees), `version`, `height`,
`cacheTree`/`cacheRefs` (the CacheDB), `dbTree`/`dbRefs` (the physical db),
`acked` (the hash the last successful `Update` returned, which the consensus
layer keeps), `crashes`, `copies` (the hash of each `Copy` made; a copy lives
in its own database).  Three history variables record what the properties
talk about and are read by no action's guard: `blockReads` (what each
`GetBlocks` call returned), and `ownTree`/`ownRefs`, the tree the lock
holder started from with its own tree writes applied and its own refs
writes (empty when no `Update` holds the lock).

Actions: `MakeGenesisState`; per writer `CallUpdate`, `AcquireLock`
(`s.Lock()`), the write view's `UpdateAccount`, `RemoveAccount`, `SetStorage`,
`UpdateName`, `RemoveName`, `AddBlock`, `AddBlockEncodeFails` (height and
tx index written, then `be.Encode()` fails; what `fn` does with the error is
`fn`'s choice); `FnFails` (fn returns an error, the
deferred unlock); `CommitSave` (`tree.Save`, hash normalisation, `CommitID`
into refs); `SaveFails` (`tree.Save` returns an error: commit and `Update`
return it, fn's writes stay in the working tree); `CommitFlush`
(`cacheDB.Commit(batch)`, `WriteSync`); `ReturnHash` (commit and `Update`
return the hash, the deferred unlock; the caller now has `acked`);
`CrashRestart` (memory lost, `LoadState(acked)`); `Copy` (no lock:
the read tree copied into a fresh State and committed there); `GetBlocks`
(no lock: the blocks of `s.refs`, the CacheDB, over the whole height
range; the consumer's early stop changes nothing of the store).  The point
readers `GetAccount`, `GetStorage` (absent reads as the zero word) and
`GetName` are operators over a tree; `StateReads` is all they can return.
`Hash` is `State.Hash()`: it waits for the write lock to be free
(`HashRLocked`) and returns the IAVL hash of the read tree, the version of
the last `Save` or `Load` (RWTree serves every read from that tree; spec 4.2
says "the currently loaded/working version", and we read it as the loaded
one).  `TreeSaveRefused` is `RWTree.Save` over IAVL's `SaveVersion`, not in
this tree: the next version number is the loaded one plus one, and a number
the database already holds is sealed again only with the same contents.  `AddBlock`'s
rejected case changes nothing and is left to `fn`'s error path.  Hashes are the
tree contents (the empty tree's hash normalised to `ZeroHash`).

Bounds (`MC_StateStore.cfg`): two writers (symmetric), one account, one
storage slot, no name, one value, storage words 0..1, two transactions, blocks of zero
or one transaction, heights 1..2, 3 tree versions, 1 crash, no `Copy` or
`GetBlocks` (2,487,001 states, 167 s; the readers change nothing
`store_safety` checks and are fired by `store_liveness`).  These give every
interleaving of two `Update`s, a failed `fn` followed by a commit, and a crash
at every point of a commit followed by another commit reusing a lost version
number, or, after a crash between `WriteSync` and the return, meeting the
orphaned durable version (`SaveFails`, or the same contents sealed again).
`store_liveness` (`MC_StateStore_Live.cfg`): one name instead of the storage
slot, so `UpdateName`/`RemoveName` run (both at once exceed the time a run
may take), one transaction, height 1, 2 versions, one `Copy` and one
`GetBlocks`: 217,745 states, 63 s.  The reader runs keep the safety bounds
with one `Copy` (`unlocked_tree_readers`) or one `GetBlocks`
(`unlocked_refs_readers`).

| Run (cfg) | Expect | Properties | Shows |
|---|---|---|---|
| `store_safety` (`MC_StateStore.cfg`) | pass | `TypeOK`, `RecoverableAcked`, `CommitIndexSound`, `HashAgreesWithUpdate`, `AtomicStoreSpec` | a crash at any step leaves the acknowledged state loadable by its hash, with `GetAccount`/`GetStorage`/`GetName` answering as before (spec 8, hash addressability); every stored `CommitID` names the version with that content, also the orphaned one a crash after `WriteSync` leaves (IAVL refuses to reseal it with other contents; a tree that overwrote it breaks this); `Hash()` never reports a version no `Update` has returned; the store refines `AtomicStore` |
| `store_liveness` (`MC_StateStore_Live.cfg`) | pass | `UpdateReturns` | every `Update` returns, on the error path too (fairness: weak on fn/commit, strong on lock acquisition) |
| `height_after_restart` (`MC_StateStore_Height.cfg`) | violation | `BlockLogAppendOnly` | after `LoadState` the height is 0 and `AddBlock` accepts a block at an old height, replacing a committed block |
| `gettx_lookup` (`MC_StateStore_GetTx.cfg`) | violation | `GetTxFindsCommittedTx` | `GetTx`/`GetBlock` read the tree, but `AddBlock` writes the refs store: nothing is ever found |
| `failed_update_leaks` (`MC_StateStore_Leak.cfg`) | violation | `SealsOwnWrites` | a failed `fn`'s account write stays in the working tree; the next `Update` acquires the lock and its commit seals that write with its own (spec 4.3 expects it overwritten) |
| `unlocked_tree_readers` (`MC_StateStore_Readers.cfg`) | violation | `CopiesNeverRetracted` | `Copy`, like the tree readers, reads the read tree `Save` repointed before `WriteSync`; a crash then retracts the state the copy holds |
| `unlocked_refs_readers` (`MC_StateStore_GetBlocks.cfg`) | violation | `BlockReadsNeverRetracted` | `GetBlocks` reads `s.refs` through the CacheDB and returns a block `AddBlock` wrote inside an `Update` still in `fn`; a crash then removes it |

Fairness: `Update`'s `fn` and `commit` run on the calling goroutine and end
(weak fairness); Go's `sync.Mutex` hands the lock to a goroutine that has
waited over 1ms (starvation mode), which justifies strong fairness on lock
acquisition.  Crashes and calls to `Update` are not fair.

### AtomicStore.tla (refinement)

The promise of spec 4.3 as a store of three variables: `status`, `current`
(the state the next commit seals) and `durable` (the last committed state),
with `MakeGenesis`, `Write` (one key), `Commit` (one step) and `Crash`
(`current` back to `durable`).  `StateStore` defines
`Atomic == INSTANCE AtomicStore WITH current <- working, durable <- the tree of
acked, ...`; `store_safety` checks `AtomicStoreSpec == Atomic!Spec`.
`CommitSave`, `SaveFails` and `CommitFlush` are stuttering steps of the
abstract store, `ReturnHash` its `Commit`, `CrashRestart` its `Crash`, and a failed `fn`'s writes are
`Write`s that the next commit includes.  The mutant that hands back the
hash at `Save` instead of after `WriteSync` breaks the refinement.

### KeyPrefix.tla (`src/unnamed/part_004` 239-458, readers of `config.go`)

Byte strings are sequences over `0..MaxByte` (`MaxByte` is 0xFF).  `Key`,
`Suffix`, `AboveFrom`/`Above`, `BelowFrom`/`Below` (the backward byte scans,
as `RECURSIVE` operators), `SkipOne`, `Iterator`, `ReverseIterator` and
`Validate` translate the code; the physical iterators (tm-db, not in this
tree) are their contract: forward over `[start, end)` ascending, reverse over
`(end, start]` descending, nil bounds unbounded.  One behaviour is one
reader scan: `Init` opens the iterator over a store `db` for a prefix and
bounds; `LoopValid` is the `for it.Valid()` head, `ConsumerNext` a consumer
that continues and `it.Next()`, `ConsumerStops` and `DecodeFails` the two
early returns.  `reader` says whose loop it is: `IterateAccounts`,
`IterateStorage`, `IterateNames` (forward, nil bounds), `GetBlocks` (forward,
the suffixes of two heights), or a caller of `prefixKVStore`'s `Iterator` /
`ReverseIterator` (any bounds); `Opens*` are their iterator calls.  Decode
errors end the four State readers; `StorageKeyWidthFails` is
`IterateStorage`'s check that a key is `WordLen` bytes.  `Expected` is the
reference: the sub-store's keys in the range, in order, computed directly
from `db`.

`SubStoreScan.tla` is what a scan promises: the range is fixed at open, its
keys are handed over one at a time in order (`Hand`), the reader may return
early (`Stop`, right after a key or not) and the scan ends (`End`) only once
all of them were handed over.  `KeyPrefix` maps `range <- Expected`,
`handed <- yielded`, `status` from `rpc` and `stopped`, and `prefix_scan`
checks `SubStoreScanSpec == Scan!Spec`.  `LoopValid` into the body is a
stuttering step, `ConsumerNext` a `Hand`, `ConsumerStops`, `DecodeFails`
and `StorageKeyWidthFails` a `Stop`, `LoopValid` out of the loop an `End`.

Bounds (`MC_KeyPrefix.cfg`): bytes 0..1, keys of up to 3 bytes, every store
of up to 3 keys, prefixes `[1] [0,0] [0,1] [1,0] [1,1]` (all-0xFF,
all-0x00 and mixed endings), bounds nil, `[]`, `[0]`, `[1]`, every reader,
`WordLen = 1`: 347,732 states, 16 s.  With one bit per byte every boundary case
(carry through 0xFF, borrow through 0x00, `Above` present in the store,
foreign keys on both sides) occurs.  A scan ends when the reader returns,
so the runs do not check deadlock.

| Run (cfg) | Expect | Properties | Shows |
|---|---|---|---|
| `prefix_scan` (`MC_KeyPrefix.cfg`) | pass | `SourceReleasedOnce`, `AboveIsMinimal`, `SubStoreScanSpec` | every reader's scan refines `SubStoreScan` (the sub-store's range, in order, all of it when the scan ends); the source is closed at most once; `Above` is the least upper bound |
| `reader_iterator_leak` (`MC_KeyPrefix_IteratorReleasedOnReturn.cfg`) | violation | `IteratorReleasedOnReturn` | the four State readers (`IterateAccounts`, `IterateStorage`, `IterateNames`, `GetBlocks`), which open their iterator and hand it to no one, return early without `it.Close()` |

`Below` is not the nearest lower bound spec 8 describes: `Below([1,0]) =
[0]` though `[1]` lies between it and the sub-store.  Reverse scans stay
correct (`validate` stops at the first foreign key, `SubStoreScanSpec`
holds), so no run is spent on it.

### AccountBalance.tla (`src/unnamed/part_006` 47-63)

`balance` is `Width` bits; `AddU`/`SubU` are Go's wrapping `+`/`-`;
`IsUint64SumOverflow` is `MaxUint - a < b`.  `Next` calls either operation
with any amount; `last` records the call.  `balance_arithmetic`
(`MC_AccountBalance.cfg`, `Width = 3`, 136 states) checks
`BalanceArithmeticExact`: a call fails exactly when the unbounded result
leaves `0..MaxUint`, and otherwise stores it.

### GovernanceTx.tla (`src/execution/contexts/governance_context.go`)

Variables: `accounts` (the state writer: balance, public key, Root bit),
`validators` (key -> power), `txpc`, `updates`, `txs`, `events` (the
`GovernAccount` events on the `TxExecution`).  `RejectTx`/`StartTx` are the
`getInputs`/`allHavePermission(Root)` head of `Execute`; an iteration of
the update loop is `IdentityRejected` (`VerifyIdentity` errs),
`OutputRefused` (`getOrMakeOutput` must create the account and an input
lacks CreateAccount; inputs' permissions besides Root are not kept, so
either outcome may happen) or `ApplyUpdate` (`getOrMakeOutput`,
`UpdateAccount` with `SetPower` and `StateWriter.UpdateAccount` each
succeeding or failing, the event, the return on error); `EndTx` the loop's
end.  Templates range over every
combination of address, key, native balance, power and permission list
(none, Root, non-Root, unparsable).  Code and roles are written without any
check that can fail and are left out.  `getInputs`, `allHavePermission`,
`getOrMakeOutput` and `SetPower` are not in this tree and are modelled from
their call sites (`SetPower` may fail).

Bounds (`MC_GovernanceTx.cfg`): accounts `a1` (Root, key `k1`, validator)
and `a2` (absent), keys `k1`, `k2`, two GovTxs of up to two updates each:
290,577 states, 57 s.

| Run (cfg) | Expect | Properties | Shows |
|---|---|---|---|
| `govern_audit` (`MC_GovernanceTx.cfg`) | pass | `ValidatorChangesAudited` | every step that changes a validator's power or an account records exactly one `GovernAccount` event naming that key and address, also when `UpdateAccount` fails after `SetPower` |
| `govern_partial_update` (`MC_GovernanceTx_Validators.cfg`) | violation | `ValidatorsHaveAccounts` | `SetPower` runs before the permissions are parsed and the account written: an unparsable list or a failed state write leaves a powered validator with no account |

`UpdateAccount` never writes the account's `PublicKey`: an account it
creates for a new validator has no key in state.

## 4. Not modelled, and why

* Codec errors: `AddBlock`'s `be.Encode()` failure and the readers' decode
  failures are modelled; the write view's `Encode` of an account or name
  entry fails before anything is written and is `fn`'s error path
  (`FnFails`).  `commit`'s `MarshalBinary` of a `CommitID` (lines 273-276)
  would fail after `tree.Save` (259) has sealed and repointed the tree,
  leaving a sealed version with no `CommitID`; amino cannot fail on that
  struct of a byte slice and two integers, so it is not modelled.
* The shared tag `"b"` of `txKeyFormat` and `blockRefKeyFormat`: a tx key
  lands in a `GetBlocks` range only when the first 8 bytes of its hash read
  as a height in that range (probability (end-start)/2^64 for a hash);
  a byte model with one-byte heights would make it routine, so it is a
  hazard without a run.
* After a crash between `WriteSync` and `Update`'s return, only a commit of
  the same contents as the orphaned version can succeed (consensus replaying
  the same block does this); the replay itself is outside this tree, and the
  model lets `fn` write anything, so `SaveFails` can repeat.
* `Hash()` returns IAVL's empty hash for an empty tree, where `commit`
  returned 32 zero bytes; `HashAgreesWithUpdate` compares IAVL hashes of the
  two trees, so it does not speak to that normalisation.
* Whether the executor discards a failed GovTx's state and validator caches
  is outside this tree; `GovernanceTx` keeps what the code wrote.
* `prefixKVStore` Get/Has/Set/Delete only compose `Key` with the backend;
  the scans start from every backend content instead of building it.
* Execution options, the RPC server, CLI, deploy helpers, key client and
  loggers are configuration, I/O or formatting.
