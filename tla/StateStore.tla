----------------------------- MODULE StateStore -----------------------------
(***************************************************************************)
(* The execution state store of src/execution/config.go: type State, its  *)
(* write view writeState, State.Update, writeState.commit, AddBlock,      *)
(* MakeGenesisState and LoadState.                                          *)
(*                                                                         *)
(* The physical backend is split into the durable database (dbTree for    *)
(* the versioned tree's sealed versions under prefix "m", dbRefs for the  *)
(* reference space under prefix "r") and the CacheDB in front of it       *)
(* (cacheTree, cacheRefs), which commit() flushes in one synchronous batch.*)
(* The RWTree (not under src/) keeps a working tree, the read tree of the *)
(* last Save and a version counter.  Payloads are opaque model values;    *)
(* the content hash of a tree is the tree itself, so equal contents share *)
(* a hash, which the spec allows.                                         *)
(*                                                                         *)
(* Writers are goroutines calling State.Update; the caller-supplied fn is *)
(* any sequence of write-view calls ending in success or an error.  The   *)
(* process may crash at any step; a restart runs LoadState with the last  *)
(* hash Update returned (acked), the hash the consensus layer recorded.   *)
(***************************************************************************)
EXTENDS Naturals, Sequences, FiniteSets, TLC

CONSTANTS
    Writers,                   \* goroutines calling State.Update
    Addr,                      \* account addresses
    Words,                     \* storage slot keys (binary.Word256)
    Names,                     \* name registry names
    Vals,                      \* encoded accounts and name entries
    MaxWord,                   \* storage values are 0..MaxWord; 0 is binary.Zero256
    Txs,                       \* transaction hashes
    BlockTxLists,              \* the TxExecutions lists a block may carry
    MaxHeight,                 \* bound on block heights
    MaxVersion,                \* bound on tree versions (successful Saves)
    MaxCrashes,                \* bound on process crashes
    MaxCopies,                 \* bound on State.Copy calls
    MaxGetBlocks,              \* bound on State.GetBlocks calls
    GenesisAddrs,              \* addresses of GenesisDoc.Accounts
    GlobalPermissionsAddress,  \* acm.GlobalPermissionsAddress (the zero address)
    GenesisVal, PermsVal,      \* encoded genesis account and global permissions account
    NoValue, NoWriter, NoHash, ZeroHash

ASSUME GenesisAddrs \subseteq Addr /\ GlobalPermissionsAddress \in Addr
ASSUME {GenesisVal, PermsVal} \subseteq Vals
ASSUME BlockTxLists \subseteq Seq(Txs)

VARIABLES
    phase,      \* "none": no state yet; "up": State loaded; "failed": LoadState failed
    pc,         \* pc[w]: where writer w is in State.Update
    lock,       \* holder of State's sync.RWMutex write lock
    working,    \* RWTree working (mutable) tree
    readTree,   \* RWTree read tree: the tree of the last Save or Load
    version,    \* RWTree version of the last Save or Load
    height,     \* State.height
    cacheTree,  \* tree versions saved into the CacheDB, not yet flushed
    cacheRefs,  \* reference-space writes held in the CacheDB
    dbTree,     \* durable tree versions: version -> tree
    dbRefs,     \* durable reference space: key -> value
    acked,      \* hash returned by the last successful commit
    crashes,
    copies,     \* hash of each State.Copy made, in order (each in its own database)
    blockReads, \* what each State.GetBlocks call returned: height -> block
    ownTree,    \* history: the read tree plus the lock holder's own tree writes
    ownRefs     \* history: the lock holder's own reference-space writes

\* What the unlocked readers returned, and the writes of the Update holding
\* the lock (<<>> when none does); neither is read by any action's guard.
reads == <<copies, blockReads>>
own == <<ownTree, ownRefs>>

vars == <<phase, pc, lock, working, readTree, version, height,
          cacheTree, cacheRefs, dbTree, dbRefs, acked, crashes, copies,
          blockReads, ownTree, ownRefs>>

-----------------------------------------------------------------------------
(* Key formats: accountKeyFormat "a", storageKeyFormat "s", nameKeyFormat *)
(* "n" in the tree; blockRefKeyFormat "b", txKeyFormat and commitKeyFormat*)
(* "x" in the refs.  txKeyFormat's tag is "b" too, but its keys are 33     *)
(* bytes long and block keys 9, so the two never coincide: "t" here.       *)
AccountKey(a)    == <<"a", a>>
StorageKey(a, k) == <<"s", a, k>>
NameKey(n)       == <<"n", n>>
BlockRefKey(h)   == <<"b", h>>
TxKey(t)         == <<"t", t>>
CommitKey(hash)  == <<"x", hash>>

TreeKeys == {AccountKey(a) : a \in Addr} \cup {NameKey(n) : n \in Names}
              \cup {StorageKey(a, k) : a \in Addr, k \in Words}

\* Values a key of the tree can hold: Zero256 is never stored (SetStorage deletes).
ValuesFor(key) == IF key[1] = "s" THEN 1..MaxWord ELSE Vals

EmptyTree == [key \in TreeKeys |-> NoValue]
NoRefs == <<>>

\* storage.RWTree.Get: absent keys, including any key outside the tree's key formats.
TreeGet(tree, key) == IF key \in DOMAIN tree THEN tree[key] ELSE NoValue

\* IAVL's hash of a tree: empty for the empty tree.
IAVLHash(tree) == IF tree = EmptyTree THEN <<>> ELSE tree

\* commit(): the empty hash normalised to tmhash.Size zero bytes.
SealedHash(tree) == IF IAVLHash(tree) = <<>> THEN ZeroHash ELSE IAVLHash(tree)

\* The tree a hash names (hashes are tree contents, ZeroHash the empty tree).
TreeOfHash(hash) == IF hash = ZeroHash THEN EmptyTree ELSE hash

\* commit(): CommitID{hash, height, version} stored under commitKeyFormat.
CommitRef(tree, ver, ht) ==
    CommitKey(SealedHash(tree)) :> [hash |-> SealedHash(tree), height |-> ht, version |-> ver]

\* writeState.addTx for every TxExecution: tx hash -> (height, index).
LastIndexOf(txs, t) == CHOOSE i \in DOMAIN txs : txs[i] = t /\ \A j \in DOMAIN txs : txs[j] = t => j <= i
TxRefs(h, txs) ==
    [key \in {TxKey(txs[i]) : i \in DOMAIN txs} |-> <<h, LastIndexOf(txs, key[2]) - 1>>]

\* AddBlock's reference writes: the tx index, then the block under its height.
BlockRefs(h, txs) == (BlockRefKey(h) :> [height |-> h, txs |-> txs]) @@ TxRefs(h, txs)

\* The tree MakeGenesisState writes: every genesis account, then the global
\* permissions account at the zero address.
GenesisTree ==
    [key \in TreeKeys |->
        IF key = AccountKey(GlobalPermissionsAddress) THEN PermsVal
        ELSE IF key \in {AccountKey(a) : a \in GenesisAddrs} THEN GenesisVal
        ELSE NoValue]

\* LoadState(db, hash) over the durable database.
LoadStateResult(hash) ==
    IF CommitKey(hash) \notin DOMAIN dbRefs
    THEN [ok |-> FALSE]
    ELSE LET cid == dbRefs[CommitKey(hash)] IN
         IF cid.version <= 0 \/ cid.version \notin DOMAIN dbTree
         THEN [ok |-> FALSE]
         ELSE [ok |-> TRUE, version |-> cid.version, tree |-> dbTree[cid.version]]

\* RWTree.Save over IAVL's SaveVersion: the new version is the loaded one
\* plus one; a version number the database already holds is sealed again
\* only with the same contents, and refused otherwise.
TreeSaveRefused(ver, tree) == ver \in DOMAIN dbTree /\ dbTree[ver] # tree

\* The point readers over the tree a State reads (s.tree's read tree).
\* GetAccount and GetName: nil when the key is absent.
GetAccount(tree, a) == TreeGet(tree, AccountKey(a))

GetName(tree, n) == TreeGet(tree, NameKey(n))

\* GetStorage: LeftPadWord256 of an absent value is the zero word.
GetStorage(tree, a, k) ==
    IF TreeGet(tree, StorageKey(a, k)) = NoValue THEN 0 ELSE TreeGet(tree, StorageKey(a, k))

\* Everything the point readers can return for a tree.
StateReads(tree) ==
    [account |-> [a \in Addr |-> GetAccount(tree, a)],
     storage |-> [a \in Addr |-> [k \in Words |-> GetStorage(tree, a, k)]],
     name    |-> [n \in Names |-> GetName(tree, n)]]

\* State.Hash(): s.RLock(), then the tree's hash, that of the version of its
\* last Save or Load (IAVL's empty hash for the empty tree: not normalised).
HashRLocked == lock = NoWriter

Hash == IAVLHash(readTree)

\* State.GetBlock: reads blockRefKeyFormat from the tree (nil when absent).
\* s.refs: the reference space read through the CacheDB, flushed or not.
RefsView == cacheRefs @@ dbRefs

\* Heights of the blocks in a reference space.
BlockHeights(refs) == {key[2] : key \in {k \in DOMAIN refs : k[1] = "b"}}

\* What GetBlocks over every height yields from a reference space.
BlockLog(refs) == [h \in BlockHeights(refs) |-> refs[BlockRefKey(h)]]

GetBlock(h) == TreeGet(readTree, BlockRefKey(h))

\* State.GetTx: reads txKeyFormat from the tree, then the block at the height
\* found; an index beyond the block's TxExecutions is an error.
GetTx(t) ==
    LET ref == TreeGet(readTree, TxKey(t)) IN
    IF ref = NoValue THEN NoValue
    ELSE LET be == GetBlock(ref[1]) IN
         IF be = NoValue THEN "panic"
         ELSE IF ref[2] < Len(be.txs) THEN be.txs[ref[2] + 1] ELSE "error"

-----------------------------------------------------------------------------
Init ==
    /\ phase = "none"
    /\ pc = [w \in Writers |-> "idle"]
    /\ lock = NoWriter
    /\ working = EmptyTree
    /\ readTree = EmptyTree
    /\ version = 0
    /\ height = 0
    /\ cacheTree = NoRefs
    /\ cacheRefs = NoRefs
    /\ dbTree = NoRefs
    /\ dbRefs = NoRefs
    /\ acked = NoHash
    /\ crashes = 0
    /\ copies = <<>>
    /\ blockReads = <<>>
    /\ ownTree = <<>>
    /\ ownRefs = <<>>

\* MakeGenesisState: NewState, UpdateAccount for every genesis account and the
\* global permissions account, then commit().  Nothing else holds the State yet,
\* and a crash before its flush leaves the database as it was: one step.
MakeGenesisState ==
    /\ phase = "none"
    /\ version < MaxVersion
    /\ LET v == version + 1 IN
       /\ phase' = "up"
       /\ working' = GenesisTree
       /\ readTree' = GenesisTree
       /\ version' = v
       /\ dbTree' = (v :> GenesisTree) @@ dbTree
       /\ dbRefs' = CommitRef(GenesisTree, v, height) @@ dbRefs
       /\ acked' = SealedHash(GenesisTree)
    /\ UNCHANGED <<reads, own, pc, lock, height, cacheTree, cacheRefs, crashes>>

\* A goroutine calls State.Update(fn).
CallUpdate(w) ==
    /\ phase = "up"
    /\ pc[w] = "idle"
    /\ pc' = [pc EXCEPT ![w] = "locking"]
    /\ UNCHANGED <<reads, own, phase, lock, working, readTree, version, height,
                   cacheTree, cacheRefs, dbTree, dbRefs, acked, crashes>>

\* s.Lock()
AcquireLock(w) ==
    /\ pc[w] = "locking"
    /\ lock = NoWriter
    /\ lock' = w
    /\ pc' = [pc EXCEPT ![w] = "fn"]
    /\ ownTree' = readTree
    /\ ownRefs' = NoRefs
    /\ UNCHANGED <<reads, phase, working, readTree, version, height,
                   cacheTree, cacheRefs, dbTree, dbRefs, acked, crashes>>

InFn(w) == pc[w] = "fn"

\* The Update holding the lock has returned: no writes are its own any more.
EndOwn == ownTree' = <<>> /\ ownRefs' = <<>>

TreeWrite(w, key, val) ==
    /\ InFn(w)
    /\ working' = [working EXCEPT ![key] = val]
    /\ ownTree' = [ownTree EXCEPT ![key] = val]
    /\ UNCHANGED <<reads, ownRefs, phase, pc, lock, readTree, version, height,
                   cacheTree, cacheRefs, dbTree, dbRefs, acked, crashes>>

UpdateAccount(w, a, val) == TreeWrite(w, AccountKey(a), val)

RemoveAccount(w, a) == TreeWrite(w, AccountKey(a), NoValue)

\* Mutant: the zero word is written instead of deleting the key.
SetStorageKeepsZero(w, a, k, x) == TreeWrite(w, StorageKey(a, k), x)

SetStorage(w, a, k, x) ==
    TreeWrite(w, StorageKey(a, k), IF x = 0 THEN NoValue ELSE x)

UpdateName(w, n, val) == TreeWrite(w, NameKey(n), val)

RemoveName(w, n) == TreeWrite(w, NameKey(n), NoValue)

\* writeState.AddBlock: the height check, then height, the tx index and the block.
AddBlock(w, h, txs) ==
    /\ InFn(w)
    /\ height = 0 \/ h = height + 1
    /\ height' = h
    /\ cacheRefs' = BlockRefs(h, txs) @@ cacheRefs
    /\ ownRefs' = BlockRefs(h, txs) @@ ownRefs
    /\ UNCHANGED <<reads, ownTree, phase, pc, lock, working, readTree, version,
                   cacheTree, dbTree, dbRefs, acked, crashes>>

\* be.Encode() fails: AddBlock returns the error after it has advanced the
\* height and indexed the txs, with no block written.  What fn does with the
\* error is fn's choice (it stays in fn).
AddBlockEncodeFails(w, h, txs) ==
    /\ InFn(w)
    /\ height = 0 \/ h = height + 1
    /\ height' = h
    /\ cacheRefs' = TxRefs(h, txs) @@ cacheRefs
    /\ ownRefs' = TxRefs(h, txs) @@ ownRefs
    /\ UNCHANGED <<reads, ownTree, phase, pc, lock, working, readTree, version,
                   cacheTree, dbTree, dbRefs, acked, crashes>>

\* Mutant: the error path returns without the deferred Unlock.
FnFailsKeepsLock(w) ==
    /\ InFn(w)
    /\ pc' = [pc EXCEPT ![w] = "idle"]
    /\ EndOwn
    /\ UNCHANGED <<reads, phase, lock, working, readTree, version, height,
                   cacheTree, cacheRefs, dbTree, dbRefs, acked, crashes>>

\* fn returns an error: Update returns it, skipping commit; defer s.Unlock().
FnFails(w) ==
    /\ InFn(w)
    /\ pc' = [pc EXCEPT ![w] = "idle"]
    /\ lock' = NoWriter
    /\ EndOwn
    /\ UNCHANGED <<reads, phase, working, readTree, version, height,
                   cacheTree, cacheRefs, dbTree, dbRefs, acked, crashes>>

\* Mutant: the CommitID is keyed by the hash of the read tree taken before Save.
CommitSaveHashBeforeSave(w) ==
    /\ InFn(w)
    /\ version < MaxVersion
    /\ LET v == version + 1 IN
       /\ version' = v
       /\ readTree' = working
       /\ cacheTree' = (v :> working) @@ cacheTree
       /\ cacheRefs' = (CommitKey(SealedHash(readTree)) :>
                           [hash |-> SealedHash(readTree), height |-> height, version |-> v])
                        @@ cacheRefs
       /\ pc' = [pc EXCEPT ![w] = "flush"]
    /\ UNCHANGED <<reads, own, phase, lock, working, height, dbTree, dbRefs, acked, crashes>>

\* Mutant: Update's hash is handed back at Save, before the batch is flushed.
CommitSaveAcksBeforeFlush(w) ==
    /\ InFn(w)
    /\ version < MaxVersion
    /\ LET v == version + 1 IN
       /\ version' = v
       /\ readTree' = working
       /\ cacheTree' = (v :> working) @@ cacheTree
       /\ cacheRefs' = CommitRef(working, v, height) @@ cacheRefs
       /\ pc' = [pc EXCEPT ![w] = "flush"]
       /\ acked' = SealedHash(working)
    /\ UNCHANGED <<reads, own, phase, lock, working, height, dbTree, dbRefs, crashes>>

\* Mutant: the CommitID records the tree version before Save.
CommitSaveRecordsOldVersion(w) ==
    /\ InFn(w)
    /\ version < MaxVersion
    /\ ~TreeSaveRefused(version + 1, working)
    /\ LET v == version + 1 IN
       /\ version' = v
       /\ readTree' = working
       /\ cacheTree' = (v :> working) @@ cacheTree
       /\ cacheRefs' = CommitRef(working, version, height) @@ cacheRefs
       /\ pc' = [pc EXCEPT ![w] = "flush"]
    /\ UNCHANGED <<reads, own, phase, lock, working, height, dbTree, dbRefs, acked, crashes>>

\* fn returned nil; commit(): tree.Save seals the working tree as a new version
\* into the CacheDB and repoints the read tree, then the CommitID is set in refs.
CommitSave(w) ==
    /\ InFn(w)
    /\ version < MaxVersion
    /\ ~TreeSaveRefused(version + 1, working)
    /\ LET v == version + 1 IN
       /\ version' = v
       /\ readTree' = working
       /\ cacheTree' = (v :> working) @@ cacheTree
       /\ cacheRefs' = CommitRef(working, v, height) @@ cacheRefs
       /\ pc' = [pc EXCEPT ![w] = "flush"]
    /\ UNCHANGED <<reads, own, phase, lock, working, height, dbTree, dbRefs, acked, crashes>>

\* tree.Save fails: IAVL refuses to seal a version already in the database
\* with other contents.  commit() and Update return the error; the lock is
\* released and fn's writes stay in the working tree.
SaveFails(w) ==
    /\ InFn(w)
    /\ version < MaxVersion
    /\ TreeSaveRefused(version + 1, working)
    /\ pc' = [pc EXCEPT ![w] = "idle"]
    /\ lock' = NoWriter
    /\ EndOwn
    /\ UNCHANGED <<reads, phase, working, readTree, version, height,
                   cacheTree, cacheRefs, dbTree, dbRefs, acked, crashes>>

\* Mutant: the lock is released once the batch is written, before Update returns.
CommitFlushUnlocks(w) ==
    /\ pc[w] = "flush"
    /\ dbTree' = cacheTree @@ dbTree
    /\ dbRefs' = cacheRefs @@ dbRefs
    /\ cacheTree' = NoRefs
    /\ cacheRefs' = NoRefs
    /\ lock' = NoWriter
    /\ pc' = [pc EXCEPT ![w] = "return"]
    /\ UNCHANGED <<reads, own, phase, working, readTree, version, height, acked, crashes>>

\* commit(): cacheDB.Commit(batch); batch.WriteSync().  The version and its
\* CommitID are durable from here on, before anyone has the hash.
CommitFlush(w) ==
    /\ pc[w] = "flush"
    /\ dbTree' = cacheTree @@ dbTree
    /\ dbRefs' = cacheRefs @@ dbRefs
    /\ cacheTree' = NoRefs
    /\ cacheRefs' = NoRefs
    /\ pc' = [pc EXCEPT ![w] = "return"]
    /\ UNCHANGED <<reads, own, phase, lock, working, readTree, version, height, acked, crashes>>

\* commit() returns the hash, Update returns it and its deferred Unlock runs:
\* the caller now holds the hash it will restart from.
ReturnHash(w) ==
    /\ pc[w] = "return"
    /\ acked' = SealedHash(readTree)
    /\ lock' = NoWriter
    /\ pc' = [pc EXCEPT ![w] = "idle"]
    /\ EndOwn
    /\ UNCHANGED <<reads, phase, working, readTree, version, height,
                   cacheTree, cacheRefs, dbTree, dbRefs, crashes>>

\* The process dies: memory (the CacheDB, the trees, height, the lock and
\* every Update in flight) is lost.  The restart runs LoadState(db, acked):
\* NewState, then tree.Load(commitID.Version); height is left at 0.
CrashRestart ==
    /\ phase = "up"
    /\ crashes < MaxCrashes
    /\ LET r == LoadStateResult(acked) IN
       /\ phase' = IF r.ok THEN "up" ELSE "failed"
       /\ working' = IF r.ok THEN r.tree ELSE EmptyTree
       /\ readTree' = IF r.ok THEN r.tree ELSE EmptyTree
       /\ version' = IF r.ok THEN r.version ELSE 0
    /\ crashes' = crashes + 1
    /\ pc' = [w \in Writers |-> "idle"]
    /\ lock' = NoWriter
    /\ height' = 0
    /\ cacheTree' = NoRefs
    /\ cacheRefs' = NoRefs
    /\ EndOwn
    /\ UNCHANGED <<reads, dbTree, dbRefs, acked>>

\* State.Copy(db): NewState over a fresh database, every key and value of
\* the read tree (tree.IterateRange over one immutable version) set into the
\* copy's tree, then the copy's own commit().  It takes no lock and touches
\* nothing of s; what it leaves behind is the copy's committed hash.
Copy ==
    /\ phase = "up"
    /\ Len(copies) < MaxCopies
    /\ copies' = Append(copies, SealedHash(readTree))
    /\ UNCHANGED <<blockReads, own, phase, pc, lock, working, readTree, version, height,
                   cacheTree, cacheRefs, dbTree, dbRefs, acked, crashes>>

\* State.GetBlocks(start, end, consumer): an iterator over s.refs, the
\* CacheDB, with no lock; the consumer sees every block of the range.  The
\* model takes the whole height range and records what was returned.
GetBlocks ==
    /\ phase = "up"
    /\ Len(blockReads) < MaxGetBlocks
    /\ blockReads' = Append(blockReads, BlockLog(RefsView))
    /\ UNCHANGED <<copies, own, phase, pc, lock, working, readTree, version, height,
                   cacheTree, cacheRefs, dbTree, dbRefs, acked, crashes>>

WriterStep(w) ==
    \/ CallUpdate(w)
    \/ AcquireLock(w)
    \/ \E a \in Addr, val \in Vals : UpdateAccount(w, a, val)
    \/ \E a \in Addr : RemoveAccount(w, a)
    \/ \E a \in Addr, k \in Words, x \in 0..MaxWord : SetStorage(w, a, k, x)
    \/ \E n \in Names, val \in Vals : UpdateName(w, n, val)
    \/ \E n \in Names : RemoveName(w, n)
    \/ \E h \in 1..MaxHeight, txs \in BlockTxLists : AddBlock(w, h, txs)
    \/ \E h \in 1..MaxHeight, txs \in BlockTxLists : AddBlockEncodeFails(w, h, txs)
    \/ FnFails(w)
    \/ CommitSave(w)
    \/ SaveFails(w)
    \/ CommitFlush(w)
    \/ ReturnHash(w)

Next ==
    \/ MakeGenesisState
    \/ \E w \in Writers : WriterStep(w)
    \/ CrashRestart
    \/ Copy
    \/ GetBlocks

\* Update's fn and commit run to completion once started (weak fairness);
\* sync.Mutex hands the lock to a goroutine waiting on it even when others
\* keep taking it (starvation mode), hence strong fairness on AcquireLock.
Fairness ==
    \A w \in Writers :
        /\ SF_vars(AcquireLock(w))
        /\ WF_vars(FnFails(w) \/ CommitSave(w) \/ SaveFails(w))
        /\ WF_vars(CommitFlush(w))
        /\ WF_vars(ReturnHash(w))

Spec == Init /\ [][Next]_vars /\ Fairness

-----------------------------------------------------------------------------
IsTree(tree) ==
    /\ DOMAIN tree = TreeKeys
    /\ \A key \in TreeKeys : tree[key] \in ValuesFor(key) \cup {NoValue}

\* Type invariant.  Storage slots never hold the zero word: SetStorage deletes.
TypeOK ==
    /\ phase \in {"none", "up", "failed"}
    /\ pc \in [Writers -> {"idle", "locking", "fn", "flush", "return"}]
    /\ lock \in Writers \cup {NoWriter}
    /\ IsTree(working) /\ IsTree(readTree)
    /\ version \in 0..MaxVersion
    /\ height \in 0..MaxHeight
    /\ \A v \in DOMAIN cacheTree : v \in 1..MaxVersion /\ IsTree(cacheTree[v])
    /\ \A v \in DOMAIN dbTree : v \in 1..MaxVersion /\ IsTree(dbTree[v])
    /\ crashes \in 0..MaxCrashes

\* Crash consistency of commit() (spec section 8, hash addressability): in
\* every state, were the process to die now, LoadState with the hash the
\* last successful Update returned would succeed, and GetAccount, GetStorage
\* and GetName on the loaded State would answer as on the state that hash
\* names.  A crash between tree.Save and batch.WriteSync, and the reuse of
\* version numbers lost in a crash, are what could break it.
RecoverableAcked ==
    phase = "up" =>
        LET r == LoadStateResult(acked)
        IN r.ok /\ StateReads(r.tree) = StateReads(TreeOfHash(acked))

\* Hash addressability: every CommitID in the durable reference space names
\* a durable tree version whose content has that hash, so LoadState of any
\* hash ever committed reproduces that state, however many crashes and
\* restarts happened since.
CommitIndexSound ==
    \A key \in DOMAIN dbRefs :
        key[1] = "x" =>
            /\ dbRefs[key].version \in DOMAIN dbTree
            /\ SealedHash(dbTree[dbRefs[key].version]) = key[2]

\* State.Update releases the lock on every exit path: every call of Update
\* eventually returns, whichever of the writers holds the lock.
UpdateReturns ==
    \A w \in Writers : pc[w] # "idle" ~> pc[w] = "idle"

\* AddBlock's height check (height + 1 after the first block) as seen in the
\* durable block log: a committed block is never replaced, and a new one is
\* only ever the successor of a block already there.  It is about what the
\* check protects across a crash and LoadState, which start over at height 0.
BlockLogAppendOnly ==
    [][ \A h \in BlockHeights(dbRefs') :
          /\ h \in BlockHeights(dbRefs) => dbRefs'[BlockRefKey(h)] = dbRefs[BlockRefKey(h)]
          /\ (h \notin BlockHeights(dbRefs) /\ BlockHeights(dbRefs) # {}) => h - 1 \in BlockHeights(dbRefs')
      ]_dbRefs

\* GetTx finds every transaction of a committed block (spec section 8,
\* "tx indexing"): AddBlock indexes it in the reference space.
GetTxFindsCommittedTx ==
    \A t \in Txs : TxKey(t) \in DOMAIN dbRefs => GetTx(t) \notin {NoValue, "panic", "error"}

\* Each commit seals only its own Update's writes (spec section 4.3: an
\* Update whose fn fails leaves no trace the next successful Update does not
\* overwrite): when commit() has saved, the new read tree is the tree the
\* lock holder started from with its own writes applied, and every pending
\* reference write other than the CommitID is one the lock holder made.
SealsOwnWrites ==
    \A w \in Writers :
        pc[w] = "flush" =>
            /\ readTree = ownTree
            /\ \A k \in DOMAIN cacheRefs :
                  k[1] # "x" => k \in DOMAIN ownRefs /\ cacheRefs[k] = ownRefs[k]

\* State.Copy takes no lock: a copy, once made, is of a state the store does
\* not retract, one a tree version holds durably or the state still current
\* (a crash between tree.Save and WriteSync must not leave a copy of a state
\* the restarted store never had).
CopiesNeverRetracted ==
    \A i \in DOMAIN copies :
        copies[i] \in {SealedHash(dbTree[v]) : v \in DOMAIN dbTree} \cup {SealedHash(readTree)}

\* GetBlocks takes no lock and iterates s.refs: every block it returned is
\* still, with the same contents, in the reference space the store reads,
\* after whatever failed Updates and crashes followed.
BlockReadsNeverRetracted ==
    \A i \in DOMAIN blockReads :
        \A h \in DOMAIN blockReads[i] :
            /\ BlockRefKey(h) \in DOMAIN RefsView
            /\ RefsView[BlockRefKey(h)] = blockReads[i][h]

\* Hash() takes the read lock, so it never runs inside an Update: whenever it
\* can, it returns the IAVL hash of the state named by the hash the last
\* Update (or MakeGenesisState) returned, however Updates, failed Saves and
\* a crash between WriteSync and Update's return have interleaved.
HashAgreesWithUpdate ==
    (phase = "up" /\ HashRLocked) => Hash = IAVLHash(TreeOfHash(acked))

-----------------------------------------------------------------------------
(***************************************************************************)
(* Refinement: the store implements AtomicStore.  The committed state is   *)
(* the tree named by the hash the last successful Update returned (hashes  *)
(* are tree contents, ZeroHash the empty tree); the current state is the   *)
(* working tree.  Save, the lock and the CacheDB are invisible: CommitSave *)
(* is a stuttering step and CommitFlush the commit.                        *)
(***************************************************************************)
Atomic == INSTANCE AtomicStore WITH
    Keys <- TreeKeys,
    Values <- Vals \cup (1..MaxWord) \cup {NoValue},
    Genesis <- GenesisTree,
    NoTree <- NoHash,
    status <- IF phase = "none" THEN "none" ELSE "up",
    current <- working,
    durable <- IF acked = NoHash THEN NoHash ELSE TreeOfHash(acked)

\* Update is atomic and durable as its callers see it: whatever the
\* interleaving of writers, failed fns and crashes between Save and
\* WriteSync, the store behaves as a store whose commit is one step and
\* whose crash returns to the last committed state.
AtomicStoreSpec == Atomic!Spec
=============================================================================
