----------------------------- MODULE WalletKeys -----------------------------
(***************************************************************************)
(* The keys of the wallet (src/keystore.cpp, src/wallet.cpp): the key      *)
(* pool, the encryption of the wallet, and the threads that lock it again. *)
(*                                                                         *)
(* cs_wallet has one owner at a time: job is the command that owns it, and *)
(* between two of its steps a thread that takes no cs_wallet may lock the  *)
(* key store, keep a reserved key, or the process may end.  A key is       *)
(* generated in memory and written, then the pool record that names it is  *)
(* written; encryption writes the keys in one database transaction, then   *)
(* replaces the key pool record by record and the file by a copy of it.    *)
(*                                                                         *)
(* Keys and pool indices are numbers.  Time is abstracted: a sleeping      *)
(* thread may find its time reached whenever it wakes.                     *)
(***************************************************************************)
EXTENDS Integers, FiniteSets, FiniteSetsExt

CONSTANTS
    Holder,       \* CReserveKey objects: a transaction or block being made
    KeyPool,      \* -keypool
    MaxKeys,      \* bound on the keys ever generated
    MaxUnlocks,   \* bound on the walletpassphrase calls
    MaxChanges,   \* bound on the walletpassphrasechange calls
    MaxCrashes    \* bound on the restarts that no error causes

ASSUME WalletKeysAssumption ==
    /\ Holder \cap {"nobody", "rpc", "topup", "encrypt", "change"} = {}
    /\ KeyPool \in Nat
    /\ MaxKeys \in Nat /\ MaxKeys > KeyPool
    /\ MaxUnlocks \in Nat /\ MaxChanges \in Nat /\ MaxCrashes \in Nat

VARIABLES
    keys,          \* mapKeys, or mapCryptedKeys when fUseCrypto
    fUseCrypto,
    unlocked,      \* vMasterKey is not empty
    setKeyPool,
    reserved,      \* for each holder, the index and the key it holds
    file,          \* wallet.dat
    rewrite,       \* wallet.dat.rewrite
    job,           \* the owner of cs_wallet and what it does next
    opening,       \* walletpassphrase calls that have unlocked, no thread yet
    topups,        \* ThreadTopUpKeyPool threads that wait for cs_wallet
    timed,         \* nWalletUnlockTime is not 0
    starting,      \* ThreadCleanWalletPassphrase threads that have not begun
    asleep,        \* ... that sleep in the loop
    given,         \* history: the keys handed out for good
    again,         \* history: those handed out twice
    reissued,      \* history: indices written anew while a holder had them
    raced,         \* history: locked by others during a passphrase change
    made, unlocks, changes, crashes    \* counters, bounded

memory == <<keys, fUseCrypto, setKeyPool, reserved>>
disk == <<file, rewrite>>
timing == <<opening, topups, timed, starting, asleep>>
history == <<given, again, reissued>>
counts == <<made, unlocks, changes, crashes>>
vars == <<memory, unlocked, disk, job, timing, history, raced, counts>>

Nobody == [index |-> 0, key |-> 0]
NoFile == [plain |-> {}, ckey |-> {}, mkey |-> FALSE, pool |-> <<>>]
FullFile == [plain |-> 1..KeyPool + 1, ckey |-> {}, mkey |-> FALSE,
             pool |-> [i \in 1..KeyPool + 1 |-> i]]
Idle == [by |-> "nobody", pc |-> "idle", key |-> 0]

Locked == fUseCrypto /\ ~unlocked
Recorded(f) == f.plain \cup f.ckey

Init ==
    /\ keys = 1..KeyPool + 1 /\ setKeyPool = 1..KeyPool + 1
    /\ fUseCrypto = FALSE /\ unlocked = FALSE
    /\ reserved = [h \in Holder |-> Nobody]
    /\ file = FullFile /\ rewrite = NoFile
    /\ job = Idle
    /\ opening = 0 /\ topups = 0 /\ timed = FALSE /\ starting = 0 /\ asleep = 0
    /\ given = {} /\ again = {} /\ reissued = {} /\ raced = FALSE
    /\ made = KeyPool + 1 /\ unlocks = 0 /\ changes = 0 /\ crashes = 0

\* The process ends and starts again: LoadWallet reads wallet.dat, or makes
\* an empty one if there is none.
Restart ==
    /\ keys' = Recorded(file) /\ fUseCrypto' = (file.ckey # {})
    /\ setKeyPool' = DOMAIN file.pool
    /\ reserved' = [h \in Holder |-> Nobody]
    /\ unlocked' = FALSE /\ raced' = FALSE
    /\ job' = Idle
    /\ opening' = 0 /\ topups' = 0 /\ timed' = FALSE /\ starting' = 0 /\ asleep' = 0
    /\ UNCHANGED <<disk, history>>

Crash ==
    /\ crashes < MaxCrashes
    /\ Restart
    /\ crashes' = crashes + 1 /\ UNCHANGED <<made, unlocks, changes>>

-----------------------------------------------------------------------------
(***************************************************************************)
(* The key pool.                                                           *)
(***************************************************************************)

\* getnewaddress, GetReservedKey and ThreadTopUpKeyPool take cs_wallet.
TakesPool(who) ==
    /\ job = Idle
    /\ job' = [by |-> who, pc |-> IF Locked THEN "take" ELSE "fill", key |-> 0]

GetNewAddress ==
    /\ TakesPool("rpc")
    /\ UNCHANGED <<memory, unlocked, disk, timing, history, raced, counts>>

GetReservedKey(h) ==
    /\ reserved[h] = Nobody
    /\ TakesPool(h)
    /\ UNCHANGED <<memory, unlocked, disk, timing, history, raced, counts>>

TopUpThread ==
    /\ topups > 0
    /\ TakesPool("topup")
    /\ topups' = topups - 1
    /\ UNCHANGED <<memory, unlocked, disk, opening, timed, starting, asleep, history, raced, counts>>

\* The loops of TopUpKeyPool and NewKeyPool.
PoolSize == IF job.by = "encrypt" THEN KeyPool ELSE KeyPool + 1
Short == Cardinality(setKeyPool) < PoolSize
AddKey_Unwritten(f, k) == IF fUseCrypto THEN f ELSE [f EXCEPT !.plain = @ \cup {k}]

NextIndex == IF setKeyPool = {} THEN 1 ELSE Max(setKeyPool) + 1

\* GenerateNewKey: AddKey, or AddCryptedKey, and its record.
AddKey(f, k) ==
    IF fUseCrypto THEN [f EXCEPT !.ckey = @ \cup {k}] ELSE [f EXCEPT !.plain = @ \cup {k}]

GenerateNewKey ==
    /\ job.pc = "fill" /\ Short /\ ~Locked
    /\ made < MaxKeys
    /\ made' = made + 1
    /\ keys' = keys \cup {made + 1}
    /\ file' = AddKey(file, made + 1)
    /\ job' = [job EXCEPT !.pc = "record", !.key = made + 1]
    /\ UNCHANGED <<fUseCrypto, setKeyPool, reserved, unlocked, rewrite, timing, history,
                   raced, unlocks, changes, crashes>>

\* AddKey refuses: the exception ends the command, and the process when it
\* leaves a thread.
GenerateNewKeyThrows ==
    /\ job.pc = "fill" /\ Short /\ Locked
    /\ \/ /\ job.by = "topup"
          /\ Restart
       \/ /\ job.by # "topup"
          /\ job' = Idle
          /\ UNCHANGED <<memory, unlocked, disk, timing, history, raced>>
    /\ UNCHANGED counts

\* WritePool and the insertion in setKeyPool.
WritePool ==
    /\ job.pc = "record"
    /\ LET i == NextIndex IN
       /\ file' = [file EXCEPT !.pool =
             [j \in DOMAIN file.pool \cup {i} |-> IF j = i THEN job.key ELSE file.pool[j]]]
       /\ setKeyPool' = setKeyPool \cup {i}
       /\ reissued' = reissued \cup {j \in {i} : \E h \in Holder : reserved[h].index = i}
    /\ job' = [job EXCEPT !.pc = "fill"]
    /\ UNCHANGED <<keys, fUseCrypto, reserved, unlocked, rewrite, timing, given, again, raced, counts>>

Filled ==
    /\ job.pc = "fill" /\ ~Short /\ job.by # "encrypt"
    /\ job' = IF job.by = "topup" THEN Idle ELSE [job EXCEPT !.pc = "take"]
    /\ UNCHANGED <<memory, unlocked, disk, timing, history, raced, counts>>

ErasePool(i) == file' = [file EXCEPT !.pool = [j \in DOMAIN file.pool \ {i} |-> file.pool[j]]]

GiveOut(k) ==
    /\ given' = given \cup {k}
    /\ again' = again \cup (given \cap {k})

\* The front of ReserveKeyFromKeyPool's index: "read failed" and "unknown key".
Readable(i) == i \in DOMAIN file.pool /\ file.pool[i] \in keys

\* ReserveKeyFromKeyPool, then KeepKey for a new address.
TakeKey ==
    /\ job.pc = "take"
    /\ job' = Idle
    /\ LET i == Min(setKeyPool) IN
       \/ /\ setKeyPool = {} \/ job.by = "topup"
          /\ UNCHANGED <<setKeyPool, reserved, file, given, again>>
       \/ /\ setKeyPool # {} /\ job.by = "rpc"
          /\ setKeyPool' = setKeyPool \ {i}
          /\ IF Readable(i)
             THEN ErasePool(i) /\ GiveOut(file.pool[i])
             ELSE UNCHANGED <<file, given, again>>
          /\ UNCHANGED reserved
       \/ /\ setKeyPool # {} /\ job.by \in Holder
          /\ IF Readable(i)
             THEN /\ setKeyPool' = setKeyPool \ {i}
                  /\ reserved' = [reserved EXCEPT ![job.by] = [index |-> i, key |-> file.pool[i]]]
             ELSE UNCHANGED <<setKeyPool, reserved>>    \* thrown, and returned
          /\ UNCHANGED <<file, given, again>>
    /\ UNCHANGED <<keys, fUseCrypto, unlocked, rewrite, timing, reissued, raced, counts>>

\* Mutant: the pool record is not erased.
KeepKey_LeavesRecord(h) ==
    /\ reserved[h] # Nobody
    /\ job.pc \notin {"copy", "remove", "rename"}
    /\ GiveOut(reserved[h].key)
    /\ reserved' = [reserved EXCEPT ![h] = Nobody]
    /\ UNCHANGED <<keys, fUseCrypto, setKeyPool, file, unlocked, rewrite, job, timing, reissued, raced, counts>>

\* CReserveKey::KeepKey and ReturnKey.  KeepKey takes no cs_wallet, but waits
\* while Rewrite holds the database.
KeepKey(h) ==
    /\ reserved[h] # Nobody
    /\ job.pc \notin {"copy", "remove", "rename"}
    /\ ErasePool(reserved[h].index)
    /\ GiveOut(reserved[h].key)
    /\ reserved' = [reserved EXCEPT ![h] = Nobody]
    /\ UNCHANGED <<keys, fUseCrypto, setKeyPool, unlocked, rewrite, job, timing, reissued, raced, counts>>

ReturnKey(h) ==
    /\ reserved[h] # Nobody
    /\ job = Idle
    /\ setKeyPool' = setKeyPool \cup {reserved[h].index}
    /\ reserved' = [reserved EXCEPT ![h] = Nobody]
    /\ UNCHANGED <<keys, fUseCrypto, unlocked, disk, job, timing, history, raced, counts>>

-----------------------------------------------------------------------------
(***************************************************************************)
(* EncryptWallet.                                                          *)
(***************************************************************************)

\* Mutant: the master key is written outside of the transaction.
EncryptKeys_NoTxn ==
    /\ job = Idle /\ ~fUseCrypto /\ rewrite = NoFile
    /\ fUseCrypto' = TRUE
    /\ file' = [file EXCEPT !.mkey = TRUE]
    /\ job' = [by |-> "encrypt", pc |-> "commit", key |-> 0]
    /\ UNCHANGED <<keys, setKeyPool, reserved, unlocked, rewrite, timing, history, raced, counts>>

\* EncryptKeys, its writes held in the transaction.
\* A second encryption over a .rewrite file left behind is not followed.
EncryptKeys ==
    /\ job = Idle /\ ~fUseCrypto /\ rewrite = NoFile
    /\ fUseCrypto' = TRUE
    /\ job' = [by |-> "encrypt", pc |-> "commit", key |-> 0]
    /\ UNCHANGED <<keys, setKeyPool, reserved, unlocked, disk, timing, history, raced, counts>>

\* TxnCommit, Lock, Unlock.
CommitEncryption ==
    /\ job.pc = "commit"
    /\ file' = [file EXCEPT !.plain = {}, !.ckey = keys, !.mkey = TRUE]
    /\ unlocked' = TRUE
    /\ job' = [job EXCEPT !.pc = "erase", !.key = 0]
    /\ UNCHANGED <<memory, rewrite, timing, history, raced, counts>>

\* NewKeyPool: the records of setKeyPool, lowest first (key is the last).
ErasePoolRecord ==
    /\ job.pc = "erase"
    /\ \E i \in setKeyPool :
          /\ i > job.key
          /\ \A j \in setKeyPool : j > job.key => i <= j
          /\ ErasePool(i)
          /\ job' = [job EXCEPT !.key = i]
    /\ UNCHANGED <<memory, unlocked, rewrite, timing, history, raced, counts>>

\* Mutant: the records are erased, the indices stay.
ClearPool_KeepsSet ==
    /\ job.pc = "erase" /\ \A i \in setKeyPool : i <= job.key
    /\ job' = [job EXCEPT !.pc = IF Locked THEN "copy" ELSE "fill"]
    /\ UNCHANGED <<memory, unlocked, disk, timing, history, raced, counts>>

ClearPool ==
    /\ job.pc = "erase" /\ \A i \in setKeyPool : i <= job.key
    /\ setKeyPool' = {}
    /\ job' = [job EXCEPT !.pc = IF Locked THEN "copy" ELSE "fill"]
    /\ UNCHANGED <<keys, fUseCrypto, reserved, unlocked, disk, timing, history, raced, counts>>

\* NewKeyPool is done; Lock.
RelockEncrypted ==
    /\ job.by = "encrypt" /\ job.pc = "fill" /\ ~Short
    /\ unlocked' = FALSE
    /\ job' = [job EXCEPT !.pc = "copy"]
    /\ UNCHANGED <<memory, disk, timing, history, raced, counts>>

\* CDB::Rewrite: copy, remove, rename.
CopyFile ==
    /\ job.pc = "copy"
    /\ rewrite' = file
    /\ job' = [job EXCEPT !.pc = "remove"]
    /\ UNCHANGED <<memory, unlocked, file, timing, history, raced, counts>>

RemoveFile ==
    /\ job.pc = "remove"
    /\ file' = NoFile
    /\ job' = [job EXCEPT !.pc = "rename"]
    /\ UNCHANGED <<memory, unlocked, rewrite, timing, history, raced, counts>>

RenameFile ==
    /\ job.pc = "rename"
    /\ file' = rewrite /\ rewrite' = NoFile
    /\ job' = Idle
    /\ UNCHANGED <<memory, unlocked, timing, history, raced, counts>>

-----------------------------------------------------------------------------
(***************************************************************************)
(* Unlocking and locking.                                                  *)
(***************************************************************************)

\* CCryptoKeyStore::Lock by a thread that has no cs_wallet.
LockKeys ==
    /\ unlocked' = FALSE
    /\ raced' = (raced \/ job.pc = "was_unlocked")

\* walletpassphrase, as far as Unlock.
WalletPassphrase ==
    /\ unlocks < MaxUnlocks
    /\ fUseCrypto /\ Locked /\ job = Idle
    /\ unlocked' = TRUE /\ raced' = FALSE
    /\ opening' = opening + 1
    /\ unlocks' = unlocks + 1
    /\ UNCHANGED <<memory, disk, job, topups, timed, starting, asleep, history, made, changes, crashes>>

\* ... and its two threads.
StartThreads ==
    /\ opening > 0
    /\ opening' = opening - 1
    /\ topups' = topups + 1
    /\ starting' = starting + 1
    /\ UNCHANGED <<memory, unlocked, disk, job, timed, asleep, history, raced, counts>>

\* Mutant: a thread that still sleeps is relied on, though it will find 0.
TimerStarts_OneSleeper ==
    /\ starting > 0
    /\ starting' = starting - 1
    /\ asleep' = IF asleep > 0 THEN asleep ELSE 1
    /\ timed' = (timed \/ asleep = 0)
    /\ UNCHANGED <<memory, unlocked, disk, job, opening, topups, history, raced, counts>>

\* ThreadCleanWalletPassphrase: become the one that sleeps, or prolong.
TimerStarts ==
    /\ starting > 0
    /\ starting' = starting - 1
    /\ asleep' = IF timed THEN asleep ELSE asleep + 1
    /\ timed' = TRUE
    /\ UNCHANGED <<memory, unlocked, disk, job, opening, topups, history, raced, counts>>

\* It wakes: the time is reached, or was set to 0.
TimerExpires ==
    /\ asleep > 0 /\ timed
    /\ timed' = FALSE
    /\ LockKeys
    /\ asleep' = asleep - 1
    /\ UNCHANGED <<memory, disk, job, opening, topups, starting, history, counts>>

TimerEnds ==
    /\ asleep > 0 /\ ~timed
    /\ asleep' = asleep - 1
    /\ UNCHANGED <<memory, unlocked, disk, job, opening, topups, timed, starting, history, raced, counts>>

WalletLock ==
    /\ fUseCrypto
    /\ timed' = FALSE
    /\ LockKeys
    /\ UNCHANGED <<memory, disk, job, opening, topups, starting, asleep, history, counts>>

\* ChangeWalletPassphrase: fWasLocked is read, then Lock.
ChangeBegins ==
    /\ changes < MaxChanges
    /\ fUseCrypto /\ job = Idle
    /\ job' = [by |-> "change", pc |-> IF Locked THEN "was_locked" ELSE "was_unlocked", key |-> 0]
    /\ changes' = changes + 1
    /\ UNCHANGED <<memory, unlocked, disk, timing, history, raced, made, unlocks, crashes>>

ChangeLocks ==
    /\ job.by = "change" /\ job.key = 0
    /\ unlocked' = FALSE
    /\ job' = [job EXCEPT !.key = 1]
    /\ UNCHANGED <<memory, disk, timing, history, raced, counts>>

\* The old passphrase is wrong: the wallet stays locked.
ChangeRefused ==
    /\ job.by = "change" /\ job.key = 1
    /\ job' = Idle
    /\ UNCHANGED <<memory, unlocked, disk, timing, history, raced, counts>>

\* It is right: Unlock, write the master key, and Lock if fWasLocked.
ChangeEnds ==
    /\ job.by = "change" /\ job.key = 1
    /\ unlocked' = (job.pc = "was_unlocked")
    /\ job' = Idle
    /\ UNCHANGED <<memory, disk, timing, history, raced, counts>>

Next ==
    \/ GetNewAddress \/ TopUpThread
    \/ GenerateNewKey \/ GenerateNewKeyThrows \/ WritePool \/ Filled \/ TakeKey
    \/ \E h \in Holder : GetReservedKey(h) \/ KeepKey(h) \/ ReturnKey(h)
    \/ EncryptKeys \/ CommitEncryption \/ ErasePoolRecord \/ ClearPool \/ RelockEncrypted
    \/ CopyFile \/ RemoveFile \/ RenameFile
    \/ WalletPassphrase \/ StartThreads \/ TimerStarts \/ TimerExpires \/ TimerEnds \/ WalletLock
    \/ ChangeBegins \/ ChangeLocks \/ ChangeRefused \/ ChangeEnds
    \/ Crash

Spec == Init /\ [][Next]_vars

-----------------------------------------------------------------------------
(***************************************************************************)
(* Properties.                                                             *)
(***************************************************************************)

\* Whatever the crashes and the threads between two writes, reserving the
\* next key never throws "read failed" or "unknown key" (wallet.cpp): each
\* index of the pool has a record, which names a key of the store.  An index
\* that was given to a new key while somebody held it is excepted.
PoolIsReadable ==
    job.by # "encrypt" => \A i \in setKeyPool \ reissued : Readable(i)

\* "Take key pair from key pool so it won't be used again": no key is handed
\* out twice, not even after a restart that reads the pool from the file
\* (with the same exception).
KeysGivenOnce == reissued = {} => again = {}

\* The transaction of EncryptWallet: wherever the process ends, a file with
\* a master key holds no key in plain, and encrypted keys never come without
\* the master key that opens them.
EncryptedWhole ==
    \A f \in {file, rewrite} : (f.mkey => f.plain = {}) /\ (f.ckey # {} => f.mkey)

\* A key that was handed out is never without its record, in wallet.dat or in
\* the copy that Rewrite is about to put in its place.
GivenKeysAreRecorded == given \subseteq Recorded(file) \cup Recorded(rewrite)

\* The wallet that walletpassphrase opened will be locked again: a thread is
\* to be started, is about to take the time, or sleeps until it.  (A change
\* of the passphrase that the timer interrupts is excepted.)
UnlockedIsTimed ==
    /\ timed => asleep > 0
    /\ unlocked /\ job.by # "encrypt" /\ ~raced => opening > 0 \/ starting > 0 \/ timed

\* "Stores the wallet decryption key in memory for <timeout> seconds"
\* (rpcwallet.cpp): the same, without the exception.
OpenOnlyWhileTimed ==
    unlocked /\ job = Idle => opening > 0 \/ starting > 0 \/ timed
=============================================================================
