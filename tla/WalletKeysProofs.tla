-------------------------- MODULE WalletKeysProofs --------------------------
(***************************************************************************)
(* Theorems about WalletKeys, for a pool of any size, any number of        *)
(* reserved keys, and any restarts, unlockings and passphrase changes.     *)
(***************************************************************************)
EXTENDS WalletKeys, FiniteSetTheorems, NaturalsInduction, WellFoundedInduction, TLAPS

\* Every non-empty set of naturals has a least member, which the provers do not
\* know of: from the well-foundedness of < on them.
LEMMA LeastNatural ==
    ASSUME NEW T \in SUBSET Nat, T # {}
    PROVE  \E m \in T : \A n \in T : m <= n
<1> DEFINE R == OpToRel(<, Nat)
<1>1. \A x, y \in Nat : y < x => <<y, x>> \in R
  BY DEF OpToRel
<1>2. PICK m \in T : \A n \in T : <<n, m>> \notin R
  <2> HIDE DEF R
  <2> QED  BY NatLessThanWellFounded, WFMin DEF R
<1> HIDE DEF R
<1>3. \A n \in T : ~(n < m)
  BY <1>1, <1>2
<1> QED  BY <1>3

-----------------------------------------------------------------------------
(***************************************************************************)
(* The keys and the file.  The store and wallet.dat hold the same keys     *)
(* between two steps, except that in the middle of Rewrite the copy is     *)
(* all there is.  A copy left behind by a crash keeps a second encryption  *)
(* away (which is not followed), so that no keys at all are encrypted      *)
(* only when there are some.                                               *)
(***************************************************************************)
\* wallet.dat, or what Rewrite is about to rename to it.
WalletFile == IF job.pc = "rename" THEN rewrite ELSE file

FileShape(f) ==
    /\ f = [plain |-> f.plain, ckey |-> f.ckey, mkey |-> f.mkey, pool |-> f.pool]
    /\ f.mkey \in BOOLEAN

KeyTypes ==
    /\ FileShape(file) /\ FileShape(rewrite)
    /\ job = [by |-> job.by, pc |-> job.pc, key |-> job.key]
    /\ fUseCrypto \in BOOLEAN
    /\ reserved = [h \in Holder |-> reserved[h]]

\* What the owner of cs_wallet is doing, and what Rewrite has done.
JobInv ==
    /\ job.pc \in {"commit", "erase", "copy", "remove", "rename"} => job.by = "encrypt"
    /\ job.pc = "take" => job.by # "encrypt"
    /\ job.by = "encrypt" => fUseCrypto
    /\ job.by = "encrypt" /\ job.pc \notin {"remove", "rename"} => rewrite = NoFile
    /\ job.pc = "remove" => rewrite = file
    /\ job.pc = "rename" => file = NoFile

\* A file is encrypted as a whole or not at all.
FileInv ==
    /\ keys = Recorded(WalletFile)
    /\ rewrite.plain = {} /\ (rewrite.mkey <=> rewrite.ckey # {})
    /\ IF fUseCrypto /\ job.pc # "commit"
       THEN WalletFile.plain = {} /\ WalletFile.ckey # {} /\ WalletFile.mkey
       ELSE file.ckey = {} /\ ~file.mkey
    /\ keys = {} => rewrite # NoFile /\ ~fUseCrypto

GivenInv ==
    /\ given \subseteq Recorded(file) \cup Recorded(rewrite)
    /\ \A h \in Holder : reserved[h] # Nobody => reserved[h].key \in keys

KeysInv == KeyTypes /\ JobInv /\ FileInv /\ GivenInv

LEMMA InitKeysInv == Init => KeysInv
<1> SUFFICES ASSUME Init PROVE KeysInv
  OBVIOUS
<1>1. 1 \in 1..KeyPool + 1
  BY WalletKeysAssumption
<1> QED
  BY <1>1 DEF Init, KeysInv, KeyTypes, JobInv, FileInv, GivenInv, FileShape, WalletFile,
              FullFile, NoFile, Idle, Nobody, Recorded

LEMMA NextKeysInv ==
    ASSUME KeysInv, [Next]_vars
    PROVE  KeysInv'
<1> USE DEF KeysInv, KeyTypes, FileShape
<1>0. Holder \cap {"nobody", "rpc", "topup", "encrypt", "change"} = {}
  BY WalletKeysAssumption
\* The owner moves on and nothing it guards changes.
<1>1. ASSUME UNCHANGED <<memory, disk, given>>,
             job' = [by |-> job'.by, pc |-> job'.pc, key |-> job'.key],
             job.pc \notin {"commit", "remove", "rename"},
             job'.pc \notin {"commit", "remove", "rename"},
             JobInv'
      PROVE  KeysInv'
  BY <1>1 DEF memory, disk, FileInv, GivenInv, WalletFile, Recorded
<1>2. ASSUME NEW who, TakesPool(who), who # "encrypt",
             UNCHANGED <<memory, disk, given>>
      PROVE  KeysInv'
  BY <1>1, <1>2 DEF TakesPool, Idle, JobInv, memory, disk
<1>3. CASE GenerateNewKey
  <2>1. /\ job.pc = "fill" /\ ~Locked /\ job'.pc = "record" /\ job'.by = job.by
        /\ file'.plain = (IF fUseCrypto THEN file.plain ELSE file.plain \cup {made + 1})
        /\ file'.ckey = (IF fUseCrypto THEN file.ckey \cup {made + 1} ELSE file.ckey)
        /\ file'.mkey = file.mkey /\ FileShape(file')
        /\ keys' = keys \cup {made + 1}
        /\ UNCHANGED <<rewrite, fUseCrypto, reserved, given>>
    BY <1>3 DEF GenerateNewKey, AddKey, history
  <2>2. JobInv'
    BY <1>3, <2>1 DEF GenerateNewKey, JobInv
  <2>3. FileInv'
    BY <2>1 DEF FileInv, WalletFile, Recorded
  <2>4. GivenInv'
    BY <2>1 DEF GivenInv, Recorded
  <2> QED  BY <1>3, <2>1, <2>2, <2>3, <2>4 DEF GenerateNewKey
<1>4. CASE Restart
  BY <1>4 DEF Restart, JobInv, FileInv, GivenInv, WalletFile, Recorded, Idle, NoFile, disk, history
<1>5. CASE GenerateNewKeyThrows
  BY <1>1, <1>4, <1>5 DEF GenerateNewKeyThrows, Idle, JobInv, memory, disk, history
\* The pool of the file changes, its keys do not.
<1>6. ASSUME job.pc \notin {"remove", "rename"},
             NEW p, file' = [file EXCEPT !.pool = p],
             job' = [by |-> job'.by, pc |-> job'.pc, key |-> job'.key],
             job.pc = "commit" <=> job'.pc = "commit",
             job'.pc \notin {"remove", "rename"},
             JobInv',
             UNCHANGED <<keys, fUseCrypto, rewrite>>,
             reserved' = [h \in Holder |-> reserved'[h]],
             \A h \in Holder : reserved'[h] # Nobody => reserved'[h].key \in keys,
             given' \subseteq given \cup keys
      PROVE  KeysInv'
  BY <1>6 DEF FileInv, GivenInv, WalletFile, Recorded
<1>7. CASE WritePool
  BY <1>6, <1>7 DEF WritePool, JobInv, GivenInv
<1>8. CASE Filled
  BY <1>1, <1>8 DEF Filled, Idle, JobInv, memory, disk, history
<1>9. CASE TakeKey
  <2>1. /\ job.pc = "take" /\ job' = Idle /\ UNCHANGED <<keys, fUseCrypto, rewrite>>
        /\ JobInv'
    BY <1>9 DEF TakeKey, JobInv, Idle
  <2>2. /\ \/ UNCHANGED <<file, given>>
           \/ \E i : Readable(i) /\ ErasePool(i) /\ GiveOut(file.pool[i])
        /\ \/ UNCHANGED reserved
           \/ \E h \in Holder : \E i :
                 Readable(i) /\ reserved' = [reserved EXCEPT ![h] = [index |-> i, key |-> file.pool[i]]]
    <3>1. CASE job.by \in Holder
      BY <1>9, <3>1 DEF TakeKey
    <3>2. CASE job.by = "rpc"
      BY <1>9, <3>2 DEF TakeKey
    <3>3. CASE UNCHANGED <<file, given, reserved>>
      BY <3>3
    <3> QED  BY <1>9, <3>1, <3>2, <3>3 DEF TakeKey
  <2>3. /\ \E p : file' = [file EXCEPT !.pool = p]
        /\ given' \subseteq given \cup keys
    <3>1. CASE UNCHANGED <<file, given>>
      <4>1. file' = [file EXCEPT !.pool = file.pool]
        BY <3>1
      <4> QED  BY <3>1, <4>1
    <3>2. CASE \E i : Readable(i) /\ ErasePool(i) /\ GiveOut(file.pool[i])
      BY <3>2 DEF ErasePool, GiveOut, Readable
    <3> QED  BY <2>2, <3>1, <3>2
  <2>4. /\ reserved' = [h \in Holder |-> reserved'[h]]
        /\ \A h \in Holder : reserved'[h] # Nobody => reserved'[h].key \in keys
    <3>1. CASE UNCHANGED reserved
      BY <2>1, <3>1 DEF GivenInv
    <3>2. ASSUME NEW h \in Holder, NEW i, Readable(i),
                 reserved' = [reserved EXCEPT ![h] = [index |-> i, key |-> file.pool[i]]]
          PROVE  /\ reserved' = [g \in Holder |-> reserved'[g]]
                 /\ \A g \in Holder : reserved'[g] # Nobody => reserved'[g].key \in keys
      BY <2>1, <3>2 DEF GivenInv, Readable
    <3> QED  BY <2>2, <3>1, <3>2
  <2> QED  BY <1>6, <2>1, <2>3, <2>4 DEF Idle
<1>10. ASSUME NEW h \in Holder, KeepKey(h) PROVE KeysInv'
  <2>1. JobInv'
    BY <1>10 DEF KeepKey, ErasePool, JobInv
  <2>2. /\ job.pc \notin {"remove", "rename"} /\ job' = job
        /\ \E p : file' = [file EXCEPT !.pool = p]
        /\ UNCHANGED <<keys, fUseCrypto, rewrite>>
        /\ reserved' = [reserved EXCEPT ![h] = Nobody]
        /\ given' \subseteq given \cup keys
    BY <1>10 DEF KeepKey, ErasePool, GiveOut, GivenInv
  <2>3. /\ reserved' = [g \in Holder |-> reserved'[g]]
        /\ \A g \in Holder : reserved'[g] # Nobody => reserved'[g].key \in keys
    BY <2>2 DEF GivenInv
  <2> QED  BY <1>6, <2>1, <2>2, <2>3
<1>11. ASSUME NEW h \in Holder, ReturnKey(h) PROVE KeysInv'
  BY <1>11 DEF ReturnKey, disk, history, JobInv, FileInv, GivenInv, WalletFile, Recorded, Nobody
<1>12. CASE EncryptKeys
  BY <1>12 DEF EncryptKeys, disk, history, JobInv, FileInv, GivenInv, WalletFile, Recorded, Idle
<1>13. CASE CommitEncryption
  BY <1>13 DEF CommitEncryption, memory, history, JobInv, FileInv, GivenInv, WalletFile, Recorded, NoFile
<1>14. CASE ErasePoolRecord
  BY <1>6, <1>14 DEF ErasePoolRecord, ErasePool, memory, history, JobInv, GivenInv
<1>15. CASE ClearPool
  BY <1>15 DEF ClearPool, disk, history, JobInv, FileInv, GivenInv, WalletFile, Recorded
<1>16. CASE RelockEncrypted
  BY <1>1, <1>16 DEF RelockEncrypted, disk, history, JobInv, memory
<1>17. CASE CopyFile
  BY <1>17 DEF CopyFile, memory, history, JobInv, FileInv, GivenInv, WalletFile, Recorded, NoFile
<1>18. CASE RemoveFile
  BY <1>18 DEF RemoveFile, memory, history, JobInv, FileInv, GivenInv, WalletFile, Recorded, NoFile
<1>19. CASE RenameFile
  BY <1>19 DEF RenameFile, memory, history, JobInv, FileInv, GivenInv, WalletFile, Recorded, NoFile, Idle
\* The timers and the locks touch nothing of it.
<1>20. CASE UNCHANGED <<memory, disk, job, given>>
  BY <1>20 DEF memory, disk, JobInv, FileInv, GivenInv, WalletFile, Recorded
<1>21. CASE ChangeBegins
  BY <1>1, <1>21 DEF ChangeBegins, Idle, JobInv, memory, disk, history
<1>22. CASE ChangeLocks
  <2>1. /\ job.by = "change" /\ job'.by = job.by /\ job'.pc = job.pc
        /\ job' = [by |-> job'.by, pc |-> job'.pc, key |-> job'.key]
        /\ UNCHANGED <<memory, disk, given>>
    BY <1>22 DEF ChangeLocks, history
  <2>2. job.pc \notin {"commit", "erase", "copy", "remove", "rename"}
    BY <2>1 DEF JobInv
  <2> QED  BY <1>1, <2>1, <2>2 DEF JobInv
<1>23. CASE ChangeRefused \/ ChangeEnds
  <2>1. job.by = "change" /\ job' = Idle /\ UNCHANGED <<memory, disk, given>>
    BY <1>23 DEF ChangeRefused, ChangeEnds, history
  <2>2. job.pc \notin {"commit", "erase", "copy", "remove", "rename"}
    BY <2>1 DEF JobInv
  <2> QED  BY <1>1, <2>1, <2>2 DEF JobInv, Idle
<1>24. CASE \/ WalletPassphrase \/ StartThreads \/ TimerStarts \/ TimerExpires \/ TimerEnds
            \/ WalletLock \/ UNCHANGED vars
  BY <1>20, <1>24 DEF WalletPassphrase, StartThreads, TimerStarts, TimerExpires, TimerEnds,
                      WalletLock, history, vars
<1>25. CASE GetNewAddress \/ TopUpThread \/ \E h \in Holder : GetReservedKey(h)
  BY <1>0, <1>2, <1>25 DEF GetNewAddress, TopUpThread, GetReservedKey, history
<1> QED
  BY <1>3, <1>4, <1>5, <1>7, <1>8, <1>9, <1>10, <1>11, <1>12, <1>13, <1>14, <1>15, <1>16, <1>17,
     <1>18, <1>19, <1>21, <1>22, <1>23, <1>24, <1>25 DEF Next, Crash

LEMMA KeysInvariant == Spec => []KeysInv
<1>1. KeysInv /\ [Next]_vars => KeysInv'
  BY NextKeysInv
<1> QED  BY <1>1, InitKeysInv, PTL DEF Spec

\* A passphrase change does nothing to the pool.
ChangeInv == job.by = "change" => job.pc \in {"was_locked", "was_unlocked"}

LEMMA NextChangeInv ==
    ASSUME KeysInv, ChangeInv, [Next]_vars
    PROVE  ChangeInv'
<1>0. job = [by |-> job.by, pc |-> job.pc, key |-> job.key]
  BY DEF KeysInv, KeyTypes
<1>1. ASSUME job' = Idle PROVE ChangeInv'
  BY <1>1 DEF Idle, ChangeInv
<1>2. ASSUME NEW who, TakesPool(who), who # "change" PROVE ChangeInv'
  BY <1>2 DEF TakesPool, ChangeInv
<1>3. CASE GetNewAddress \/ TopUpThread \/ \E h \in Holder : GetReservedKey(h)
  BY <1>2, <1>3, WalletKeysAssumption DEF GetNewAddress, TopUpThread, GetReservedKey
<1>4. CASE GenerateNewKey \/ WritePool
  BY <1>0, <1>4 DEF GenerateNewKey, WritePool, ChangeInv
<1>5. CASE Restart \/ GenerateNewKeyThrows \/ TakeKey \/ RenameFile \/ ChangeRefused \/ ChangeEnds
  BY <1>1, <1>5 DEF Restart, GenerateNewKeyThrows, TakeKey, RenameFile, ChangeRefused, ChangeEnds
<1>6. CASE Filled
  BY <1>0, <1>1, <1>6 DEF Filled, ChangeInv
<1>7. CASE EncryptKeys \/ CommitEncryption \/ ErasePoolRecord \/ ClearPool \/ RelockEncrypted
           \/ CopyFile \/ RemoveFile
  <2>1. /\ job.by = "encrypt" \/ job.pc \in {"commit", "erase", "copy", "remove"} \/ EncryptKeys
        /\ job'.by = job.by \/ EncryptKeys
    BY <1>0, <1>7 DEF CommitEncryption, ErasePoolRecord, ClearPool, RelockEncrypted, CopyFile,
                      RemoveFile
  <2>2. EncryptKeys => job'.by = "encrypt"
    BY DEF EncryptKeys
  <2>3. job'.by = "encrypt"
    BY <2>1, <2>2 DEF KeysInv, JobInv
  <2> QED  BY <2>3 DEF ChangeInv
<1>8. CASE ChangeBegins \/ ChangeLocks
  BY <1>0, <1>8 DEF ChangeBegins, ChangeLocks, ChangeInv
<1>9. CASE UNCHANGED job
  BY <1>9 DEF ChangeInv
<1>10. CASE \/ WalletPassphrase \/ StartThreads \/ TimerStarts \/ TimerExpires \/ TimerEnds
            \/ WalletLock \/ (\E h \in Holder : KeepKey(h) \/ ReturnKey(h)) \/ UNCHANGED vars
  BY <1>9, <1>10 DEF WalletPassphrase, StartThreads, TimerStarts, TimerExpires, TimerEnds,
                     WalletLock, KeepKey, ReturnKey, vars
<1> QED
  BY <1>3, <1>4, <1>5, <1>6, <1>7, <1>8, <1>10 DEF Next, Crash

\* Wherever the process ends, the file that is found holds all keys encrypted
\* and the master key, or all of them in plain (EncryptWallet's transaction,
\* AddKey and AddCryptedKey before and after it, CDB::Rewrite).
THEOREM FilesEncryptedWhole == Spec => []EncryptedWhole
<1>1. KeysInv => EncryptedWhole
  BY DEF KeysInv, JobInv, FileInv, WalletFile, EncryptedWhole, NoFile
<1> QED  BY <1>1, KeysInvariant, PTL

\* No key that was handed out is ever missing from both files (KeepKey and
\* TakeKey erase pool records only, Rewrite removes wallet.dat only when it
\* has the copy).
THEOREM GivenKeysStayRecorded == Spec => []GivenKeysAreRecorded
<1>1. KeysInv => GivenKeysAreRecorded
  BY DEF KeysInv, GivenInv, GivenKeysAreRecorded
<1> QED  BY <1>1, KeysInvariant, PTL

-----------------------------------------------------------------------------
(***************************************************************************)
(* The timers.  A passphrase change that found the wallet open owes the    *)
(* same as an open wallet, for it will open it again; the encryption locks *)
(* the wallet itself before it rewrites the file.                          *)
(***************************************************************************)
Guarded == opening > 0 \/ starting > 0 \/ timed

TimedTypes ==
    /\ timed \in BOOLEAN /\ unlocked \in BOOLEAN /\ raced \in BOOLEAN
    /\ opening \in Nat /\ starting \in Nat /\ asleep \in Nat

OpenInv ==
    /\ unlocked /\ job.by # "encrypt" /\ ~raced => Guarded
    /\ job.pc = "was_unlocked" /\ ~raced => Guarded
    /\ job.pc \in {"copy", "remove", "rename"} => ~unlocked

TimedInv == TimedTypes /\ (timed => asleep > 0) /\ OpenInv

\* The threads stay where they are.
LEMMA SameTimers ==
    ASSUME TimedInv, UNCHANGED <<raced, opening, timed, starting, asleep>>,
           unlocked' \in BOOLEAN, OpenInv'
    PROVE  TimedInv'
  BY DEF TimedInv, TimedTypes

LEMMA SameLock ==
    ASSUME TimedInv, UNCHANGED <<unlocked, raced, opening, timed, starting, asleep>>,
           job'.by = "encrypt" \/ job.by # "encrypt",
           job'.pc = "was_unlocked" => job.pc = "was_unlocked",
           job'.pc \in {"copy", "remove", "rename"} => job.pc \in {"copy", "remove", "rename"}
    PROVE  TimedInv'
<1>1. OpenInv'
  BY DEF TimedInv, OpenInv, Guarded
<1> QED  BY <1>1, SameTimers DEF TimedInv, TimedTypes

LEMMA Locks ==
    ASSUME TimedInv, UNCHANGED <<raced, opening, timed, starting, asleep>>,
           unlocked' = FALSE, job'.pc = "was_unlocked" => job.pc = "was_unlocked"
    PROVE  TimedInv'
<1>1. OpenInv'
  BY DEF TimedInv, OpenInv, Guarded
<1> QED  BY <1>1, SameTimers

LEMMA NextTimedInv ==
    ASSUME KeysInv, TimedInv, [Next]_vars
    PROVE  TimedInv'
<1>0. /\ job = [by |-> job.by, pc |-> job.pc, key |-> job.key]
      /\ job.pc \in {"commit", "erase", "copy", "remove", "rename"} => job.by = "encrypt"
  BY DEF KeysInv, KeyTypes, JobInv
<1>1. CASE GetNewAddress \/ TopUpThread \/ \E h \in Holder : GetReservedKey(h)
  <2>1. /\ job = Idle /\ job'.pc \in {"take", "fill"}
        /\ UNCHANGED <<unlocked, raced, opening, timed, starting, asleep>>
    BY <1>1 DEF GetNewAddress, TopUpThread, GetReservedKey, TakesPool, timing
  <2> QED  BY <2>1, SameLock DEF Idle
<1>2. CASE Restart
  <2>1. /\ unlocked' = FALSE /\ raced' = FALSE /\ timed' = FALSE /\ job' = Idle
        /\ opening' = 0 /\ starting' = 0 /\ asleep' = 0
    BY <1>2 DEF Restart
  <2> QED  BY <2>1 DEF TimedInv, TimedTypes, OpenInv, Idle
<1>3. CASE GenerateNewKey \/ WritePool
  BY <1>0, <1>3, SameLock DEF GenerateNewKey, WritePool, timing
<1>4. CASE GenerateNewKeyThrows
  <2>1. CASE job.by = "topup"
    BY <1>2, <1>4, <2>1 DEF GenerateNewKeyThrows
  <2>2. CASE job.by # "topup"
    <3>1. /\ unlocked' = FALSE /\ job' = Idle
          /\ UNCHANGED <<raced, opening, timed, starting, asleep>>
      BY <1>4, <2>2 DEF GenerateNewKeyThrows, Locked, timing, TimedInv, TimedTypes
    <3> QED  BY <3>1, Locks DEF Idle
  <2> QED  BY <2>1, <2>2
<1>5. CASE Filled
  BY <1>0, <1>5, SameLock DEF Filled, Idle, timing
<1>6. CASE TakeKey
  <2>1. job.pc = "take" /\ job' = Idle /\ UNCHANGED <<unlocked, raced, opening, timed, starting, asleep>>
    BY <1>6 DEF TakeKey, timing
  <2>2. job.by # "encrypt"
    BY <2>1 DEF KeysInv, JobInv
  <2> QED  BY <2>1, <2>2, SameLock DEF Idle
<1>7. ASSUME NEW h \in Holder, KeepKey(h) \/ ReturnKey(h) PROVE TimedInv'
  BY <1>7, SameLock DEF KeepKey, ReturnKey, timing
<1>8. CASE EncryptKeys \/ ErasePoolRecord \/ CopyFile \/ RemoveFile
  <2>1. /\ job'.by = "encrypt"
        /\ \/ job'.pc \in {"commit", "erase"}
           \/ job.pc = "copy" /\ job'.pc = "remove"
           \/ job.pc = "remove" /\ job'.pc = "rename"
    BY <1>0, <1>8 DEF EncryptKeys, ErasePoolRecord, CopyFile, RemoveFile
  <2>2. UNCHANGED <<unlocked, raced, opening, timed, starting, asleep>>
    BY <1>8 DEF EncryptKeys, ErasePoolRecord, CopyFile, RemoveFile, timing
  <2> QED  BY <2>1, <2>2, SameLock
<1>9. CASE CommitEncryption
  <2>1. /\ unlocked' = TRUE /\ job'.by = "encrypt" /\ job'.pc = "erase"
        /\ UNCHANGED <<raced, opening, timed, starting, asleep>>
    BY <1>0, <1>9 DEF CommitEncryption, timing
  <2> QED  BY <2>1, SameTimers DEF OpenInv
<1>10. CASE ClearPool
  <2>1. /\ job'.by = "encrypt" /\ job'.pc # "was_unlocked"
        /\ job'.pc \in {"copy", "remove", "rename"} => ~unlocked
        /\ UNCHANGED <<unlocked, raced, opening, timed, starting, asleep>>
    BY <1>0, <1>10 DEF ClearPool, Locked, timing
  <2>2. OpenInv'
    BY <2>1 DEF OpenInv
  <2> QED  BY <2>1, <2>2, SameTimers DEF TimedInv, TimedTypes
<1>11. CASE RelockEncrypted
  BY <1>0, <1>11, Locks DEF RelockEncrypted, timing
<1>12. CASE RenameFile
  <2>1. ~unlocked /\ job' = Idle /\ UNCHANGED <<unlocked, raced, opening, timed, starting, asleep>>
    BY <1>12 DEF RenameFile, timing, TimedInv, OpenInv
  <2>2. unlocked' = FALSE
    BY <2>1 DEF TimedInv, TimedTypes
  <2> QED  BY <2>1, <2>2, Locks DEF Idle
<1>13. CASE WalletPassphrase
  <2>1. /\ job = Idle /\ job' = job /\ opening' = opening + 1
        /\ unlocked' \in BOOLEAN /\ raced' \in BOOLEAN
        /\ UNCHANGED <<timed, starting, asleep>>
    BY <1>13 DEF WalletPassphrase
  <2>2. opening' \in Nat /\ opening' > 0
    BY <2>1 DEF TimedInv, TimedTypes
  <2> QED  BY <2>1, <2>2 DEF TimedInv, TimedTypes, OpenInv, Guarded, Idle
<1>14. CASE StartThreads
  <2>1. /\ opening > 0 /\ opening' = opening - 1 /\ starting' = starting + 1
        /\ UNCHANGED <<unlocked, raced, timed, asleep, job>>
    BY <1>14 DEF StartThreads
  <2>2. opening' \in Nat /\ starting' \in Nat /\ starting' > 0
    BY <2>1 DEF TimedInv, TimedTypes
  <2> QED  BY <2>1, <2>2 DEF TimedInv, TimedTypes, OpenInv, Guarded
<1>15. CASE TimerStarts
  <2>1. /\ starting > 0 /\ starting' = starting - 1 /\ timed' = TRUE
        /\ asleep' = IF timed THEN asleep ELSE asleep + 1
        /\ UNCHANGED <<unlocked, raced, opening, job>>
    BY <1>15 DEF TimerStarts
  <2>2. starting' \in Nat
    BY <2>1 DEF TimedInv, TimedTypes
  <2>3. asleep' \in Nat /\ asleep' > 0
    <3>1. CASE timed
      BY <2>1, <3>1 DEF TimedInv, TimedTypes
    <3>2. CASE ~timed
      <4>1. asleep \in Nat /\ asleep' = asleep + 1
        BY <2>1, <3>2 DEF TimedInv, TimedTypes
      <4> QED  BY <4>1
    <3> QED  BY <3>1, <3>2
  <2> QED  BY <2>1, <2>2, <2>3 DEF TimedInv, TimedTypes, OpenInv, Guarded
\* Locked by a timer or by walletlock.
<1>16. ASSUME LockKeys, timed' = FALSE, asleep' \in Nat, UNCHANGED <<opening, starting, job>>
       PROVE  TimedInv'
  <2>1. /\ unlocked' = FALSE /\ raced' \in BOOLEAN
        /\ job.pc = "was_unlocked" => raced'
    BY <1>16 DEF LockKeys
  <2> QED  BY <1>16, <2>1 DEF TimedInv, TimedTypes, OpenInv
<1>17. CASE TimerExpires
  <2>1. asleep \in Nat /\ asleep > 0 /\ asleep' = asleep - 1
    BY <1>17 DEF TimerExpires, TimedInv, TimedTypes
  <2>2. asleep' \in Nat
    BY <2>1
  <2> QED  BY <1>16, <1>17, <2>2 DEF TimerExpires
<1>18. CASE WalletLock
  BY <1>16, <1>18 DEF WalletLock, TimedInv, TimedTypes
<1>19. CASE TimerEnds
  <2>1. asleep \in Nat /\ asleep > 0 /\ asleep' = asleep - 1
    BY <1>19 DEF TimerEnds, TimedInv, TimedTypes
  <2>2. asleep' \in Nat
    BY <2>1
  <2>3. ~timed /\ UNCHANGED <<unlocked, raced, opening, timed, starting, job>>
    BY <1>19 DEF TimerEnds
  <2> QED  BY <2>2, <2>3 DEF TimedInv, TimedTypes, OpenInv, Guarded
<1>20. CASE ChangeBegins
  <2>1. /\ job = Idle /\ fUseCrypto /\ job'.by = "change"
        /\ job'.pc \in {"was_locked", "was_unlocked"}
        /\ job'.pc = "was_unlocked" => unlocked
        /\ UNCHANGED <<unlocked, raced, opening, timed, starting, asleep>>
    BY <1>20 DEF ChangeBegins, Locked, timing
  <2>2. OpenInv'
    BY <2>1 DEF TimedInv, OpenInv, Guarded, Idle
  <2> QED  BY <2>1, <2>2, SameTimers DEF TimedInv, TimedTypes
<1>21. CASE ChangeLocks
  BY <1>0, <1>21, Locks DEF ChangeLocks, timing
<1>22. CASE ChangeRefused
  BY <1>0, <1>22, SameLock DEF ChangeRefused, Idle, timing
<1>23. CASE ChangeEnds
  <2>1. /\ job' = Idle /\ UNCHANGED <<raced, opening, timed, starting, asleep>>
        /\ unlocked' => job.pc = "was_unlocked"
    BY <1>23 DEF ChangeEnds, timing
  <2>2. OpenInv'
    BY <2>1 DEF TimedInv, OpenInv, Guarded, Idle
  <2>3. unlocked' \in BOOLEAN
    BY <1>23 DEF ChangeEnds
  <2> QED  BY <2>1, <2>2, <2>3, SameTimers
<1>24. CASE UNCHANGED vars
  BY <1>24, SameLock DEF vars, timing
<1> QED
  BY <1>1, <1>2, <1>3, <1>4, <1>5, <1>6, <1>7, <1>8, <1>9, <1>10, <1>11, <1>12, <1>13, <1>14,
     <1>15, <1>17, <1>18, <1>19, <1>20, <1>21, <1>22, <1>23, <1>24
     DEF Next, Crash

\* A wallet that walletpassphrase has opened is never left open: some thread
\* will lock it (the two threads it starts, and the hand-over between those
\* that sleep in ThreadCleanWalletPassphrase).
THEOREM UnlockedStaysTimed == Spec => []UnlockedIsTimed
<1>1. Init => TimedInv
  <2> SUFFICES ASSUME Init PROVE TimedInv
    OBVIOUS
  <2>1. /\ opening = 0 /\ starting = 0 /\ asleep = 0 /\ job = Idle
        /\ timed = FALSE /\ unlocked = FALSE /\ raced = FALSE
    BY DEF Init
  <2> QED  BY <2>1 DEF TimedInv, TimedTypes, OpenInv, Idle
<1>2. KeysInv /\ TimedInv /\ [Next]_vars => TimedInv'
  BY NextTimedInv
<1>3. TimedInv => UnlockedIsTimed
  BY DEF TimedInv, OpenInv, Guarded, UnlockedIsTimed
<1> QED  BY <1>1, <1>2, <1>3, KeysInvariant, PTL DEF Spec

-----------------------------------------------------------------------------
(***************************************************************************)
(* The key pool.  An index is free, in setKeyPool or with a holder, and    *)
(* the record of it stays in the file in the last two cases; NewKeyPool    *)
(* starts from 1 again and may write an index anew that a holder has, and  *)
(* only then two of them have the same one.  Without that, the records     *)
(* name each key once, and none that was handed out.                       *)
(***************************************************************************)
Pool == WalletFile.pool

Indices(S) == S \subseteq Nat \ {0} /\ \E n \in Nat : \A i \in S : i <= n

RecordInv ==
    /\ Indices(setKeyPool) /\ Indices(DOMAIN Pool)
    /\ \A i \in DOMAIN Pool : Pool[i] \in keys
    /\ job.pc = "record" => job.key \in keys
    /\ made \in Nat /\ keys \subseteq 1..made /\ given \subseteq 1..made

SetInv ==
    /\ job.pc = "erase" => job.key \in Nat
    /\ \A i \in setKeyPool \ reissued : (job.pc = "erase" => i > job.key) => i \in DOMAIN Pool

Held(h) == reserved[h] # Nobody

HeldInv ==
    \A h \in Holder : Held(h) =>
       /\ reserved[h].index \in Nat \ {0}
       /\ reserved[h].index \notin reissued =>
             /\ reserved[h].index \in DOMAIN Pool \ setKeyPool
             /\ Pool[reserved[h].index] = reserved[h].key
             /\ \A g \in Holder \ {h} : Held(g) => reserved[g].index # reserved[h].index

UniqueInv ==
    reissued = {} =>
       /\ again = {}
       /\ \A i \in DOMAIN Pool : Pool[i] \notin given
       /\ \A i, j \in DOMAIN Pool : Pool[i] = Pool[j] => i = j
       /\ job.pc = "record" => job.key \notin given /\ \A i \in DOMAIN Pool : Pool[i] # job.key

PoolInv == RecordInv /\ SetInv /\ HeldInv /\ UniqueInv

LEMMA OneIndexMore ==
    ASSUME NEW S, Indices(S), NEW i \in Nat \ {0}
    PROVE  Indices(S \cup {i})
<1>1. PICK n \in Nat : \A j \in S : j <= n
  BY DEF Indices
<1>2. \A j \in S \cup {i} : j <= n + i
  BY <1>1 DEF Indices
<1> QED  BY <1>2 DEF Indices

LEMMA FewerIndices ==
    ASSUME NEW S, Indices(S), NEW T \in SUBSET S
    PROVE  Indices(T)
  BY DEF Indices

\* "nEnd": the index after the last of the pool.
LEMMA NextIndexIsFree ==
    ASSUME Indices(setKeyPool)
    PROVE  NextIndex \in Nat \ {0} /\ NextIndex \notin setKeyPool
<1>1. CASE setKeyPool = {}
  BY <1>1 DEF NextIndex
<1>2. CASE setKeyPool # {}
  <2> DEFINE B == {n \in Nat : \A i \in setKeyPool : i <= n}
  <2>1. PICK m \in B : \A n \in B : m <= n
    <3>1. B \in SUBSET Nat /\ B # {}
      BY DEF Indices
    <3> HIDE DEF B
    <3> QED  BY <3>1, LeastNatural
  <2>2. m \in setKeyPool
    <3>1. SUFFICES ASSUME m \notin setKeyPool PROVE FALSE
      OBVIOUS
    <3>2. \A i \in setKeyPool : i \in Nat /\ i > 0 /\ i <= m - 1
      BY <2>1, <3>1 DEF Indices
    <3>3. m - 1 \in B
      BY <1>2, <2>1, <3>2
    <3> QED  BY <2>1, <3>3
  <2>3. \E x \in setKeyPool : \A y \in setKeyPool : x >= y
    BY <2>1, <2>2 DEF Indices
  <2>4. Max(setKeyPool) \in setKeyPool /\ \A y \in setKeyPool : Max(setKeyPool) >= y
    BY <2>3 DEF Max
  <2>5. ASSUME NEW n \in setKeyPool, \A y \in setKeyPool : n >= y
        PROVE  n + 1 \in Nat \ {0} /\ n + 1 \notin setKeyPool
    <3>1. n \in Nat /\ n + 1 \in Nat \ {0} /\ ~(n >= n + 1)
      BY DEF Indices
    <3> QED  BY <2>5, <3>1
  <2> QED  BY <1>2, <2>4, <2>5 DEF NextIndex
<1> QED  BY <1>1, <1>2

\* The front of the pool.
LEMMA FrontOfPool ==
    ASSUME Indices(setKeyPool), setKeyPool # {}
    PROVE  Min(setKeyPool) \in setKeyPool
<1>1. \E x \in setKeyPool : \A y \in setKeyPool : x <= y
  BY LeastNatural DEF Indices
<1> QED  BY <1>1 DEF Min

LEMMA InitPoolInv == Init => PoolInv
<1> SUFFICES ASSUME Init PROVE PoolInv
  OBVIOUS
<1>1. /\ setKeyPool = 1..KeyPool + 1 /\ keys = 1..KeyPool + 1 /\ made = KeyPool + 1
      /\ Pool = [i \in 1..KeyPool + 1 |-> i] /\ job.pc = "idle"
      /\ given = {} /\ again = {} /\ \A h \in Holder : ~Held(h)
  BY DEF Init, Pool, WalletFile, Idle, FullFile, Held
<1>2. KeyPool + 1 \in Nat
  BY WalletKeysAssumption
<1>3. Indices(1..KeyPool + 1)
  BY <1>2 DEF Indices
<1> QED  BY <1>1, <1>2, <1>3 DEF PoolInv, RecordInv, SetInv, HeldInv, UniqueInv

\* Nothing of the pool changes.
LEMMA SamePool ==
    ASSUME PoolInv, Pool' = Pool, UNCHANGED <<keys, setKeyPool, reserved, history, made>>,
           job.pc = "erase" => job'.pc = "erase" /\ job'.key = job.key,
           job'.pc = "erase" => job'.key \in Nat,
           job'.pc = "record" => job.pc = "record" /\ job'.key = job.key
    PROVE  PoolInv'
<1>1. RecordInv'
  BY DEF PoolInv, RecordInv, history, Indices
<1>2. SetInv'
  BY DEF PoolInv, SetInv, history
<1>3. HeldInv'
  BY DEF PoolInv, HeldInv, history, Held
<1>4. UniqueInv'
  BY DEF PoolInv, UniqueInv, history
<1> QED  BY <1>1, <1>2, <1>3, <1>4 DEF PoolInv

\* A record is erased: one of a key handed out, or of the set.
LEMMA RecordErased ==
    ASSUME PoolInv, NEW i, Pool' = [j \in DOMAIN Pool \ {i} |-> Pool[j]],
           UNCHANGED <<keys, made>>
    PROVE  /\ Indices(DOMAIN Pool')
           /\ \A j \in DOMAIN Pool' : j \in DOMAIN Pool /\ j # i /\ Pool'[j] = Pool[j] /\ Pool'[j] \in keys
           /\ \A j \in DOMAIN Pool : j # i => j \in DOMAIN Pool'
<1>1. Indices(DOMAIN Pool \ {i})
  BY FewerIndices DEF PoolInv, RecordInv
<1> QED  BY <1>1 DEF PoolInv, RecordInv

LEMMA NextPoolInv ==
    ASSUME KeysInv, ChangeInv, PoolInv, [Next]_vars
    PROVE  PoolInv'
<1>0. /\ job = [by |-> job.by, pc |-> job.pc, key |-> job.key]
      /\ FileShape(file) /\ FileShape(rewrite)
      /\ reserved = [h \in Holder |-> reserved[h]]
      /\ keys = Recorded(WalletFile)
      /\ \A h \in Holder : Held(h) => reserved[h].key \in keys
  BY DEF KeysInv, KeyTypes, FileInv, GivenInv, Held
<1>j. JobInv /\ JobInv'
  BY NextKeysInv DEF KeysInv
<1>1. CASE GetNewAddress \/ TopUpThread \/ \E h \in Holder : GetReservedKey(h)
  <2>1. /\ job = Idle /\ job'.pc \in {"take", "fill"}
        /\ UNCHANGED <<memory, disk, history, made>>
    BY <1>1 DEF GetNewAddress, TopUpThread, GetReservedKey, TakesPool, counts
  <2>2. Pool' = Pool
    BY <2>1 DEF Pool, WalletFile, disk, Idle
  <2> QED  BY <2>1, <2>2, SamePool DEF memory, Idle
<1>2. CASE GenerateNewKey
  <2>1. /\ job.pc = "fill" /\ job'.pc = "record" /\ job'.key = made + 1
        /\ made' = made + 1 /\ keys' = keys \cup {made + 1}
        /\ UNCHANGED <<setKeyPool, reserved, history>>
    BY <1>0, <1>2 DEF GenerateNewKey
  <2>2. Pool' = Pool
    BY <1>0, <1>2 DEF GenerateNewKey, AddKey, Pool, WalletFile, FileShape
  <2>3. RecordInv'
    <3>1. Indices(setKeyPool') /\ Indices(DOMAIN Pool')
      BY <2>1, <2>2 DEF PoolInv, RecordInv
    <3>2. made' \in Nat /\ 1..made' = 1..made \cup {made'} /\ 1..made \subseteq 1..made'
      BY <2>1 DEF PoolInv, RecordInv
    <3>3. keys' \subseteq 1..made' /\ given' \subseteq 1..made'
      BY <2>1, <3>2 DEF PoolInv, RecordInv, history
    <3> QED  BY <2>1, <2>2, <3>1, <3>2, <3>3 DEF PoolInv, RecordInv
  <2>4. SetInv' /\ HeldInv'
    BY <2>1, <2>2 DEF PoolInv, SetInv, HeldInv, Held, history
  <2>5. made + 1 \notin given /\ \A i \in DOMAIN Pool : Pool[i] # made + 1
    BY DEF PoolInv, RecordInv
  <2>6. UniqueInv'
    BY <2>1, <2>2, <2>5 DEF PoolInv, UniqueInv, history
  <2> QED  BY <2>3, <2>4, <2>6 DEF PoolInv
<1>3. ASSUME Restart, UNCHANGED made PROVE PoolInv'
  <2>1. /\ job'.pc = "idle" /\ setKeyPool' = DOMAIN file.pool /\ keys' = Recorded(file)
        /\ Pool' = file.pool
        /\ \A h \in Holder : ~Held(h)'
        /\ UNCHANGED history
    BY <1>3 DEF Restart, Idle, Pool, WalletFile, Held, disk
  <2>2. CASE job.pc = "rename"
    <3>1. DOMAIN file.pool = {} /\ Recorded(file) = {}
      BY <1>j, <2>2 DEF JobInv, NoFile, Recorded
    <3>2. Indices({})
      BY DEF Indices
    <3> QED  BY <1>3, <2>1, <3>1, <3>2
             DEF PoolInv, RecordInv, SetInv, HeldInv, UniqueInv, history
  <2>3. CASE job.pc # "rename"
    <3>1. file.pool = Pool /\ Recorded(file) = keys
      BY <1>0, <2>3 DEF Pool, WalletFile
    <3>2. RecordInv'
      BY <1>3, <2>1, <3>1 DEF PoolInv, RecordInv, Indices, history
    <3> QED  BY <2>1, <3>1, <3>2 DEF PoolInv, SetInv, HeldInv, UniqueInv, history
  <2> QED  BY <2>2, <2>3
<1>4. CASE GenerateNewKeyThrows
  <2>1. UNCHANGED made
    BY <1>4 DEF GenerateNewKeyThrows, counts
  <2>2. CASE job.by = "topup"
    BY <1>3, <1>4, <2>1, <2>2 DEF GenerateNewKeyThrows
  <2>3. CASE job.by # "topup"
    <3>1. job.pc = "fill" /\ job' = Idle /\ UNCHANGED <<memory, disk, history>>
      BY <1>4, <2>3 DEF GenerateNewKeyThrows
    <3>2. Pool' = Pool
      BY <3>1 DEF Pool, WalletFile, disk, Idle
    <3> QED  BY <2>1, <3>1, <3>2, SamePool DEF memory, Idle
  <2> QED  BY <2>2, <2>3
<1>5. CASE WritePool
  <2> DEFINE n == NextIndex
  <2>1. /\ job.pc = "record" /\ job'.pc = "fill"
        /\ Pool' = [j \in DOMAIN Pool \cup {n} |-> IF j = n THEN job.key ELSE Pool[j]]
        /\ setKeyPool' = setKeyPool \cup {n}
        /\ reissued' = reissued \cup {j \in {n} : \E h \in Holder : reserved[h].index = n}
        /\ UNCHANGED <<keys, reserved, given, again, made>>
    BY <1>0, <1>5 DEF WritePool, Pool, WalletFile, FileShape, counts
  <2>2. n \in Nat \ {0} /\ n \notin setKeyPool
    BY NextIndexIsFree DEF PoolInv, RecordInv
  <2> HIDE DEF n
  <2>3. /\ DOMAIN Pool' = DOMAIN Pool \cup {n} /\ Pool'[n] = job.key
        /\ \A j \in DOMAIN Pool \ {n} : Pool'[j] = Pool[j]
    BY <2>1
  <2>4. RecordInv'
    BY <2>1, <2>2, <2>3, OneIndexMore DEF PoolInv, RecordInv
  <2>5. SetInv'
    BY <2>1, <2>3 DEF PoolInv, SetInv
  <2>6. HeldInv'
    BY <2>1, <2>2, <2>3 DEF PoolInv, HeldInv, Held
  <2>7. UniqueInv'
    BY <2>1, <2>3 DEF PoolInv, UniqueInv
  <2> QED  BY <2>4, <2>5, <2>6, <2>7 DEF PoolInv
<1>6. CASE Filled
  <2>1. /\ job.pc = "fill" /\ job'.pc \in {"idle", "take"} /\ UNCHANGED <<memory, disk, history, made>>
    BY <1>0, <1>6 DEF Filled, Idle, counts
  <2>2. Pool' = Pool
    BY <2>1 DEF Pool, WalletFile, disk
  <2> QED  BY <2>1, <2>2, SamePool DEF memory
<1>7. CASE TakeKey
  <2> DEFINE n == Min(setKeyPool)
  <2>1. /\ job.pc = "take" /\ job' = Idle /\ UNCHANGED <<keys, reissued, made, rewrite>>
    BY <1>7 DEF TakeKey, counts
  <2>2. WalletFile = file /\ Pool = file.pool /\ Pool' = file'.pool
    BY <2>1 DEF Pool, WalletFile, Idle
  <2>3. setKeyPool # {} => n \in setKeyPool
    BY FrontOfPool DEF PoolInv, RecordInv
  <2> HIDE DEF n
  <2>4. CASE UNCHANGED <<setKeyPool, reserved, file, given, again>>
    BY <2>1, <2>2, <2>4, SamePool DEF history, Idle
  <2>5. CASE setKeyPool # {} /\ ~Readable(n) /\ setKeyPool' = setKeyPool \ {n}
             /\ UNCHANGED <<reserved, file, given, again>>
    <3>1. Indices(setKeyPool')
      BY <2>5, FewerIndices DEF PoolInv, RecordInv
    <3> QED
      BY <2>1, <2>2, <2>5, <3>1 DEF PoolInv, RecordInv, SetInv, HeldInv, Held, UniqueInv, Idle
  <2>6. CASE /\ setKeyPool # {} /\ Readable(n) /\ setKeyPool' = setKeyPool \ {n}
             /\ ErasePool(n) /\ GiveOut(file.pool[n]) /\ UNCHANGED reserved
    <3>1. /\ Pool' = [j \in DOMAIN Pool \ {n} |-> Pool[j]]
          /\ given' = given \cup {Pool[n]} /\ again' = again \cup (given \cap {Pool[n]})
          /\ n \in DOMAIN Pool /\ Pool[n] \in keys
      BY <1>0, <2>2, <2>6 DEF ErasePool, GiveOut, Readable, FileShape
    <3>2. /\ Indices(DOMAIN Pool')
          /\ \A j \in DOMAIN Pool' : j \in DOMAIN Pool /\ j # n /\ Pool'[j] = Pool[j] /\ Pool'[j] \in keys
          /\ \A j \in DOMAIN Pool : j # n => j \in DOMAIN Pool'
      BY <2>1, <3>1, RecordErased
    <3>3. Indices(setKeyPool')
      BY <2>6, FewerIndices DEF PoolInv, RecordInv
    <3>4. RecordInv'
      BY <2>1, <3>1, <3>2, <3>3 DEF PoolInv, RecordInv, Idle
    <3>5. SetInv' /\ HeldInv'
      BY <2>1, <2>3, <2>6, <3>1, <3>2 DEF PoolInv, SetInv, HeldInv, Held, Idle
    <3>6. UniqueInv'
      BY <2>1, <3>1, <3>2 DEF PoolInv, UniqueInv, Idle
    <3> QED  BY <3>4, <3>5, <3>6 DEF PoolInv
  <2>7. ASSUME NEW h \in Holder, setKeyPool # {}, Readable(n), setKeyPool' = setKeyPool \ {n},
               reserved' = [reserved EXCEPT ![h] = [index |-> n, key |-> file.pool[n]]],
               UNCHANGED <<file, given, again>>
        PROVE  PoolInv'
    <3>1. n \in Nat \ {0} /\ n \in setKeyPool /\ n \in DOMAIN Pool
      BY <2>2, <2>3, <2>7 DEF PoolInv, RecordInv, Indices, Readable
    <3>2. /\ Held(h)' /\ reserved'[h].index = n /\ reserved'[h].key = Pool[n]
          /\ \A g \in Holder \ {h} : reserved'[g] = reserved[g]
      <4>1. reserved'[h] = [index |-> n, key |-> Pool[n]]
            /\ \A g \in Holder \ {h} : reserved'[g] = reserved[g]
        BY <1>0, <2>2, <2>7
      <4>2. [index |-> n, key |-> Pool[n]] # Nobody
        BY <3>1 DEF Nobody
      <4> QED  BY <4>1, <4>2 DEF Held
    <3>3. Indices(setKeyPool')
      BY <2>7, FewerIndices DEF PoolInv, RecordInv
    <3>4. RecordInv' /\ SetInv' /\ UniqueInv'
      BY <2>1, <2>2, <2>7, <3>3 DEF PoolInv, RecordInv, SetInv, UniqueInv, Idle
    <3>5. HeldInv'
      BY <2>1, <2>2, <2>7, <3>1, <3>2 DEF PoolInv, HeldInv, Held
    <3> QED  BY <3>4, <3>5 DEF PoolInv
  <2> QED  BY <1>7, <2>4, <2>5, <2>6, <2>7 DEF TakeKey, n
<1>8. ASSUME NEW h \in Holder, KeepKey(h) PROVE PoolInv'
  <2> DEFINE n == reserved[h].index
  <2>1. /\ Held(h) /\ job.pc # "rename" /\ given' = given \cup {reserved[h].key}
        /\ again' = again \cup (given \cap {reserved[h].key})
        /\ ~Held(h)' /\ \A g \in Holder \ {h} : reserved'[g] = reserved[g]
        /\ UNCHANGED <<keys, setKeyPool, job, reissued, made>>
    BY <1>0, <1>8 DEF KeepKey, GiveOut, Held, counts
  <2>2. Pool' = [j \in DOMAIN Pool \ {n} |-> Pool[j]]
    BY <1>0, <1>8, <2>1 DEF KeepKey, ErasePool, Pool, WalletFile, FileShape
  <2>3. /\ Indices(DOMAIN Pool')
        /\ \A j \in DOMAIN Pool' : j \in DOMAIN Pool /\ j # n /\ Pool'[j] = Pool[j] /\ Pool'[j] \in keys
        /\ \A j \in DOMAIN Pool : j # n => j \in DOMAIN Pool'
    BY <2>1, <2>2, RecordErased
  <2>4. n \notin reissued => /\ n \in DOMAIN Pool \ setKeyPool /\ Pool[n] = reserved[h].key
                             /\ \A g \in Holder \ {h} : Held(g) => reserved[g].index # n
    BY <2>1 DEF PoolInv, HeldInv
  <2> HIDE DEF n
  <2>5. RecordInv'
    BY <1>0, <2>1, <2>3 DEF PoolInv, RecordInv
  <2>6. SetInv'
    BY <2>1, <2>3, <2>4 DEF PoolInv, SetInv
  <2>7. HeldInv'
    BY <2>1, <2>3, <2>4 DEF PoolInv, HeldInv, Held
  <2>8. UniqueInv'
    BY <2>1, <2>3, <2>4 DEF PoolInv, UniqueInv
  <2> QED  BY <2>5, <2>6, <2>7, <2>8 DEF PoolInv
<1>9. ASSUME NEW h \in Holder, ReturnKey(h) PROVE PoolInv'
  <2> DEFINE n == reserved[h].index
  <2>1. /\ Held(h) /\ job = Idle /\ job' = job /\ setKeyPool' = setKeyPool \cup {n}
        /\ ~Held(h)' /\ \A g \in Holder \ {h} : reserved'[g] = reserved[g]
        /\ Pool' = Pool /\ UNCHANGED <<keys, history, made>>
    BY <1>0, <1>9 DEF ReturnKey, Held, counts, disk, Pool, WalletFile
  <2>2. /\ n \in Nat \ {0}
        /\ n \notin reissued => /\ n \in DOMAIN Pool
                                /\ \A g \in Holder \ {h} : Held(g) => reserved[g].index # n
    BY <2>1 DEF PoolInv, HeldInv
  <2> HIDE DEF n
  <2>3. RecordInv' /\ SetInv' /\ UniqueInv'
    BY <2>1, <2>2, OneIndexMore DEF PoolInv, RecordInv, SetInv, UniqueInv, history, Idle
  <2>4. HeldInv'
    BY <2>1, <2>2 DEF PoolInv, HeldInv, Held, history
  <2> QED  BY <2>3, <2>4 DEF PoolInv
<1>10. CASE EncryptKeys
  <2>1. /\ job.pc = "idle" /\ job'.pc = "commit" /\ Pool' = Pool
        /\ UNCHANGED <<keys, setKeyPool, reserved, history, made>>
    BY <1>10 DEF EncryptKeys, Idle, Pool, WalletFile, disk, counts
  <2> QED  BY <2>1, SamePool
<1>11. CASE CommitEncryption
  <2>1. /\ job.pc = "commit" /\ job'.pc = "erase" /\ job'.key = 0 /\ Pool' = Pool
        /\ UNCHANGED <<keys, setKeyPool, reserved, history, made>>
    BY <1>0, <1>11 DEF CommitEncryption, Pool, WalletFile, FileShape, memory, counts
  <2> QED  BY <2>1, SamePool
<1>12. CASE ErasePoolRecord
  <2>1. PICK n \in setKeyPool : /\ n > job.key /\ \A j \in setKeyPool : j > job.key => n <= j
                                /\ ErasePool(n) /\ job' = [job EXCEPT !.key = n]
    BY <1>12 DEF ErasePoolRecord
  <2>2. /\ job.pc = "erase" /\ job'.pc = "erase" /\ job'.key = n
        /\ UNCHANGED <<keys, setKeyPool, reserved, history, made>>
    BY <1>0, <1>12, <2>1 DEF ErasePoolRecord, memory, counts
  <2>3. Pool' = [j \in DOMAIN Pool \ {n} |-> Pool[j]]
    BY <1>0, <2>1, <2>2 DEF ErasePool, Pool, WalletFile, FileShape
  <2>4. /\ Indices(DOMAIN Pool')
        /\ \A j \in DOMAIN Pool' : j \in DOMAIN Pool /\ j # n /\ Pool'[j] = Pool[j] /\ Pool'[j] \in keys
        /\ \A j \in DOMAIN Pool : j # n => j \in DOMAIN Pool'
    BY <2>2, <2>3, RecordErased
  <2>5. n \in Nat
    BY DEF PoolInv, RecordInv, Indices
  <2>6. RecordInv'
    BY <2>2, <2>4 DEF PoolInv, RecordInv, history
  <2>7. SetInv'
    <3>1. job.key \in Nat /\ n > job.key /\ setKeyPool \subseteq Nat
      BY <2>1, <2>2 DEF PoolInv, SetInv, RecordInv, Indices
    <3>2. \A j \in setKeyPool : j > n => j > job.key /\ j # n
      BY <2>5, <3>1
    <3> QED  BY <2>2, <2>4, <2>5, <3>2 DEF PoolInv, SetInv, history
  <2>8. HeldInv'
    BY <2>2, <2>4 DEF PoolInv, HeldInv, Held, history
  <2>9. UniqueInv'
    BY <2>2, <2>4 DEF PoolInv, UniqueInv, history
  <2> QED  BY <2>6, <2>7, <2>8, <2>9 DEF PoolInv
<1>13. CASE ClearPool
  <2>1. /\ job.pc = "erase" /\ job'.pc \in {"copy", "fill"} /\ setKeyPool' = {} /\ Pool' = Pool
        /\ UNCHANGED <<keys, reserved, history, made>>
    BY <1>0, <1>13 DEF ClearPool, Pool, WalletFile, disk, counts
  <2>2. Indices({})
    BY DEF Indices
  <2> QED
    BY <2>1, <2>2 DEF PoolInv, RecordInv, SetInv, HeldInv, Held, UniqueInv, history, Indices
<1>14. CASE RelockEncrypted
  <2>1. /\ job.pc = "fill" /\ job'.pc = "copy" /\ Pool' = Pool
        /\ UNCHANGED <<keys, setKeyPool, reserved, history, made>>
    BY <1>0, <1>14 DEF RelockEncrypted, Pool, WalletFile, memory, disk, counts
  <2> QED  BY <2>1, SamePool
<1>15. CASE CopyFile \/ RemoveFile \/ RenameFile
  <2>1. /\ job.pc \in {"copy", "remove", "rename"} /\ job'.pc \in {"remove", "rename", "idle"}
        /\ UNCHANGED <<keys, setKeyPool, reserved, history, made>>
    BY <1>0, <1>15 DEF CopyFile, RemoveFile, RenameFile, Idle, memory, counts
  <2>2. Pool' = Pool
    BY <1>0, <1>j, <1>15 DEF CopyFile, RemoveFile, RenameFile, Idle, Pool, WalletFile, JobInv
  <2> QED  BY <2>1, <2>2, SamePool
\* The timers and the locks.
<1>16. CASE UNCHANGED <<memory, disk, job, history, made>>
  <2>1. Pool' = Pool
    BY <1>16 DEF Pool, WalletFile, disk
  <2> QED  BY <1>16, <2>1, SamePool DEF memory, PoolInv, SetInv
<1>17. CASE ChangeBegins \/ ChangeLocks \/ ChangeRefused \/ ChangeEnds
  <2>1. job = Idle \/ job.by = "change"
    BY <1>17 DEF ChangeBegins, ChangeLocks, ChangeRefused, ChangeEnds
  <2>2. job.pc \in {"idle", "was_locked", "was_unlocked"}
    BY <2>1 DEF ChangeInv, Idle
  <2>3. job'.pc \in {"idle", "was_locked", "was_unlocked"}
    <3>1. CASE ChangeBegins
      BY <3>1 DEF ChangeBegins
    <3>2. CASE ChangeLocks
      BY <1>0, <2>2, <3>2 DEF ChangeLocks
    <3>3. CASE ChangeRefused \/ ChangeEnds
      BY <3>3 DEF ChangeRefused, ChangeEnds, Idle
    <3> QED  BY <1>17, <3>1, <3>2, <3>3
  <2>4. UNCHANGED <<memory, disk, history, made>>
    BY <1>17 DEF ChangeBegins, ChangeLocks, ChangeRefused, ChangeEnds, counts
  <2>5. Pool' = Pool
    BY <2>2, <2>3, <2>4 DEF Pool, WalletFile, disk
  <2> QED  BY <2>2, <2>3, <2>4, <2>5, SamePool DEF memory
<1>18. CASE \/ WalletPassphrase \/ StartThreads \/ TimerStarts \/ TimerExpires \/ TimerEnds
            \/ WalletLock \/ UNCHANGED vars
  BY <1>16, <1>18 DEF WalletPassphrase, StartThreads, TimerStarts, TimerExpires, TimerEnds,
                      WalletLock, counts, vars
<1> QED
  BY <1>1, <1>2, <1>3, <1>4, <1>5, <1>6, <1>7, <1>8, <1>9, <1>10, <1>11, <1>12, <1>13, <1>14,
     <1>15, <1>17, <1>18 DEF Next, Crash

LEMMA PoolInvariant == Spec => [](KeysInv /\ PoolInv)
<1>1. Init => ChangeInv
  BY DEF Init, Idle, ChangeInv
<1>2. KeysInv /\ ChangeInv /\ [Next]_vars => ChangeInv'
  BY NextChangeInv
<1>3. KeysInv /\ ChangeInv /\ PoolInv /\ [Next]_vars => PoolInv'
  BY NextPoolInv
<1> QED  BY <1>1, <1>2, <1>3, InitPoolInv, KeysInvariant, PTL DEF Spec

\* Reserving a key does not throw "read failed" or "unknown key": the record of
\* each free index is there and names a key of the store (TopUpKeyPool,
\* ReserveKeyFromKeyPool, KeepKey and ReturnKey, with any crash between two
\* writes), but for indices that NewKeyPool wrote anew under a holder.
THEOREM PoolStaysReadable == Spec => []PoolIsReadable
<1>1. KeysInv /\ PoolInv => PoolIsReadable
  <2> SUFFICES ASSUME KeysInv, PoolInv, job.by # "encrypt", NEW i \in setKeyPool \ reissued
               PROVE  Readable(i)
    BY DEF PoolIsReadable
  <2>1. job.pc \notin {"erase", "rename"}
    BY DEF KeysInv, JobInv
  <2>2. Pool = file.pool
    BY <2>1 DEF Pool, WalletFile
  <2> QED  BY <2>1, <2>2 DEF PoolInv, RecordInv, SetInv, Readable
<1> QED  BY <1>1, PoolInvariant, PTL

\* No key is handed out twice, restarts included, unless NewKeyPool has written
\* an index anew under a holder (KeepKey erases the record that it gave out).
THEOREM KeysStayGivenOnce == Spec => []KeysGivenOnce
<1>1. PoolInv => KeysGivenOnce
  BY DEF PoolInv, UniqueInv, KeysGivenOnce
<1> QED  BY <1>1, PoolInvariant, PTL
=============================================================================
