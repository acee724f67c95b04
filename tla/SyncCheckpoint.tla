--------------------------- MODULE SyncCheckpoint ---------------------------
(***************************************************************************)
(* Synchronized checkpoints (src/checkpoints.cpp) over the chain state.    *)
(*                                                                         *)
(* A signed "checkpoint" message names a block.  A block the node has not  *)
(* indexed makes it a pending checkpoint, looked at again whenever a block *)
(* is accepted; an indexed block that descends from the current checkpoint *)
(* becomes the current one, and SetBestChain is called for it if it is not *)
(* in the main chain, whatever its trust.  AcceptBlock does not check      *)
(* blocks against the checkpoint (CheckSync is commented out), so a chain  *)
(* with more trust leaves the checkpoint behind again.                     *)
(*                                                                         *)
(* Each handler holds cs_main from its start to its end; step names the    *)
(* handler that is running, and SetBestChain's own steps are ChainState's. *)
(* Signatures are not modelled: a message is one the master key signed.    *)
(***************************************************************************)
EXTENDS ChainState

CONSTANTS
    Signed,         \* the blocks that a signed checkpoint may name
    Hardened        \* mapCheckpoints

ASSUME SyncAssumption ==
    /\ Signed \subseteq Block
    /\ Hardened \subseteq Block /\ Genesis \in Hardened
    /\ \A h, k \in Hardened : Height[h] = Height[k] => h = k

VARIABLES
    hashSyncCheckpoint,
    dbSyncCheckpoint,           \* its record in txindex.dat
    hashPendingCheckpoint,
    hashInvalidCheckpoint,
    checkpointMessage,          \* the blocks that these two messages name
    checkpointMessagePending,
    step,                       \* the handler that is running
    hashCheckpoint              \* the message that "received" handles

checkpoint == <<hashSyncCheckpoint, dbSyncCheckpoint>>
pending == <<hashPendingCheckpoint, checkpointMessagePending>>
syncvars == <<checkpoint, pending, hashInvalidCheckpoint, checkpointMessage, step, hashCheckpoint>>
allvars == <<vars, syncvars>>

LastHardened == CHOOSE h \in Hardened : \A k \in Hardened : Height[k] <= Height[h]

IsInMainChain(b) == pnext[b] # NoBlock \/ b = pindexBest

\* The block below b at the height of a, by pprev.
AtHeightOf(b, a) == CHOOSE x \in Ancestors[b] : Height[x] = Height[a]

-----------------------------------------------------------------------------
\* ValidateSyncCheckpoint: the two are not on one branch.
ConflictsWith(h) ==
    IF Height[h] <= Height[hashSyncCheckpoint]
    THEN AtHeightOf(hashSyncCheckpoint, h) # h
    ELSE AtHeightOf(h, hashSyncCheckpoint) # hashSyncCheckpoint

\* Mutant: any block above the checkpoint passes.
ValidateSyncCheckpoint_AnyAbove(h) == Height[h] > Height[hashSyncCheckpoint]

\* ... only a descendant of the current checkpoint is allowed; an older one
\* is ignored.
ValidateSyncCheckpoint(h) ==
    Height[h] > Height[hashSyncCheckpoint] /\ ~ConflictsWith(h)

\* What ValidateSyncCheckpoint leaves in hashInvalidCheckpoint.
NoteConflict(h) ==
    hashInvalidCheckpoint' = IF ConflictsWith(h) THEN h ELSE hashInvalidCheckpoint

\* WriteSyncCheckpoint: committed on its own, then set in memory.
WriteSyncCheckpoint(h) == dbSyncCheckpoint' = h /\ hashSyncCheckpoint' = h

ClearPending == hashPendingCheckpoint' = NoBlock /\ checkpointMessagePending' = NoBlock

SetPending(h, message) == hashPendingCheckpoint' = h /\ checkpointMessagePending' = message

\* SetBestChain is called for an indexed block whatever its trust.
CallSetBestChain(b) ==
    /\ call' = "begin"
    /\ pindexNew' = b
    /\ UNCHANGED <<memory, bnBestInvalidTrust, blkdb, txdb, txn, cursor, rule>>

-----------------------------------------------------------------------------
\* LoadBlockIndex has created the genesis block and checkpointed it; the
\* master key is not in the database yet, so the checkpoint is to be reset.
SyncInit ==
    /\ Init
    /\ hashSyncCheckpoint = Genesis
    /\ dbSyncCheckpoint = Genesis
    /\ hashPendingCheckpoint = NoBlock
    /\ hashInvalidCheckpoint = NoBlock
    /\ checkpointMessage = NoBlock
    /\ checkpointMessagePending = NoBlock
    /\ step = "reset"
    /\ hashCheckpoint = NoBlock

\* AcceptBlock adds the block to the index and goes on when that succeeds.
AcceptBlock(b) ==
    /\ step = "idle"
    /\ AddToBlockIndex(b)
    /\ step' = "accept"
    /\ UNCHANGED <<checkpoint, pending, hashInvalidCheckpoint, checkpointMessage, hashCheckpoint>>

\* AcceptPendingSyncCheckpoint, at the end of AcceptBlock: nothing is pending
\* or it has not come, it is no valid checkpoint, or it is to be connected.
AcceptPendingSyncCheckpoint ==
    /\ step = "accept" /\ call = "idle"
    /\ \/ /\ hashPendingCheckpoint \notin mapBlockIndex
          /\ step' = "idle"
          /\ UNCHANGED <<vars, pending, hashInvalidCheckpoint>>
       \/ /\ hashPendingCheckpoint \in mapBlockIndex
          /\ ~ValidateSyncCheckpoint(hashPendingCheckpoint)
          /\ NoteConflict(hashPendingCheckpoint)
          /\ ClearPending
          /\ step' = "idle"
          /\ UNCHANGED vars
       \/ /\ hashPendingCheckpoint \in mapBlockIndex
          /\ ValidateSyncCheckpoint(hashPendingCheckpoint)
          /\ step' = "pending"
          /\ IF IsInMainChain(hashPendingCheckpoint) THEN UNCHANGED vars
             ELSE CallSetBestChain(hashPendingCheckpoint)
          /\ UNCHANGED <<pending, hashInvalidCheckpoint>>
    /\ UNCHANGED <<checkpoint, checkpointMessage, hashCheckpoint>>

\* ... its chain is the best one now.
AdoptPending ==
    /\ step = "pending" /\ call = "idle"
    /\ WriteSyncCheckpoint(hashPendingCheckpoint)
    /\ checkpointMessage' = checkpointMessagePending
    /\ ClearPending
    /\ step' = "idle"
    /\ UNCHANGED <<vars, hashInvalidCheckpoint, hashCheckpoint>>

\* ProcessSyncCheckpoint: the block is unknown, refused, or to be connected.
ProcessSyncCheckpoint(h) ==
    /\ step = "idle" /\ call = "idle"
    /\ \/ /\ h \notin mapBlockIndex
          /\ SetPending(h, h)
          /\ UNCHANGED <<vars, hashInvalidCheckpoint, step, hashCheckpoint>>
       \/ /\ h \in mapBlockIndex
          /\ ~ValidateSyncCheckpoint(h)
          /\ NoteConflict(h)
          /\ UNCHANGED <<vars, pending, step, hashCheckpoint>>
       \/ /\ h \in mapBlockIndex
          /\ ValidateSyncCheckpoint(h)
          /\ step' = "received"
          /\ hashCheckpoint' = h
          /\ IF IsInMainChain(h) THEN UNCHANGED vars ELSE CallSetBestChain(h)
          /\ UNCHANGED <<pending, hashInvalidCheckpoint>>
    /\ UNCHANGED <<checkpoint, checkpointMessage>>

\* Mutant: the checkpoint is adopted while SetBestChain still has to run.
AdoptReceived_Early ==
    /\ step = "received" /\ call \in {"idle", "begin"}
    /\ WriteSyncCheckpoint(hashCheckpoint)
    /\ checkpointMessage' = hashCheckpoint
    /\ ClearPending
    /\ step' = "idle"
    /\ hashCheckpoint' = NoBlock
    /\ UNCHANGED <<vars, hashInvalidCheckpoint>>

\* ... adopted: whatever was pending is forgotten.
AdoptReceived ==
    /\ step = "received" /\ call = "idle"
    /\ WriteSyncCheckpoint(hashCheckpoint)
    /\ checkpointMessage' = hashCheckpoint
    /\ ClearPending
    /\ step' = "idle"
    /\ hashCheckpoint' = NoBlock
    /\ UNCHANGED <<vars, hashInvalidCheckpoint>>

\* The block cannot be read, or the checkpoint cannot be written once its
\* chain is the best one: nothing is adopted, what was pending stays so.
AdoptionFails ==
    /\ step \in {"pending", "received"} /\ call \in {"idle", "begin"}
    /\ Return
    /\ step' = "idle"
    /\ hashCheckpoint' = NoBlock
    /\ UNCHANGED <<memory, bnBestInvalidTrust, blkdb, txdb, rule, checkpoint, pending,
                   hashInvalidCheckpoint, checkpointMessage>>

(***************************************************************************)
(* A step of SetBestChain.  When it returns false AcceptBlock fails, the   *)
(* checkpoint it was called for is invalid and stays pending if it was, or *)
(* the node does not start.                                                *)
(***************************************************************************)
ConnectingStep ==
    /\ Connecting
    /\ IF call' = "idle" /\ pindexBest' # pindexNew
       THEN /\ step' = IF step = "hardened" THEN "down" ELSE "idle"
            /\ hashInvalidCheckpoint' = CASE step = "pending" -> hashPendingCheckpoint
                                          [] step = "received" -> hashCheckpoint
                                          [] OTHER -> hashInvalidCheckpoint
            /\ hashCheckpoint' = NoBlock
       ELSE UNCHANGED <<step, hashInvalidCheckpoint, hashCheckpoint>>
    /\ UNCHANGED <<checkpoint, pending, checkpointMessage>>

\* ResetSyncCheckpoint: the last hardened checkpoint is made the best chain,
\* or becomes pending, without a message, when its block is not indexed.
ResetSyncCheckpoint ==
    /\ step = "reset" /\ call = "idle"
    /\ step' = "hardened"
    /\ IF LastHardened \in mapBlockIndex
       THEN /\ IF IsInMainChain(LastHardened) THEN UNCHANGED vars
               ELSE CallSetBestChain(LastHardened)
            /\ UNCHANGED pending
       ELSE SetPending(LastHardened, NoBlock) /\ UNCHANGED vars
    /\ UNCHANGED <<checkpoint, hashInvalidCheckpoint, checkpointMessage, hashCheckpoint>>

\* ... the last hardened checkpoint in the main chain becomes the current one.
ResetToHardened ==
    /\ step = "hardened" /\ call = "idle"
    /\ \E h \in Hardened :
          /\ h \in mapBlockIndex /\ IsInMainChain(h)
          /\ \A k \in Hardened :
                k \in mapBlockIndex /\ IsInMainChain(k) => Height[k] <= Height[h]
          /\ WriteSyncCheckpoint(h)
    /\ step' = "idle"
    /\ UNCHANGED <<vars, pending, hashInvalidCheckpoint, checkpointMessage, hashCheckpoint>>

\* The node starts again, with the checkpoint of the database and nothing
\* pending, and resets it when the program has another master key.
LoadBlockIndex ==
    /\ CrashAndLoadBlockIndex
    /\ hashSyncCheckpoint' = dbSyncCheckpoint
    /\ hashInvalidCheckpoint' = NoBlock
    /\ checkpointMessage' = NoBlock
    /\ ClearPending
    /\ step' \in {"idle", "reset"}
    /\ hashCheckpoint' = NoBlock
    /\ UNCHANGED dbSyncCheckpoint

-----------------------------------------------------------------------------
SyncHandlers ==
    \/ \E b \in Block : AcceptBlock(b)
    \/ AcceptPendingSyncCheckpoint
    \/ AdoptPending
    \/ \E h \in Signed : ProcessSyncCheckpoint(h)
    \/ AdoptReceived
    \/ AdoptionFails
    \/ ConnectingStep
    \/ ResetSyncCheckpoint
    \/ ResetToHardened

\* The process ends between two handlers only.
SyncNext == SyncHandlers \/ (call = "idle" /\ LoadBlockIndex)

SyncSpec == SyncInit /\ [][SyncNext]_allvars
-----------------------------------------------------------------------------
\* "only descendant of current sync-checkpoint is allowed": but for a reset
\* under another master key, no sequence of messages, pending checkpoints and
\* restarts takes the recorded checkpoint off its branch.
CheckpointsDescend ==
    [][step # "hardened" => dbSyncCheckpoint \in Ancestors[dbSyncCheckpoint']]_allvars

\* A checkpoint is adopted only when the committed best chain contains it.
AdoptedIsInBestChain ==
    [][dbSyncCheckpoint' # dbSyncCheckpoint => dbSyncCheckpoint' \in Ancestors[txdb.best]]_allvars
=============================================================================
