----------------------------- MODULE ChainState -----------------------------
(***************************************************************************)
(* The block index, the best chain and the two databases under them:       *)
(* AcceptBlock and AddToBlockIndex, SetBestChain, Reorganize, ConnectBlock *)
(* and DisconnectBlock (src/main.cpp), and LoadBlockIndex (src/db.cpp).    *)
(*                                                                         *)
(* All of it runs under cs_main, so the only thing that can happen between *)
(* two steps of SetBestChain is that the process dies; the steps are       *)
(* separate actions because a crash between two of them finds the two      *)
(* databases in different states.  The node keeps two Berkeley DB files:   *)
(*   blkindex.dat (CBlkDB): one CDiskBlockIndexV3 per block, with its      *)
(*     hashNext.  AddToBlockIndex writes it in a transaction of its own,   *)
(*     ConnectBlock and DisconnectBlock write it with no transaction open  *)
(*     on it, so each of those writes stands whatever becomes of txdb's;   *)
(*   txindex.dat (CTxDB): the transaction index and hashBestChain, written *)
(*     under the transaction that SetBestChain opens, commits or aborts.   *)
(*                                                                         *)
(* SteadyNext has the steps of a node that runs undisturbed; CrashNext     *)
(* adds crashes, and FaultyNext database errors and a PALADIN rule that    *)
(* arrives while the node runs.                                            *)
(***************************************************************************)
EXTENDS Ledger

VARIABLES
    mapBlockIndex,       \* the blocks indexed in memory
    pnext,               \* CBlockIndex::pnext of each
    pindexBest,          \* pindexBest, hashBestChain and bnBestChainTrust
    bnBestInvalidTrust,  \* in memory and in txindex.dat, always equal
    blkdb,               \* blkindex.dat: the blocks stored and their hashNext
    txdb,                \* txindex.dat: committed hashBestChain and index
    txn,                 \* the same, as seen inside the open transaction
    call,                \* where SetBestChain is
    pindexNew,           \* its argument
    cursor,              \* the block its loops have reached
    rule                 \* the PALADIN rule on rewards is known

vars == <<mapBlockIndex, pnext, pindexBest, bnBestInvalidTrust, blkdb, txdb, txn,
          call, pindexNew, cursor, rule>>

memory == <<mapBlockIndex, pnext, pindexBest>>

-----------------------------------------------------------------------------
(***************************************************************************)
(* The paths SetBestChain computes from pindexBest and pindexNew, neither  *)
(* of which changes before it returns.                                     *)
(***************************************************************************)

\* The last block that the chains to pindexBest and to b share.
IsFork(f, b) ==
    /\ f \in Ancestors[pindexBest] \cap Ancestors[b]
    /\ \A a \in Ancestors[pindexBest] \cap Ancestors[b] : a \in Ancestors[f]

\* Mutant: the walk tests the trust of the block, not of its parent.
IsIntermediate_OwnTrust(i) ==
    /\ i \in Ancestors[pindexNew]
    /\ i = Genesis \/ Trust[i] <= Trust[pindexBest]
    /\ \A a \in Ancestors[pindexNew] :
          a \notin Ancestors[i] => Trust[a] > Trust[pindexBest]

\* "the first block in the new chain that will cause it to become the new
\* best chain": the walk down from pindexNew stops at the first block whose
\* parent has no more trust than pindexBest.
IsIntermediate(i) ==
    /\ i \in Ancestors[pindexNew]
    /\ i = Genesis \/ Trust[Parent[i]] <= Trust[pindexBest]
    /\ \A a \in Ancestors[pindexNew] :
          a \notin Ancestors[i] => Trust[Parent[a]] > Trust[pindexBest]

pindexIntermediate == CHOOSE i \in Block : IsIntermediate(i)

pfork == CHOOSE f \in Block : IsFork(f, pindexIntermediate)

\* b is the block above cursor on the way to the block top.
IsNextTo(b, top) == b \in Ancestors[top] \ {Genesis} /\ Parent[b] = cursor

-----------------------------------------------------------------------------
TypeOK ==
    /\ mapBlockIndex \subseteq Block
    /\ pnext \in [Block -> Block \cup {NoBlock}]
    /\ pindexBest \in Block
    /\ bnBestInvalidTrust \in Nat
    /\ blkdb \in [blocks : SUBSET Block, next : [Block -> Block \cup {NoBlock}]]
    /\ txdb \in [best : Block, index : TxIndex]
    /\ txn \in [best : Block, index : TxIndex]
    /\ call \in {"idle", "begin", "disconnect", "reconnect",
                 "append", "secondary", "connected", "finish"}
    /\ pindexNew \in Block
    /\ cursor \in Block
    /\ rule \in BOOLEAN

\* LoadBlockIndex has just created the genesis block.
Init ==
    /\ mapBlockIndex = {Genesis}
    /\ pnext = [b \in Block |-> NoBlock]
    /\ pindexBest = Genesis
    /\ bnBestInvalidTrust = 0
    /\ blkdb = [blocks |-> {Genesis}, next |-> [b \in Block |-> NoBlock]]
    /\ txdb = [best |-> Genesis, index |-> EmptyIndex]
    /\ txn = txdb
    /\ call = "idle"
    /\ pindexNew = Genesis
    /\ cursor = Genesis
    /\ rule = FALSE

\* Mutant: the longest chain wins, not the one with most trust.
LongerThan(b) == Height[b] > Height[pindexBest]

\* The block has more trust than the best chain.
Outweighs(b) == Trust[b] > Trust[pindexBest]

\* Mutant: a side block is not stored.
BlkdbAdded_IfBest(b) ==
    [blocks |-> IF Outweighs(b) THEN blkdb.blocks \cup {b} ELSE blkdb.blocks,
     next |-> [blkdb.next EXCEPT ![b] = NoBlock]]

\* blkindex.dat with the record of b, which has no hashNext yet.
BlkdbAdded(b) ==
    [blocks |-> blkdb.blocks \cup {b}, next |-> [blkdb.next EXCEPT ![b] = NoBlock]]

(***************************************************************************)
(* AddToBlockIndex: the block is indexed and its record committed to       *)
(* blkindex.dat before anything is known of its transactions; SetBestChain *)
(* is called only when it has more trust than the best chain.  A block that *)
(* then fails to connect stays indexed.                                    *)
(***************************************************************************)
AddToBlockIndex(b) ==
    /\ call = "idle"
    /\ b \notin mapBlockIndex
    /\ b # Genesis /\ Parent[b] \in mapBlockIndex
    /\ mapBlockIndex' = mapBlockIndex \cup {b}
    /\ pnext' = [pnext EXCEPT ![b] = NoBlock]
    /\ blkdb' = BlkdbAdded(b)
    /\ IF Outweighs(b)
       THEN call' = "begin" /\ pindexNew' = b
       ELSE UNCHANGED <<call, pindexNew>>
    /\ UNCHANGED <<pindexBest, bnBestInvalidTrust, txdb, txn, cursor, rule>>

\* SetBestChain opens the transaction and chooses: the block either extends
\* the best chain or has the chain reorganized to it.
SetBestChain ==
    /\ call = "begin"
    /\ cursor' = pindexBest
    /\ call' = IF Parent[pindexNew] = pindexBest THEN "append" ELSE "disconnect"
    /\ UNCHANGED <<memory, bnBestInvalidTrust, blkdb, txdb, txn, pindexNew, rule>>

\* SetBestChain returns; its transaction, if still open, is aborted.
Return ==
    /\ call' = "idle"
    /\ pindexNew' = Genesis
    /\ cursor' = Genesis
    /\ txn' = txdb

InvalidChainFound(b) ==
    bnBestInvalidTrust' = IF Trust[b] > bnBestInvalidTrust THEN Trust[b]
                          ELSE bnBestInvalidTrust

(***************************************************************************)
(* DisconnectBlock, in Reorganize's first loop: the transactions leave the *)
(* index inside the transaction, the hashNext of the block below is cleared *)
(* in blkindex.dat at once.                                                *)
(***************************************************************************)
DisconnectBlock ==
    /\ call = "disconnect"
    /\ cursor # pfork
    /\ CanDisconnect(txn.index, cursor)
    /\ txn' = [txn EXCEPT !.index = Disconnected(txn.index, cursor)]
    /\ blkdb' = [blkdb EXCEPT !.next[Parent[cursor]] = NoBlock]
    /\ cursor' = Parent[cursor]
    /\ UNCHANGED <<memory, bnBestInvalidTrust, txdb, call, pindexNew, rule>>

\* Reorganize's first loop ends at the fork.
DisconnectedAll ==
    /\ call = "disconnect"
    /\ cursor = pfork
    /\ call' = "reconnect"
    /\ UNCHANGED <<memory, bnBestInvalidTrust, blkdb, txdb, txn, pindexNew, cursor, rule>>

(***************************************************************************)
(* ConnectBlock(b): what it leaves in blkindex.dat.  The record of b is    *)
(* written when its inputs have been connected, with the hashNext it has   *)
(* in memory; the hashNext of the block below only after the reward of the *)
(* coinbase has been checked too (the reward of a coinstake is checked     *)
(* with its inputs, before both).  The writes stand whatever comes next.   *)
(***************************************************************************)
ConnectBlockOk(index, b) == InputsConnect(index, b) /\ RewardAllowed(b, rule)

BlkdbRecord(b) == [blkdb EXCEPT !.next[b] = pnext[b]]

BlkdbConnected(b) == [blkdb EXCEPT !.next = [[@ EXCEPT ![b] = pnext[b]] EXCEPT ![Parent[b]] = b]]

ConnectBlockRefuses(index, b) ==
    /\ ~ConnectBlockOk(index, b)
    /\ \/ UNCHANGED blkdb
       \/ InputsConnect(index, b) /\ blkdb' = BlkdbRecord(b)

\* A read or a write fails in ConnectBlock or in WriteHashBestChain after it.
ConnectBlockBreaks(index, b) ==
    \/ UNCHANGED blkdb
    \/ InputsConnect(index, b) /\ blkdb' = BlkdbRecord(b)
    \/ ConnectBlockOk(index, b) /\ blkdb' = BlkdbConnected(b)

\* Mutant: the index is written outside the transaction.
ReconnectBlock_NoTxn(b) ==
    /\ call = "reconnect"
    /\ IsNextTo(b, pindexIntermediate)
    /\ ConnectBlockOk(txn.index, b)
    /\ txn' = [txn EXCEPT !.index = Connected(txn.index, b)]
    /\ blkdb' = BlkdbConnected(b)
    /\ cursor' = b
    /\ txdb' = [txdb EXCEPT !.index = Connected(txn.index, b)]
    /\ UNCHANGED <<memory, bnBestInvalidTrust, call, pindexNew, rule>>

\* ConnectBlock in Reorganize's second loop.
ReconnectBlock(b) ==
    /\ call = "reconnect"
    /\ IsNextTo(b, pindexIntermediate)
    /\ ConnectBlockOk(txn.index, b)
    /\ txn' = [txn EXCEPT !.index = Connected(txn.index, b)]
    /\ blkdb' = BlkdbConnected(b)
    /\ cursor' = b
    /\ UNCHANGED <<memory, bnBestInvalidTrust, txdb, call, pindexNew, rule>>

\* Reorganize fails: the transaction is aborted, the best chain stays.
ReorganizeFails ==
    /\ \/ /\ call = "disconnect"
          /\ cursor # pfork
          /\ ~CanDisconnect(txn.index, cursor)
          /\ UNCHANGED blkdb
       \/ /\ call = "reconnect"
          /\ \E b \in Block :
                /\ IsNextTo(b, pindexIntermediate)
                /\ ConnectBlockRefuses(txn.index, b)
    /\ InvalidChainFound(pindexNew)
    /\ Return
    /\ UNCHANGED <<memory, txdb, rule>>

\* Mutant: pnext of the disconnected blocks is not nulled.
Relinked_KeepsNext(vDisconnect, vConnect) ==
    [p \in Block |->
       IF \E b \in vConnect : Parent[b] = p THEN CHOOSE b \in vConnect : Parent[b] = p
       ELSE pnext[p]]

\* pnext once the blocks disconnected and then those connected are relinked.
Relinked(vDisconnect, vConnect) ==
    [p \in Block |->
       IF \E b \in vConnect : Parent[b] = p THEN CHOOSE b \in vConnect : Parent[b] = p
       ELSE IF \E b \in vDisconnect : Parent[b] = p THEN NoBlock
       ELSE pnext[p]]

\* Reorganize writes hashBestChain, commits, then relinks pnext in memory.
ReorganizeCommits ==
    /\ call = "reconnect"
    /\ cursor = pindexIntermediate
    /\ txdb' = [txn EXCEPT !.best = cursor]
    /\ txn' = [txn EXCEPT !.best = cursor]
    /\ pnext' = Relinked(Ancestors[pindexBest] \ Ancestors[pfork],
                         Ancestors[cursor] \ Ancestors[pfork])
    /\ call' = IF cursor = pindexNew THEN "finish" ELSE "secondary"
    /\ UNCHANGED <<mapBlockIndex, pindexBest, bnBestInvalidTrust, blkdb, pindexNew, cursor, rule>>

(***************************************************************************)
(* SetBestChainInner: ConnectBlock and hashBestChain in one transaction,   *)
(* for a block that extends the best chain ("append") or for one of the    *)
(* blocks whose connection SetBestChain postponed ("secondary").           *)
(***************************************************************************)
SetBestChainInner(b) ==
    /\ call \in {"append", "secondary"}
    /\ IsNextTo(b, pindexNew)
    /\ ConnectBlockOk(txn.index, b)
    /\ txn' = [best |-> b, index |-> Connected(txn.index, b)]
    /\ blkdb' = BlkdbConnected(b)
    /\ call' = "connected"
    /\ UNCHANGED <<memory, bnBestInvalidTrust, txdb, pindexNew, cursor, rule>>

\* ... the commit that makes it durable, and pnext of the block below.
SetBestChainInnerCommits ==
    /\ call = "connected"
    /\ txdb' = txn
    /\ pnext' = [pnext EXCEPT ![Parent[txn.best]] = txn.best]
    /\ cursor' = txn.best
    /\ call' = IF txn.best = pindexNew THEN "finish" ELSE "secondary"
    /\ UNCHANGED <<mapBlockIndex, pindexBest, bnBestInvalidTrust, blkdb, txn, pindexNew, rule>>

\* Mutant: the failure is taken for one of a postponed block.
AppendFails_GoesOn ==
    /\ call = "append"
    /\ ConnectBlockRefuses(txn.index, pindexNew)
    /\ InvalidChainFound(pindexNew)
    /\ call' = "finish"
    /\ UNCHANGED <<memory, txdb, txn, pindexNew, cursor, rule>>

\* ... the block does not connect when it was to extend the best chain.
AppendFails ==
    /\ call = "append"
    /\ ConnectBlockRefuses(txn.index, pindexNew)
    /\ InvalidChainFound(pindexNew)
    /\ Return
    /\ UNCHANGED <<memory, txdb, rule>>

\* ... a postponed block does not connect: "errors now are not fatal", the
\* loop is left and SetBestChain goes on to its end.
SecondaryFails(b) ==
    /\ call = "secondary"
    /\ IsNextTo(b, pindexNew)
    /\ ConnectBlockRefuses(txn.index, b)
    /\ InvalidChainFound(b)
    /\ call' = "finish"
    /\ UNCHANGED <<memory, txdb, txn, pindexNew, cursor, rule>>

\* The end of SetBestChain: the argument becomes the best block in memory.
NewBestBlock ==
    /\ call = "finish"
    /\ pindexBest' = pindexNew
    /\ Return
    /\ UNCHANGED <<mapBlockIndex, pnext, bnBestInvalidTrust, blkdb, txdb, rule>>

-----------------------------------------------------------------------------
\* A restart at any point finds hashBestChain, every block under it and every
\* hashNext in blkindex.dat: LoadBlockIndex has no "not found in the block
\* index" to report and InsertBlockIndex invents no empty entry.
RestartFindsBlocks ==
    /\ txdb.best \in blkdb.blocks
    /\ \A b \in blkdb.blocks : Ancestors[b] \subseteq blkdb.blocks
    /\ \A b \in blkdb.blocks : blkdb.next[b] \in blkdb.blocks \cup {NoBlock}

\* The process dies, and LoadBlockIndex rebuilds the memory from both files.
CrashAndLoadBlockIndex ==
    /\ mapBlockIndex' = blkdb.blocks
    /\ pnext' = blkdb.next
    /\ pindexBest' = txdb.best
    /\ Return
    /\ UNCHANGED <<bnBestInvalidTrust, blkdb, txdb, rule>>

\* TxnBegin or TxnCommit on blkindex.dat fails in AddToBlockIndex: the block
\* is in memory by then and stays there, it is not stored.
AddToBlockIndexFails(b) ==
    /\ call = "idle"
    /\ b \notin mapBlockIndex
    /\ b # Genesis /\ Parent[b] \in mapBlockIndex
    /\ mapBlockIndex' = mapBlockIndex \cup {b}
    /\ pnext' = [pnext EXCEPT ![b] = NoBlock]
    /\ UNCHANGED <<pindexBest, bnBestInvalidTrust, blkdb, txdb, txn, call, pindexNew, cursor, rule>>

\* TxnBegin, a read or a write fails: fatal to Reorganize and to an append,
\* the end of the loop over the postponed blocks.
DatabaseFails ==
    \/ /\ call = "begin"
       /\ Return
       /\ UNCHANGED <<memory, bnBestInvalidTrust, blkdb, txdb, rule>>
    \/ /\ \/ call \in {"disconnect", "reconnect"} /\ UNCHANGED blkdb
          \/ /\ call \in {"reconnect", "append"}
             /\ \E b \in Block :
                   /\ IsNextTo(b, IF call = "append" THEN pindexNew ELSE pindexIntermediate)
                   /\ ConnectBlockBreaks(txn.index, b)
       /\ InvalidChainFound(pindexNew)
       /\ Return
       /\ UNCHANGED <<memory, txdb, rule>>
    \/ /\ call = "secondary"
       /\ \/ UNCHANGED <<blkdb, bnBestInvalidTrust>>
          \/ \E b \in Block :
                /\ IsNextTo(b, pindexNew)
                /\ ConnectBlockBreaks(txn.index, b)
                /\ InvalidChainFound(b)
       /\ call' = "finish"
       /\ txn' = txdb
       /\ UNCHANGED <<memory, txdb, pindexNew, cursor, rule>>

\* TxnCommit fails in SetBestChainInner: an append returns false, the loop
\* over the postponed blocks is left.
CommitFails ==
    /\ call = "connected"
    /\ IF Parent[pindexNew] = pindexBest
       THEN Return
       ELSE call' = "finish" /\ txn' = txdb /\ UNCHANGED <<pindexNew, cursor>>
    /\ UNCHANGED <<memory, bnBestInvalidTrust, blkdb, txdb, rule>>

\* A PALADIN rule is learned; alerts are processed under cs_main.
LearnRule ==
    /\ call = "idle"
    /\ ~rule
    /\ rule' = TRUE
    /\ UNCHANGED <<memory, bnBestInvalidTrust, blkdb, txdb, txn, call, pindexNew, cursor>>

-----------------------------------------------------------------------------
Connecting ==
    \/ SetBestChain
    \/ DisconnectBlock
    \/ DisconnectedAll
    \/ \E b \in Block : ReconnectBlock(b)
    \/ ReorganizeFails
    \/ ReorganizeCommits
    \/ \E b \in Block : SetBestChainInner(b)
    \/ SetBestChainInnerCommits
    \/ AppendFails
    \/ \E b \in Block : SecondaryFails(b)
    \/ NewBestBlock

SteadyNext == Connecting \/ \E b \in Block : AddToBlockIndex(b)

CrashNext == SteadyNext \/ CrashAndLoadBlockIndex

\* What a restart makes of a blkindex.dat with holes is not followed: the
\* entries it invents have no height, trust or parent.
FaultyNext ==
    \/ SteadyNext
    \/ RestartFindsBlocks /\ CrashAndLoadBlockIndex
    \/ \E b \in Block : AddToBlockIndexFails(b)
    \/ DatabaseFails
    \/ CommitFails
    \/ LearnRule

\* A node that runs undisturbed; SetBestChain is a loop under a lock, so it
\* goes on until it returns.
SteadySpec == Init /\ [][SteadyNext]_vars /\ WF_vars(Connecting)

\* A node that may crash at any point and restart.
CrashSpec == Init /\ [][CrashNext]_vars

\* A node that crashes, loses writes and learns rules.
Spec == Init /\ [][FaultyNext]_vars /\ WF_vars(Connecting)

-----------------------------------------------------------------------------
\* When SetBestChain has returned, the best block in memory is the one that
\* txindex.dat names: "New best block" is a block that has been connected.
BestIsConnected == call = "idle" => txdb.best = pindexBest

\* The committed transaction index is exactly the one of the committed best
\* chain, whatever sequence of disconnections, reconnections, aborted
\* reorganizations and restarts produced it.
LedgerIsOfBestChain == IndexOf(txdb.index, txdb.best)

\* No double spend, unknown input, immature input or excessive reward is ever
\* on the committed best chain (ConnectBlock, ConnectInputs).
OnlyValidChains == ValidChain(txdb.best, rule)

\* The node never settles for a chain when it has indexed a valid one with
\* more trust (AddToBlockIndex, SetBestChain and its postponed blocks).
BestIsMostTrusted ==
    call = "idle" => \A b \in mapBlockIndex :
                        ValidChain(b, rule) => Trust[b] <= Trust[pindexBest]

\* CBlockIndex in main.h: pprev and pnext link a path through the longest
\* chain, and pnext is null for a block that is not part of it.
NextPointersLinkBestChain ==
    call = "idle" =>
       \A p \in Block :
          IF p \in Ancestors[pindexBest] \ {pindexBest}
          THEN pnext[p] \in Ancestors[pindexBest] /\ Parent[pnext[p]] = p
          ELSE pnext[p] = NoBlock

\* A commit never moves hashBestChain to a chain with no more trust, whatever
\* failed before it and however far the postponed blocks got.
TrustOnlyGrows ==
    [][txdb.best' # txdb.best => Trust[txdb.best'] > Trust[txdb.best]]_vars

\* The chain state implements BestChain: blocks are learned when they are
\* indexed, and the best chain moves when txindex.dat is committed.
Abstract == INSTANCE BestChain WITH Rule <- FALSE, known <- blkdb.blocks, best <- txdb.best
MovesToValidChains == Abstract!SafeSpec

\* ... and the steady node, seen from memory, does not stop short of a valid
\* chain with more trust.
Steady == INSTANCE BestChain WITH Rule <- FALSE, known <- mapBlockIndex, best <- pindexBest
ReachesMostTrusted == Steady!Spec
=============================================================================
