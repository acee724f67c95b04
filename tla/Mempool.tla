------------------------------ MODULE Mempool ------------------------------
(***************************************************************************)
(* The memory pool (CTxMemPool), the orphan transactions and the handler   *)
(* of the "tx" message, composed with the chain state: a transaction is    *)
(* accepted against the committed index and the pool, and the pool follows *)
(* the best chain, one block or one reorganization at a time.              *)
(*                                                                         *)
(* Everything runs under cs_main, so the handler and SetBestChain exclude  *)
(* each other; the handler is several actions because it works through a   *)
(* queue.  Fees, sizes, scripts and signatures are left out: a transaction *)
(* is standard or not, and is what it spends.                              *)
(***************************************************************************)
EXTENDS ChainState

CONSTANTS
    Nonstandard,  \* transactions that IsStandard refuses
    MaxOrphans    \* MAX_ORPHAN_TRANSACTIONS

ASSUME MempoolAssumption ==
    /\ Nonstandard \subseteq Tx
    /\ MaxOrphans \in Nat

VARIABLES
    mempool,                      \* CTxMemPool: mapTx and mapNextTx
    mapOrphanTransactions,        \* transactions that miss an input
    mapOrphanTransactionsByPrev,  \* ... by the transactions they spend
    vWorkQueue,                   \* transactions the handler accepted
    vEraseQueue,                  \* orphans to be erased when it ends
    orphansLeft,                  \* orphans still to try for the queue's head
    poolBefore                    \* history: what the pool held when it began

orphanMaps == <<mapOrphanTransactions, mapOrphanTransactionsByPrev>>

handler == <<vWorkQueue, vEraseQueue, orphansLeft, poolBefore>>

mempoolVars == <<vars, mempool, orphanMaps, handler>>

EmptyPool == [mapTx |-> {}, mapNextTx |-> [o \in Outpoint |-> NoTx]]

InitMempool ==
    /\ Init
    /\ mempool = EmptyPool
    /\ mapOrphanTransactions = {}
    /\ mapOrphanTransactionsByPrev = [t \in Tx |-> {}]
    /\ vWorkQueue = << >>
    /\ vEraseQueue = {}
    /\ orphansLeft = {}
    /\ poolBefore = {}

\* cs_main is free: neither SetBestChain nor the handler is running.
MainFree == call = "idle" /\ vWorkQueue = << >>

-----------------------------------------------------------------------------
\* The transactions t spends from.
Prevs(t) == {Creator[o] : o \in Ins[t]}

\* addUnchecked, for each transaction of S; none spends what another does.
AddUnchecked(pool, S) ==
    [mapTx     |-> pool.mapTx \cup S,
     mapNextTx |-> [o \in Outpoint |->
                      IF \E t \in S : o \in Ins[t] THEN CHOOSE t \in S : o \in Ins[t]
                      ELSE pool.mapNextTx[o]]]

\* remove, for each transaction of S.
Remove(pool, S) ==
    [mapTx     |-> pool.mapTx \ S,
     mapNextTx |-> [o \in Outpoint |->
                      IF \E t \in S \cap pool.mapTx : o \in Ins[t] THEN NoTx
                      ELSE pool.mapNextTx[o]]]

\* The part of CTxMemPool::accept that does not look at the inputs.
PoolHasRoom(pool, t) ==
    /\ t \notin Generated \cup Nonstandard \cup pool.mapTx
    /\ \A o \in Ins[t] : pool.mapNextTx[o] = NoTx

\* FetchInputs finds no entry in the index nor in the pool.
MissingInputs(t) ==
    \E p \in Prevs(t) : ~ContainsTx(txdb.index, p) /\ p \notin mempool.mapTx

\* ConnectInputs against the index; what an unconfirmed transaction created is
\* not spent, the pool having no conflict.
InputsUsable(t) ==
    \A o \in Ins[t] : ContainsTx(txdb.index, Creator[o]) =>
       /\ Unspent(txdb.index, o)
       /\ ~Immature(pindexBest, txdb.index.pos[Creator[o]], Creator[o])

\* CTxMemPool::accept gets to the inputs of t ...
Considered(t) == PoolHasRoom(mempool, t) /\ ~ContainsTx(txdb.index, t)

\* ... and accepts it.
Accepts(t) == Considered(t) /\ ~MissingInputs(t) /\ InputsUsable(t)

-----------------------------------------------------------------------------
(***************************************************************************)
(* The handler of "tx": the transaction is accepted and starts a queue, or *)
(* is kept as an orphan, one other being evicted when there are too many,  *)
(* or is dropped.                                                          *)
(***************************************************************************)
ReceiveAccepted(t) ==
    /\ MainFree
    /\ Accepts(t)
    /\ mempool' = AddUnchecked(mempool, {t})
    /\ vWorkQueue' = <<t>>
    /\ vEraseQueue' = {t}
    /\ orphansLeft' = mapOrphanTransactionsByPrev[t]
    /\ poolBefore' = mempool.mapTx
    /\ UNCHANGED <<vars, orphanMaps>>

\* AddOrphanTx
Linked(byPrev, t) == [p \in Tx |-> IF p \in Prevs(t) THEN byPrev[p] \cup {t} ELSE byPrev[p]]

\* Mutant: the orphan is forgotten under one of the transactions only.
Unlinked_Once(byPrev, S) ==
    [p \in Tx |-> byPrev[p] \ {t \in S : p \in Prevs(t) /\ p = CHOOSE q \in Prevs(t) : TRUE}]

\* EraseOrphanTx, for each of S.
Unlinked(byPrev, S) == [p \in Tx |-> byPrev[p] \ {t \in S : p \in Prevs(t)}]

ReceiveOrphan(t) ==
    /\ MainFree
    /\ Considered(t)
    /\ MissingInputs(t)
    /\ t \notin mapOrphanTransactions
    /\ LET stored == mapOrphanTransactions \cup {t}
           linked == Linked(mapOrphanTransactionsByPrev, t)
       IN  \E evicted \in SUBSET stored :
              /\ Cardinality(evicted) = IF Cardinality(stored) > MaxOrphans THEN 1 ELSE 0
              /\ mapOrphanTransactions' = stored \ evicted
              /\ mapOrphanTransactionsByPrev' = Unlinked(linked, evicted)
    /\ UNCHANGED <<vars, mempool, handler>>

\* Mutant: an accepted orphan is not queued in its turn.
TryOrphan_NotQueued(t) ==
    /\ t \in orphansLeft
    /\ orphansLeft' = orphansLeft \ {t}
    /\ IF Accepts(t)
       THEN /\ mempool' = AddUnchecked(mempool, {t})
            /\ vEraseQueue' = vEraseQueue \cup {t}
            /\ UNCHANGED vWorkQueue
       ELSE /\ vEraseQueue' = IF Considered(t) /\ MissingInputs(t)
                              THEN vEraseQueue ELSE vEraseQueue \cup {t}
            /\ UNCHANGED <<mempool, vWorkQueue>>
    /\ UNCHANGED <<vars, orphanMaps, poolBefore>>

\* One orphan that spends from the head of the queue: accepted and queued,
\* found invalid and to be erased, or still missing an input and left.
TryOrphan(t) ==
    /\ t \in orphansLeft
    /\ orphansLeft' = orphansLeft \ {t}
    /\ IF Accepts(t)
       THEN /\ mempool' = AddUnchecked(mempool, {t})
            /\ vWorkQueue' = Append(vWorkQueue, t)
            /\ vEraseQueue' = vEraseQueue \cup {t}
       ELSE /\ vEraseQueue' = IF Considered(t) /\ MissingInputs(t)
                              THEN vEraseQueue ELSE vEraseQueue \cup {t}
            /\ UNCHANGED <<mempool, vWorkQueue>>
    /\ UNCHANGED <<vars, orphanMaps, poolBefore>>

\* The next of the queue.
NextOfQueue ==
    /\ orphansLeft = {}
    /\ Len(vWorkQueue) > 1
    /\ vWorkQueue' = Tail(vWorkQueue)
    /\ orphansLeft' = mapOrphanTransactionsByPrev[vWorkQueue[2]]
    /\ UNCHANGED <<vars, mempool, orphanMaps, vEraseQueue, poolBefore>>

\* The queue has been worked through: the orphans dealt with are erased.
EraseOrphans ==
    /\ orphansLeft = {}
    /\ Len(vWorkQueue) = 1
    /\ LET erased == vEraseQueue \cap mapOrphanTransactions
       IN  /\ mapOrphanTransactions' = mapOrphanTransactions \ erased
           /\ mapOrphanTransactionsByPrev' = Unlinked(mapOrphanTransactionsByPrev, erased)
    /\ vWorkQueue' = << >>
    /\ vEraseQueue' = {}
    /\ poolBefore' = {}
    /\ UNCHANGED <<vars, mempool, orphansLeft>>

-----------------------------------------------------------------------------
(***************************************************************************)
(* The pool after Reorganize has committed: the transactions of the blocks *)
(* disconnected are accepted again, their inputs unchecked, and then those *)
(* of the blocks connected are removed.                                    *)
(***************************************************************************)
vResurrect == UNION {BlockTxs(b) : b \in Ancestors[pindexBest] \ Ancestors[pfork]}

vDelete == UNION {BlockTxs(b) : b \in Ancestors[cursor] \ Ancestors[pfork]}

\* What AcceptToMemoryPool takes back of them, one after another: none that
\* conflicts with the pool or with one taken before it.
Resurrected ==
    {S \in SUBSET {t \in vResurrect : PoolHasRoom(mempool, t)} :
        \A t \in vResurrect : PoolHasRoom(mempool, t) =>
           (t \in S <=> \A k \in S \ {t} : Ins[k] \cap Ins[t] = {})}

\* Mutant: the transactions confirmed again are deleted first.
PoolReorganized_DeletesFirst(resurrected) ==
    AddUnchecked(Remove(mempool, vDelete), resurrected)

\* The pool Reorganize leaves.
PoolReorganized(resurrected) == Remove(AddUnchecked(mempool, resurrected), vDelete)

\* The steps of the chain state, with what each does to the pool.
PoolFollowsChain ==
    \/ /\ ReorganizeCommits
       /\ \E S \in Resurrected : mempool' = PoolReorganized(S)
    \/ /\ SetBestChainInnerCommits
       /\ mempool' = Remove(mempool, BlockTxs(txn.best))
    \/ /\ \/ SetBestChain \/ DisconnectBlock \/ DisconnectedAll
          \/ \E b \in Block : ReconnectBlock(b)
          \/ ReorganizeFails
          \/ \E b \in Block : SetBestChainInner(b)
          \/ AppendFails
          \/ \E b \in Block : SecondaryFails(b)
          \/ NewBestBlock
       /\ UNCHANGED mempool

ChainStep == PoolFollowsChain /\ UNCHANGED <<orphanMaps, handler>>

ReceiveBlock(b) ==
    /\ MainFree
    /\ AddToBlockIndex(b)
    /\ UNCHANGED <<mempool, orphanMaps, handler>>

\* Pool and orphans are in memory only.
Restart ==
    /\ CrashAndLoadBlockIndex
    /\ mempool' = EmptyPool
    /\ mapOrphanTransactions' = {}
    /\ mapOrphanTransactionsByPrev' = [t \in Tx |-> {}]
    /\ vWorkQueue' = << >>
    /\ vEraseQueue' = {}
    /\ orphansLeft' = {}
    /\ poolBefore' = {}

Handling == NextOfQueue \/ EraseOrphans \/ \E t \in Tx : TryOrphan(t)

MempoolNext ==
    \/ ChainStep
    \/ Handling
    \/ \E b \in Block : ReceiveBlock(b)
    \/ \E t \in Tx : ReceiveAccepted(t) \/ ReceiveOrphan(t)

-----------------------------------------------------------------------------
\* mapNextTx has the inputs of the transactions of the pool and nothing else:
\* no two of them conflict and no CInPoint points to a transaction that is
\* gone.  When cs_main is free none of them is on the best chain as well: what
\* Reorganize brings back and confirms again is removed after it is
\* resurrected, and what a postponed block confirms when it is connected.
PoolIsIndexed ==
    /\ \A o \in Outpoint : \A t \in Tx :
          mempool.mapNextTx[o] = t <=> (t \in mempool.mapTx /\ o \in Ins[t])
    /\ call = "idle" => \A t \in mempool.mapTx : ~ContainsTx(txdb.index, t)

\* mapOrphanTransactionsByPrev has exactly the orphans, each under every
\* transaction it spends from, so no entry outlives its orphan; and there are
\* never more of them than MAX_ORPHAN_TRANSACTIONS.
OrphansAreIndexed ==
    /\ \A t, p \in Tx :
          t \in mapOrphanTransactionsByPrev[p] <=> (t \in mapOrphanTransactions /\ p \in Prevs(t))
    /\ Cardinality(mapOrphanTransactions) <= MaxOrphans

\* When the handler of "tx" ends, an orphan that spends from a transaction it
\* accepted is still missing another one: whatever order the queue took, none
\* that could be accepted, directly or through other orphans, is left behind.
QueueReachesOrphans ==
    [][EraseOrphans =>
         \A t \in mapOrphanTransactions' :
            Prevs(t) \cap (mempool.mapTx \ poolBefore) # {} => MissingInputs(t)]_mempoolVars

=============================================================================
