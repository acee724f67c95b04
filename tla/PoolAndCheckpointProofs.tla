---------------------- MODULE PoolAndCheckpointProofs ----------------------
(***************************************************************************)
(* Theorems about three of the parts that follow the chain, for every      *)
(* block tree: Mempool and Miner, for every set of transactions, every     *)
(* limit on the orphans and restarts at any point; and SyncCheckpoint, for *)
(* any blocks that the master key signs.                                   *)
(***************************************************************************)
EXTENDS Miner, SyncCheckpoint, ChainStateProofs

MinerTypes ==
    /\ miner \in [at : {"idle", "create", "number", "search"},
                  pindexPrev : Block \cup {NoBlock}, pblock : Block \cup {NoBlock}]
    /\ miner.at # "idle" => miner.pindexPrev \in Block
    /\ miner.at \in {"number", "search"} =>
          miner.pblock \in Block \ {Genesis} /\ Parent[miner.pblock] \in Block

\* What the pool, its orphans and the miner do with the chain is what a node
\* that may crash does.
LEMMA MinerOnChain ==
    ASSUME MinerTypes, [MinerNext]_minerVars
    PROVE  [CrashNext]_vars
<1>1. ASSUME NEW b \in Block, ReceiveBlock(b) PROVE CrashNext
  BY <1>1 DEF ReceiveBlock, CrashNext, SteadyNext
<1>2. CASE ChainStep
  BY <1>2 DEF ChainStep, PoolFollowsChain, CrashNext, SteadyNext, Connecting
<1>3. CASE Handling
  BY <1>3 DEF Handling, NextOfQueue, EraseOrphans, TryOrphan
<1>4. ASSUME NEW t \in Tx, ReceiveAccepted(t) \/ ReceiveOrphan(t) PROVE UNCHANGED vars
  BY <1>4 DEF ReceiveAccepted, ReceiveOrphan
<1>5. CASE FindBlock
  <2>1. miner.pblock \in Block
    BY <1>5 DEF FindBlock, MinerTypes
  <2> QED  BY <1>1, <1>5, <2>1 DEF FindBlock, CheckWork
<1>6. ASSUME NEW b \in Block, SubmitWork(b) PROVE CrashNext
  BY <1>1, <1>6 DEF SubmitWork, CheckWork
<1>7. CASE ReadPrev \/ IncrementExtraNonce \/ StopSearch \/ \E b \in Block : MakeBlock(b) \/ GetWork(b)
  BY <1>7 DEF ReadPrev, IncrementExtraNonce, StopSearch, MakeBlock, GetWork, mempoolVars
<1>8. CASE MinerRestart
  BY <1>8 DEF MinerRestart, Restart, CrashNext
<1>9. CASE UNCHANGED minerVars
  BY <1>9 DEF minerVars, mempoolVars
<1> QED
  BY <1>1, <1>2, <1>3, <1>4, <1>5, <1>6, <1>7, <1>8, <1>9 DEF MinerNext, MempoolNext, Mining

-----------------------------------------------------------------------------
(***************************************************************************)
(* Stale work.  pindexBest is read twice for one block, by the loop and    *)
(* then by CreateNewBlock; each time it is a block with more trust, or the *)
(* same one (trust only grows while the process runs), so a loop that has  *)
(* seen its pindexPrev replaced can never see it again.                    *)
(***************************************************************************)
\* b has replaced a as the best block, or is a.
Replaces(b, a) == a = b \/ Trust[a] < Trust[b]

MinerInv ==
    /\ MinerTypes
    /\ miner.at # "idle" => Replaces(pindexBest, miner.pindexPrev)
    /\ miner.at \in {"number", "search"} =>
          /\ Replaces(Parent[miner.pblock], miner.pindexPrev)
          /\ Replaces(pindexBest, Parent[miner.pblock])

LEMMA ReplacesTwice ==
    ASSUME NEW a \in Block, NEW b \in Block, NEW c \in Block, Replaces(b, a), Replaces(c, b)
    PROVE  Replaces(c, a)
<1>1. Trust[a] \in Nat /\ Trust[b] \in Nat /\ Trust[c] \in Nat
  BY TreeAssumption
<1> QED  BY <1>1 DEF Replaces

\* No step but a restart goes back to a best block of before.
LEMMA BestIsReplaced ==
    ASSUME ChainInv, [SteadyNext]_vars
    PROVE  Replaces(pindexBest', pindexBest)
<1>1. CASE NewBestBlock
  BY <1>1 DEF NewBestBlock, ChainInv, TrustInv, Replaces
<1>2. CASE ~NewBestBlock
  <2>1. pindexBest' = pindexBest
    BY <1>2 DEF SteadyNext, Connecting, AddToBlockIndex, SetBestChain, DisconnectBlock,
       DisconnectedAll, ReconnectBlock, ReorganizeFails, ReorganizeCommits, SetBestChainInner,
       SetBestChainInnerCommits, AppendFails, SecondaryFails, memory, vars
  <2> QED  BY <2>1 DEF Replaces
<1> QED  BY <1>1, <1>2

LEMMA InitMinerInv == InitMiner => ChainInv /\ MinerInv
<1> SUFFICES ASSUME InitMiner PROVE ChainInv /\ MinerInv
  OBVIOUS
<1>1. ChainInv
  BY InitTypes, InitStored, InitTrust DEF InitMiner, InitMempool, ChainInv
<1> QED  BY <1>1 DEF InitMiner, Idle, MinerInv, MinerTypes

\* The miner stands still while the best block is replaced.
LEMMA MinerWaits ==
    ASSUME ChainInv, ChainInv', MinerInv, UNCHANGED miner, Replaces(pindexBest', pindexBest)
    PROVE  MinerInv'
<1>1. pindexBest \in Block /\ pindexBest' \in Block
  BY DEF ChainInv, TypeInv, TypeOK
<1>2. miner.at # "idle" => Replaces(pindexBest', miner.pindexPrev)
  BY <1>1, ReplacesTwice DEF MinerInv, MinerTypes
<1>3. miner.at \in {"number", "search"} => Replaces(pindexBest', Parent[miner.pblock])
  BY <1>1, ReplacesTwice DEF MinerInv, MinerTypes
<1> QED  BY <1>2, <1>3 DEF MinerInv, MinerTypes, Replaces

LEMMA NextMinerInv ==
    ASSUME ChainInv, MinerInv, [MinerNext]_minerVars
    PROVE  ChainInv' /\ MinerInv'
<1>1. [CrashNext]_vars /\ ChainInv'
  BY MinerOnChain, NextChain DEF MinerInv
<1> SUFFICES MinerInv'
  BY <1>1
<1>2. pindexBest \in Block
  BY DEF ChainInv, TypeInv, TypeOK
<1>3. ASSUME UNCHANGED miner, [SteadyNext]_vars PROVE MinerInv'
  BY <1>1, <1>3, BestIsReplaced, MinerWaits
<1>4. CASE MempoolNext /\ UNCHANGED <<miner, mapNewBlock>>
  <2>1. [SteadyNext]_vars
    BY <1>4 DEF MempoolNext, ChainStep, PoolFollowsChain, Handling, NextOfQueue, EraseOrphans,
       TryOrphan, ReceiveAccepted, ReceiveOrphan, ReceiveBlock, SteadyNext, Connecting
  <2> QED  BY <1>3, <1>4, <2>1
<1>5. CASE ReadPrev
  BY <1>2, <1>5 DEF ReadPrev, mempoolVars, vars, MinerInv, MinerTypes, Replaces
<1>6. ASSUME NEW b \in Block, MakeBlock(b) PROVE MinerInv'
  <2>1. b # Genesis /\ Parent[b] = pindexBest
    BY <1>6 DEF MakeBlock, CreateNewBlock
  <2> QED  BY <1>2, <1>6, <2>1 DEF MakeBlock, mempoolVars, vars, MinerInv, MinerTypes, Replaces
<1>7. CASE IncrementExtraNonce
  BY <1>7 DEF IncrementExtraNonce, mempoolVars, vars, MinerInv, MinerTypes, Replaces
<1>8. CASE miner' = Idle
  BY <1>8 DEF Idle, MinerInv, MinerTypes
<1>9. ASSUME NEW b \in Block, GetWork(b) \/ SubmitWork(b) PROVE MinerInv'
  <2>1. UNCHANGED miner /\ [SteadyNext]_vars
    BY <1>9 DEF GetWork, SubmitWork, CheckWork, ReceiveBlock, SteadyNext, mempoolVars
  <2> QED  BY <1>3, <2>1
<1>10. CASE UNCHANGED minerVars
  BY <1>3, <1>10 DEF minerVars, mempoolVars
<1> QED
  BY <1>1, <1>4, <1>5, <1>6, <1>7, <1>8, <1>9, <1>10
     DEF MinerNext, Mining, FindBlock, StopSearch, MinerRestart

\* A loop that searches for a block which can no longer extend the best chain
\* sees it, for pindexPrev is not pindexBest any more (BitcoinMiner, the end of
\* the loop, and CreateNewBlock, which read pindexBest at different times).
THEOREM StaleWorkIsGivenUp == MinerSpec => []StaleWorkStops
<1>1. InitMiner => ChainInv /\ MinerInv
  BY InitMinerInv
<1>2. ChainInv /\ MinerInv /\ [MinerNext]_minerVars => ChainInv' /\ MinerInv'
  BY NextMinerInv
<1>3. ChainInv /\ MinerInv => StaleWorkStops
  <2> SUFFICES ASSUME ChainInv, MinerInv, miner.at = "search",
                      Parent[miner.pblock] # pindexBest, miner.pindexPrev = pindexBest
               PROVE  FALSE
    BY DEF StaleWorkStops
  <2> DEFINE p == Parent[miner.pblock]
  <2>1. p \in Block /\ pindexBest \in Block
    BY DEF MinerInv, MinerTypes, ChainInv, TypeInv, TypeOK
  <2>2. Replaces(p, pindexBest) /\ Replaces(pindexBest, p)
    BY DEF MinerInv
  <2>3. Trust[p] \in Nat /\ Trust[pindexBest] \in Nat
    BY <2>1, TreeAssumption
  <2> QED  BY <2>2, <2>3 DEF Replaces
<1> QED  BY <1>1, <1>2, <1>3, PTL DEF MinerSpec

-----------------------------------------------------------------------------
(***************************************************************************)
(* The orphan transactions.                                                *)
(***************************************************************************)
OrphanInv ==
    /\ mapOrphanTransactions \subseteq Tx /\ IsFiniteSet(mapOrphanTransactions)
    /\ mapOrphanTransactionsByPrev \in [Tx -> SUBSET Tx]
    /\ OrphansAreIndexed

\* byPrev has exactly the transactions of S, under what each spends from.
Indexes(byPrev, S) ==
    /\ byPrev \in [Tx -> SUBSET Tx]
    /\ \A t, p \in Tx : t \in byPrev[p] <=> (t \in S /\ p \in Prevs(t))

\* AddOrphanTx and EraseOrphanTx keep it so.
LEMMA LinkedIndexes ==
    ASSUME NEW byPrev, NEW S, NEW t \in Tx, Indexes(byPrev, S)
    PROVE  Indexes(Linked(byPrev, t), S \cup {t})
  BY DEF Indexes, Linked

LEMMA UnlinkedIndexes ==
    ASSUME NEW byPrev, NEW S, NEW E, Indexes(byPrev, S)
    PROVE  Indexes(Unlinked(byPrev, E), S \ E)
  BY DEF Indexes, Unlinked

\* One is evicted when there are too many.
LEMMA EvictionSuffices ==
    ASSUME NEW S, IsFiniteSet(S), Cardinality(S) <= MaxOrphans, NEW t,
           NEW evicted \in SUBSET (S \cup {t}),
           Cardinality(evicted) = IF Cardinality(S \cup {t}) > MaxOrphans THEN 1 ELSE 0
    PROVE  /\ IsFiniteSet((S \cup {t}) \ evicted)
           /\ Cardinality((S \cup {t}) \ evicted) <= MaxOrphans
<1> DEFINE T == S \cup {t}
<1>1. /\ IsFiniteSet(T) /\ Cardinality(T) \in Nat /\ Cardinality(S) \in Nat
      /\ Cardinality(T) <= Cardinality(S) + 1 /\ MaxOrphans \in Nat
  BY FS_AddElement, FS_CardinalityType, MempoolAssumption
<1>2. IsFiniteSet(evicted) /\ IsFiniteSet(T \ evicted) /\ Cardinality(T \ evicted) <= Cardinality(T)
  BY <1>1, FS_Subset
<1>3. CASE Cardinality(T) > MaxOrphans
  <2>1. PICK x : evicted = {x}
    BY <1>2, <1>3, FS_Singleton
  <2>2. Cardinality(T \ {x}) = Cardinality(T) - 1
    BY <1>1, <2>1, FS_RemoveElement
  <2> QED  BY <1>1, <1>2, <2>1, <2>2
<1>4. CASE ~(Cardinality(T) > MaxOrphans)
  <2>1. Cardinality(T \ evicted) \in Nat
    BY <1>2, FS_CardinalityType
  <2> QED  BY <1>1, <1>2, <1>4, <2>1
<1> QED  BY <1>3, <1>4

LEMMA InitOrphanInv == InitMiner => OrphanInv
  BY FS_EmptySet, MempoolAssumption DEF InitMiner, InitMempool, OrphanInv, OrphansAreIndexed

LEMMA NextOrphanInv ==
    ASSUME OrphanInv, [MinerNext]_minerVars
    PROVE  OrphanInv'
<1>1. Indexes(mapOrphanTransactionsByPrev, mapOrphanTransactions)
  BY DEF OrphanInv, OrphansAreIndexed, Indexes
<1>2. ASSUME NEW t \in Tx, ReceiveOrphan(t) PROVE OrphanInv'
  <2>1. PICK evicted \in SUBSET (mapOrphanTransactions \cup {t}) :
           /\ Cardinality(evicted) =
                 IF Cardinality(mapOrphanTransactions \cup {t}) > MaxOrphans THEN 1 ELSE 0
           /\ mapOrphanTransactions' = (mapOrphanTransactions \cup {t}) \ evicted
           /\ mapOrphanTransactionsByPrev' =
                 Unlinked(Linked(mapOrphanTransactionsByPrev, t), evicted)
    BY <1>2 DEF ReceiveOrphan
  <2>2. Indexes(mapOrphanTransactionsByPrev', mapOrphanTransactions')
    BY <1>1, <2>1, LinkedIndexes, UnlinkedIndexes
  <2>3. IsFiniteSet(mapOrphanTransactions') /\ Cardinality(mapOrphanTransactions') <= MaxOrphans
    BY <2>1, EvictionSuffices DEF OrphanInv, OrphansAreIndexed
  <2>4. mapOrphanTransactions' \subseteq Tx
    BY <2>1 DEF OrphanInv
  <2> QED  BY <2>2, <2>3, <2>4 DEF OrphanInv, OrphansAreIndexed, Indexes, Prevs
<1>3. CASE EraseOrphans
  <2> DEFINE erased == vEraseQueue \cap mapOrphanTransactions
  <2>1. /\ mapOrphanTransactions' = mapOrphanTransactions \ erased
        /\ mapOrphanTransactionsByPrev' = Unlinked(mapOrphanTransactionsByPrev, erased)
    BY <1>3 DEF EraseOrphans
  <2>2. Indexes(mapOrphanTransactionsByPrev', mapOrphanTransactions')
    BY <1>1, <2>1, UnlinkedIndexes
  <2>3. /\ IsFiniteSet(mapOrphanTransactions')
        /\ Cardinality(mapOrphanTransactions') <= Cardinality(mapOrphanTransactions)
    BY <2>1, FS_Subset DEF OrphanInv
  <2>4. Cardinality(mapOrphanTransactions') \in Nat /\ Cardinality(mapOrphanTransactions) \in Nat
    BY <2>3, FS_CardinalityType DEF OrphanInv
  <2>5. Cardinality(mapOrphanTransactions') <= MaxOrphans
    BY <2>3, <2>4, MempoolAssumption DEF OrphanInv, OrphansAreIndexed
  <2> QED  BY <2>1, <2>2, <2>3, <2>5 DEF OrphanInv, OrphansAreIndexed, Indexes, Prevs
<1>4. CASE Restart
  BY <1>4, FS_EmptySet, MempoolAssumption DEF Restart, OrphanInv, OrphansAreIndexed, Prevs
<1>5. CASE UNCHANGED orphanMaps
  BY <1>5 DEF orphanMaps, OrphanInv, OrphansAreIndexed, Prevs
<1>6. ASSUME NEW b, ReceiveBlock(b) PROVE OrphanInv'
  BY <1>5, <1>6 DEF ReceiveBlock
<1> QED
  BY <1>2, <1>3, <1>4, <1>5, <1>6
     DEF MinerNext, MempoolNext, Mining, ChainStep, Handling, NextOfQueue, TryOrphan,
         ReceiveAccepted, ReadPrev, MakeBlock, IncrementExtraNonce, FindBlock, CheckWork,
         StopSearch, GetWork, SubmitWork, MinerRestart, minerVars, mempoolVars

\* No entry of mapOrphanTransactionsByPrev outlives its orphan and no orphan is
\* without its entries, and there are never more than the limit, whatever is
\* received, evicted and accepted (AddOrphanTx, EraseOrphanTx and
\* LimitOrphanTxSize, the end of the handler of "tx").
THEOREM OrphansStayIndexed == MinerSpec => []OrphansAreIndexed
<1>1. InitMiner => OrphanInv
  BY InitOrphanInv
<1>2. OrphanInv /\ [MinerNext]_minerVars => OrphanInv'
  BY NextOrphanInv
<1>3. OrphanInv => OrphansAreIndexed
  BY DEF OrphanInv
<1> QED  BY <1>1, <1>2, <1>3, PTL DEF MinerSpec

-----------------------------------------------------------------------------
(***************************************************************************)
(* The queue of the handler of "tx".  An orphan that spends from what the  *)
(* handler has accepted misses another input, or will be tried: for the    *)
(* head of the queue or, when its turn comes, for a later one.  What is    *)
(* accepted goes to the end of the queue, so that an orphan tried before   *)
(* and found to miss just that is tried again.                             *)
(***************************************************************************)
ToBeTried(t) ==
    t \in orphansLeft \/ \E k \in 2..Len(vWorkQueue) : vWorkQueue[k] \in Prevs(t)

HandlerInv ==
    /\ vWorkQueue \in Seq(Tx)
    /\ vWorkQueue = << >> => orphansLeft = {}
    /\ vWorkQueue # << >> =>
          /\ call = "idle"
          /\ \A t \in mapOrphanTransactions \ vEraseQueue :
                Prevs(t) \cap (mempool.mapTx \ poolBefore) # {} => MissingInputs(t) \/ ToBeTried(t)

LEMMA TriedOrphan ==
    ASSUME HandlerInv, NEW x \in Tx, TryOrphan(x)
    PROVE  HandlerInv'
<1> USE DEF HandlerInv
<1>1. /\ x \in orphansLeft /\ orphansLeft' = orphansLeft \ {x}
      /\ UNCHANGED <<vars, mapOrphanTransactions, poolBefore>>
      /\ vWorkQueue \in Seq(Tx) /\ vWorkQueue # << >> /\ call' = "idle" /\ txdb' = txdb
  BY DEF TryOrphan, vars, orphanMaps
<1>2. CASE Accepts(x)
  <2>1. /\ mempool'.mapTx = mempool.mapTx \cup {x}
        /\ vWorkQueue' = Append(vWorkQueue, x) /\ vEraseQueue' = vEraseQueue \cup {x}
    BY <1>2 DEF TryOrphan, AddUnchecked
  <2>2. /\ vWorkQueue' \in Seq(Tx) /\ Len(vWorkQueue') = Len(vWorkQueue) + 1
        /\ Len(vWorkQueue) \in Nat \ {0} /\ vWorkQueue'[Len(vWorkQueue')] = x
        /\ \A k \in 1..Len(vWorkQueue) : vWorkQueue'[k] = vWorkQueue[k]
    BY <1>1, <2>1
  <2>3. ASSUME NEW t \in mapOrphanTransactions' \ vEraseQueue',
               Prevs(t) \cap (mempool'.mapTx \ poolBefore') # {}
        PROVE  MissingInputs(t)' \/ ToBeTried(t)'
    <3>1. t # x /\ t \in mapOrphanTransactions \ vEraseQueue
      BY <1>1, <2>1, <2>3
    <3>2. CASE x \in Prevs(t)
      <4>1. Len(vWorkQueue') \in 2..Len(vWorkQueue')
        BY <2>2
      <4> QED  BY <2>2, <3>2, <4>1 DEF ToBeTried, Prevs
    <3>3. CASE x \notin Prevs(t)
      <4>1. MissingInputs(t) \/ ToBeTried(t)
        BY <1>1, <2>1, <2>3, <3>1, <3>3
      <4>2. CASE MissingInputs(t)
        BY <1>1, <2>1, <3>3, <4>2 DEF MissingInputs, Prevs
      <4>3. CASE t \in orphansLeft
        BY <1>1, <3>1, <4>3 DEF ToBeTried
      <4>4. ASSUME NEW k \in 2..Len(vWorkQueue), vWorkQueue[k] \in Prevs(t) PROVE ToBeTried(t)'
        <5>1. k \in 2..Len(vWorkQueue') /\ vWorkQueue'[k] = vWorkQueue[k]
          BY <2>2
        <5> QED  BY <4>4, <5>1 DEF ToBeTried, Prevs
      <4> QED  BY <4>1, <4>2, <4>3, <4>4 DEF ToBeTried
    <3> QED  BY <3>2, <3>3
  <2> QED  BY <1>1, <2>2, <2>3
<1>3. CASE ~Accepts(x)
  <2>1. /\ UNCHANGED <<mempool, vWorkQueue>>
        /\ vEraseQueue' = IF Considered(x) /\ MissingInputs(x) THEN vEraseQueue
                          ELSE vEraseQueue \cup {x}
    BY <1>3 DEF TryOrphan
  <2>2. ASSUME NEW t \in mapOrphanTransactions' \ vEraseQueue',
               Prevs(t) \cap (mempool'.mapTx \ poolBefore') # {}
        PROVE  MissingInputs(t)' \/ ToBeTried(t)'
    <3>1. MissingInputs(t)' <=> MissingInputs(t)
      BY <1>1, <2>1 DEF MissingInputs, Prevs
    <3>2. CASE t = x
      BY <2>1, <2>2, <3>1, <3>2
    <3>3. CASE t # x
      <4>1. MissingInputs(t) \/ ToBeTried(t)
        BY <1>1, <2>1, <2>2
      <4>2. ToBeTried(t) => ToBeTried(t)'
        BY <1>1, <2>1, <3>3 DEF ToBeTried, Prevs
      <4> QED  BY <3>1, <4>1, <4>2
    <3> QED  BY <3>2, <3>3
  <2> QED  BY <1>1, <2>1, <2>2
<1> QED  BY <1>2, <1>3

LEMMA NextHandlerInv ==
    ASSUME OrphanInv, HandlerInv, [MinerNext]_minerVars
    PROVE  HandlerInv'
<1> USE DEF HandlerInv
<1>1. CASE UNCHANGED <<handler, mapOrphanTransactions, mempool, txdb, call>>
  BY <1>1 DEF handler, MissingInputs, ToBeTried, Prevs
<1>2. ASSUME vWorkQueue = << >>, UNCHANGED handler PROVE HandlerInv'
  BY <1>2 DEF handler
<1>3. CASE ChainStep
  <2>1. vWorkQueue = << >> /\ UNCHANGED handler
    BY <1>3 DEF ChainStep, PoolFollowsChain, ReorganizeCommits, SetBestChainInnerCommits,
       SetBestChain, DisconnectBlock, DisconnectedAll, ReconnectBlock, ReorganizeFails,
       SetBestChainInner, AppendFails, SecondaryFails, NewBestBlock
  <2> QED  BY <1>2, <2>1
<1>4. ASSUME NEW t, ReceiveBlock(t) \/ ReceiveOrphan(t) PROVE HandlerInv'
  BY <1>2, <1>4 DEF ReceiveBlock, ReceiveOrphan, MainFree
<1>5. ASSUME NEW x \in Tx, ReceiveAccepted(x) PROVE HandlerInv'
  <2>1. /\ mempool'.mapTx = mempool.mapTx \cup {x} /\ poolBefore' = mempool.mapTx
        /\ vWorkQueue' = <<x>> /\ orphansLeft' = mapOrphanTransactionsByPrev[x]
        /\ mapOrphanTransactions' = mapOrphanTransactions /\ call' = "idle"
    BY <1>5 DEF ReceiveAccepted, MainFree, AddUnchecked, orphanMaps, vars
  <2>2. \A t \in mapOrphanTransactions :
           Prevs(t) \cap (mempool'.mapTx \ poolBefore') # {} => t \in orphansLeft'
    BY <2>1 DEF OrphanInv, OrphansAreIndexed
  <2>3. \A t \in mapOrphanTransactions' \ vEraseQueue' :
           Prevs(t) \cap (mempool'.mapTx \ poolBefore') # {} => ToBeTried(t)'
    BY <2>1, <2>2 DEF ToBeTried
  <2> QED  BY <2>1, <2>3
<1>6. ASSUME NEW x \in Tx, TryOrphan(x) PROVE HandlerInv'
  BY <1>6, TriedOrphan
<1>7. CASE NextOfQueue
  <2>1. /\ Len(vWorkQueue) > 1 /\ vWorkQueue \in Seq(Tx) /\ vWorkQueue' = Tail(vWorkQueue)
        /\ orphansLeft = {} /\ orphansLeft' = mapOrphanTransactionsByPrev[vWorkQueue[2]]
        /\ UNCHANGED <<mapOrphanTransactions, vEraseQueue, poolBefore, mempool, txdb, call>>
    BY <1>7 DEF NextOfQueue, vars, orphanMaps
  <2>2. /\ vWorkQueue' \in Seq(Tx) /\ vWorkQueue # << >> /\ vWorkQueue' # << >>
        /\ Len(vWorkQueue') = Len(vWorkQueue) - 1 /\ Len(vWorkQueue) \in Nat
        /\ \A k \in 2..Len(vWorkQueue) : vWorkQueue[k] = vWorkQueue'[k - 1] /\ vWorkQueue[k] \in Tx
    BY <2>1
  <2>3. ASSUME NEW t \in mapOrphanTransactions \ vEraseQueue, ToBeTried(t) PROVE ToBeTried(t)'
    <3>1. PICK k \in 2..Len(vWorkQueue) : vWorkQueue[k] \in Prevs(t)
      BY <2>1, <2>3 DEF ToBeTried
    <3>2. CASE k = 2
      <4>1. vWorkQueue[2] \in Tx /\ t \in Tx
        BY <2>2, <3>1, <3>2 DEF OrphanInv
      <4>2. t \in mapOrphanTransactionsByPrev[vWorkQueue[2]]
        BY <3>1, <3>2, <4>1 DEF OrphanInv, OrphansAreIndexed
      <4> QED  BY <2>1, <4>2 DEF ToBeTried
    <3>3. CASE k # 2
      <4>1. k - 1 \in 2..Len(vWorkQueue') /\ vWorkQueue'[k - 1] \in Prevs(t)
        BY <2>2, <3>1, <3>3
      <4> QED  BY <4>1 DEF ToBeTried, Prevs
    <3> QED  BY <3>2, <3>3
  <2>4. \A t : MissingInputs(t) => MissingInputs(t)'
    BY <2>1 DEF MissingInputs, Prevs
  <2> QED  BY <2>1, <2>2, <2>3, <2>4
<1>8. CASE EraseOrphans \/ Restart
  <2>1. vWorkQueue' = << >> /\ orphansLeft' = {}
    BY <1>8 DEF EraseOrphans, Restart
  <2>2. << >> \in Seq(Tx)
    OBVIOUS
  <2> QED  BY <2>1, <2>2
<1>9. CASE UNCHANGED mempoolVars
  BY <1>1, <1>9 DEF mempoolVars, vars, orphanMaps
<1> QED
  BY <1>3, <1>4, <1>5, <1>6, <1>7, <1>8, <1>9
     DEF MinerNext, MempoolNext, Mining, Handling, ReadPrev, MakeBlock, IncrementExtraNonce,
         FindBlock, CheckWork, StopSearch, GetWork, SubmitWork, MinerRestart, minerVars

\* When the handler of "tx" ends, every orphan that spends from a transaction
\* it accepted still misses another input, whatever the orphans spend from
\* each other and in whatever order they are tried (ProcessMessage, "tx").
THEOREM QueueReachesAll == MinerSpec => QueueReachesOrphans
<1>1. InitMiner => OrphanInv /\ HandlerInv
  BY InitOrphanInv DEF InitMiner, InitMempool, HandlerInv
<1>2. OrphanInv /\ HandlerInv /\ [MinerNext]_minerVars => (OrphanInv /\ HandlerInv)'
  BY NextOrphanInv, NextHandlerInv
<1>3. HandlerInv => [EraseOrphans =>
         \A t \in mapOrphanTransactions' :
            Prevs(t) \cap (mempool.mapTx \ poolBefore) # {} => MissingInputs(t)]_mempoolVars
  <2> SUFFICES ASSUME HandlerInv, EraseOrphans, NEW t \in mapOrphanTransactions',
                      Prevs(t) \cap (mempool.mapTx \ poolBefore) # {}
               PROVE  MissingInputs(t)
    OBVIOUS
  <2>1. /\ t \in mapOrphanTransactions \ vEraseQueue /\ orphansLeft = {}
        /\ Len(vWorkQueue) = 1 /\ vWorkQueue # << >>
    BY DEF EraseOrphans
  <2>2. ~ ToBeTried(t)
    BY <2>1 DEF ToBeTried
  <2> QED  BY <2>1, <2>2 DEF HandlerInv
<1> QED  BY <1>1, <1>2, <1>3, PTL DEF MinerSpec, QueueReachesOrphans

-----------------------------------------------------------------------------
(***************************************************************************)
(* The pool.  Nothing in it is in the committed index, at any step: what a *)
(* commit adds to the index is removed, and what Reorganize resurrects has *)
(* left the index with the blocks disconnected.  That it may hold what     *)
(* conflicts with the chain does not matter for that.                      *)
(***************************************************************************)
Indexed(pool) ==
    /\ pool \in [mapTx : SUBSET Tx, mapNextTx : [Outpoint -> Tx \cup {NoTx}]]
    /\ \A o \in Outpoint : \A t \in Tx :
          pool.mapNextTx[o] = t <=> (t \in pool.mapTx /\ o \in Ins[t])

PoolInv ==
    /\ Indexed(mempool)
    /\ \A t \in mempool.mapTx : ~ContainsTx(txdb.index, t)

\* addUnchecked of transactions that conflict neither with the pool nor with
\* each other.
LEMMA AddedIsIndexed ==
    ASSUME NEW pool, Indexed(pool), NEW S \in SUBSET Tx,
           \A t \in S : \A o \in Ins[t] : pool.mapNextTx[o] = NoTx,
           \A t, k \in S : t # k => Ins[t] \cap Ins[k] = {}
    PROVE  /\ Indexed(AddUnchecked(pool, S))
           /\ AddUnchecked(pool, S).mapTx = pool.mapTx \cup S
<1> DEFINE next(o) == IF \E t \in S : o \in Ins[t] THEN CHOOSE t \in S : o \in Ins[t]
                      ELSE pool.mapNextTx[o]
           added == AddUnchecked(pool, S)
<1>1. /\ added = [mapTx |-> pool.mapTx \cup S, mapNextTx |-> [o \in Outpoint |-> next(o)]]
      /\ pool.mapTx \subseteq Tx /\ NoTx \notin Tx
      /\ \A o \in Outpoint : pool.mapNextTx[o] \in Tx \cup {NoTx}
  BY TxAssumption DEF AddUnchecked, Indexed
<1>2. ASSUME NEW o \in Outpoint
      PROVE  /\ next(o) \in Tx \cup {NoTx}
             /\ \A t \in Tx : next(o) = t <=> (t \in pool.mapTx \cup S /\ o \in Ins[t])
  <2>1. CASE \E t \in S : o \in Ins[t]
    <3>1. PICK t \in S : o \in Ins[t]
      BY <2>1
    <3>2. next(o) \in S /\ o \in Ins[next(o)]
      BY <2>1
    <3>3. next(o) = t
      BY <3>1, <3>2
    <3>4. pool.mapNextTx[o] = NoTx
      BY <3>1
    <3>5. \A k \in pool.mapTx : o \notin Ins[k]
      BY <1>1, <3>4 DEF Indexed
    <3> HIDE DEF next
    <3> QED  BY <3>1, <3>3, <3>5
  <2>2. CASE ~\E t \in S : o \in Ins[t]
    <3>1. next(o) = pool.mapNextTx[o]
      BY <2>2
    <3> HIDE DEF next
    <3> QED  BY <1>1, <2>2, <3>1 DEF Indexed
  <2> QED  BY <2>1, <2>2
<1> HIDE DEF next
<1> QED  BY <1>1, <1>2 DEF Indexed

\* remove.
LEMMA RemovedIsIndexed ==
    ASSUME NEW pool, Indexed(pool), NEW S
    PROVE  Indexed(Remove(pool, S)) /\ Remove(pool, S).mapTx = pool.mapTx \ S
<1> DEFINE next(o) == IF \E t \in S \cap pool.mapTx : o \in Ins[t] THEN NoTx
                      ELSE pool.mapNextTx[o]
           left == Remove(pool, S)
<1>1. /\ left = [mapTx |-> pool.mapTx \ S, mapNextTx |-> [o \in Outpoint |-> next(o)]]
      /\ pool.mapTx \subseteq Tx /\ NoTx \notin Tx
      /\ \A o \in Outpoint : pool.mapNextTx[o] \in Tx \cup {NoTx}
  BY TxAssumption DEF Remove, Indexed
<1>2. ASSUME NEW o \in Outpoint
      PROVE  /\ next(o) \in Tx \cup {NoTx}
             /\ \A t \in Tx : next(o) = t <=> (t \in pool.mapTx \ S /\ o \in Ins[t])
  BY <1>1 DEF Indexed
<1> HIDE DEF next
<1> QED  BY <1>1, <1>2 DEF Indexed

LEMMA InitPool == InitMiner => PoolInv
<1> SUFFICES ASSUME InitMiner PROVE PoolInv
  OBVIOUS
<1>1. mempool = EmptyPool /\ NoTx \notin Tx
  BY TxAssumption DEF InitMiner, InitMempool
<1> QED  BY <1>1 DEF PoolInv, Indexed, EmptyPool

\* What the handler of "tx" accepts.
LEMMA AcceptedPool ==
    ASSUME PoolInv, NEW t \in Tx, Accepts(t), mempool' = AddUnchecked(mempool, {t}), UNCHANGED txdb
    PROVE  PoolInv'
<1>1. /\ ~ContainsTx(txdb.index, t)
      /\ \A o \in Ins[t] : mempool.mapNextTx[o] = NoTx
  BY DEF Accepts, Considered, PoolHasRoom
<1>2. Indexed(mempool') /\ mempool'.mapTx = mempool.mapTx \cup {t}
  BY <1>1, AddedIsIndexed DEF PoolInv
<1> QED  BY <1>1, <1>2 DEF PoolInv

LEMMA ReorganizedPool ==
    ASSUME IndexInv, PoolInv, ReorganizeCommits, NEW S \in Resurrected,
           mempool' = PoolReorganized(S)
    PROVE  PoolInv'
<1>1. /\ call = "reconnect" /\ cursor \in Block /\ pindexBest \in Block
      /\ pfork \in Block /\ OpenInv
      /\ txdb'.index = txn.index
  BY PathsExist DEF ReorganizeCommits, IndexInv, ChainInv, TypeInv, TypeOK
<1>2. Ancestors[pindexBest] \subseteq Block /\ Ancestors[cursor] \subseteq Block
  BY <1>1, TreeAssumption
<1>3. vResurrect \subseteq Tx
  BY <1>2, TxTypes DEF vResurrect
<1>4. /\ S \subseteq vResurrect
      /\ \A t \in S : PoolHasRoom(mempool, t)
      /\ \A t, k \in S : t # k => Ins[t] \cap Ins[k] = {}
  BY DEF Resurrected
<1>5. \A t \in S : \A o \in Ins[t] : mempool.mapNextTx[o] = NoTx
  BY <1>4 DEF PoolHasRoom
<1>6. /\ Indexed(AddUnchecked(mempool, S))
      /\ AddUnchecked(mempool, S).mapTx = mempool.mapTx \cup S
  BY <1>3, <1>4, <1>5, AddedIsIndexed DEF PoolInv
<1>7. Indexed(mempool') /\ mempool'.mapTx = (mempool.mapTx \cup S) \ vDelete
  BY <1>6, RemovedIsIndexed DEF PoolReorganized
<1>8. ASSUME NEW t \in (mempool.mapTx \cup S) \ vDelete, ContainsTx(txn.index, t) PROVE FALSE
  <2>1. t \in Tx
    BY <1>3, <1>4 DEF PoolInv, Indexed
  <2>2. \A a \in Ancestors[cursor] \ Ancestors[pfork] : t \notin BlockTxs(a)
    BY DEF vDelete
  <2>3. /\ ContainsTx(txdb.index, t)
        /\ \A d \in Ancestors[pindexBest] \ Ancestors[pfork] : t \notin BlockTxs(d)
    BY <1>1, <1>8, <2>1, <2>2 DEF OpenInv
  <2>4. t \notin vResurrect
    BY <2>3 DEF vResurrect
  <2> QED  BY <1>4, <2>3, <2>4 DEF PoolInv
<1> QED  BY <1>1, <1>7, <1>8 DEF PoolInv

LEMMA NextPool ==
    ASSUME IndexInv, PoolInv, [MinerNext]_minerVars
    PROVE  PoolInv'
<1>1. CASE UNCHANGED <<mempool, txdb>>
  BY <1>1 DEF PoolInv, Indexed
<1>2. ASSUME NEW b, ReceiveBlock(b) PROVE PoolInv'
  BY <1>1, <1>2 DEF ReceiveBlock, AddToBlockIndex
<1>3. CASE ChainStep
  <2>1. CASE ReorganizeCommits /\ \E S \in Resurrected : mempool' = PoolReorganized(S)
    BY <2>1, ReorganizedPool
  <2>2. CASE SetBestChainInnerCommits /\ mempool' = Remove(mempool, BlockTxs(txn.best))
    <3>1. call = "connected" /\ txdb' = txn
      BY <2>2 DEF SetBestChainInnerCommits
    <3>2. Indexed(mempool') /\ mempool'.mapTx = mempool.mapTx \ BlockTxs(txn.best)
      BY <2>2, RemovedIsIndexed DEF PoolInv
    <3>3. \A t \in mempool'.mapTx : t \in Tx
      BY <3>2 DEF Indexed
    <3> QED  BY <3>1, <3>2, <3>3 DEF IndexInv, OpenInv, PoolInv
  <2>3. CASE /\ \/ SetBestChain \/ DisconnectBlock \/ DisconnectedAll
                \/ \E b \in Block : ReconnectBlock(b)
                \/ ReorganizeFails
                \/ \E b \in Block : SetBestChainInner(b)
                \/ AppendFails
                \/ \E b \in Block : SecondaryFails(b)
                \/ NewBestBlock
             /\ UNCHANGED mempool
    <3>1. txdb' = txdb
      BY <2>3 DEF SetBestChain, DisconnectBlock, DisconnectedAll, ReconnectBlock, ReorganizeFails,
         SetBestChainInner, AppendFails, SecondaryFails, NewBestBlock
    <3> QED  BY <1>1, <2>3, <3>1
  <2> QED  BY <1>3, <2>1, <2>2, <2>3 DEF ChainStep, PoolFollowsChain
<1>4. ASSUME NEW t \in Tx, ReceiveAccepted(t) PROVE PoolInv'
  BY <1>4, AcceptedPool DEF ReceiveAccepted, vars
<1>5. ASSUME NEW t \in Tx, TryOrphan(t) PROVE PoolInv'
  <2>1. UNCHANGED txdb
    BY <1>5 DEF TryOrphan, vars
  <2>2. CASE Accepts(t)
    BY <1>5, <2>1, <2>2, AcceptedPool DEF TryOrphan
  <2>3. CASE ~Accepts(t)
    BY <1>1, <1>5, <2>1, <2>3 DEF TryOrphan
  <2> QED  BY <2>2, <2>3
<1>6. CASE NextOfQueue \/ EraseOrphans \/ \E t \in Tx : ReceiveOrphan(t)
  BY <1>1, <1>6 DEF NextOfQueue, EraseOrphans, ReceiveOrphan, vars
<1>7. CASE MempoolNext
  BY <1>2, <1>3, <1>4, <1>5, <1>6, <1>7 DEF MempoolNext, Handling
<1>8. CASE Mining
  BY <1>1, <1>2, <1>8
     DEF Mining, ReadPrev, MakeBlock, IncrementExtraNonce, FindBlock, StopSearch, CheckWork,
         GetWork, SubmitWork, mempoolVars, vars
<1>9. CASE MinerRestart
  <2>1. mempool' = EmptyPool /\ NoTx \notin Tx
    BY <1>9, TxAssumption DEF MinerRestart, Restart
  <2> QED  BY <2>1 DEF PoolInv, Indexed, EmptyPool
<1>10. CASE UNCHANGED minerVars
  BY <1>1, <1>10 DEF minerVars, mempoolVars, vars
<1> QED  BY <1>7, <1>8, <1>9, <1>10 DEF MinerNext

\* mapNextTx has what the pool spends and nothing else, and the pool nothing
\* that is on the best chain, through every reorganization, postponed block and
\* crash (CTxMemPool::accept, addUnchecked and remove, Reorganize's end).
THEOREM PoolStaysIndexed == MinerSpec => []PoolIsIndexed
<1> DEFINE Inv == IndexInv /\ MinerInv /\ PoolInv
<1>1. InitMiner => Inv
  BY InitIndex, InitMinerInv, InitPool DEF InitMiner, InitMempool
<1>2. Inv /\ [MinerNext]_minerVars => Inv'
  <2> SUFFICES ASSUME Inv, [MinerNext]_minerVars PROVE Inv'
    OBVIOUS
  <2>1. IndexInv'
    BY MinerOnChain, NextIndex DEF MinerInv
  <2>2. MinerInv'
    BY NextMinerInv DEF IndexInv
  <2> QED  BY <2>1, <2>2, NextPool
<1>3. Inv => PoolIsIndexed
  BY DEF PoolInv, Indexed, PoolIsIndexed
<1> HIDE DEF Inv
<1> QED  BY <1>1, <1>2, <1>3, PTL DEF MinerSpec

-----------------------------------------------------------------------------
(***************************************************************************)
(* Work in hand.  A block is made out of a pool that may hold what no      *)
(* longer connects, so CreateNewBlock looks at the index again; from then  *)
(* on the index stays as it is until the best block is replaced, and the   *)
(* block is stale from the first commit on.                                *)
(***************************************************************************)
Work == (mapNewBlock \cup {miner.pblock}) \ {NoBlock}

\* Nothing has been committed since pindexBest became the best block.
Uncommitted == call \in {"idle", "begin", "append", "disconnect", "reconnect"}

WorkInv ==
    \A b \in Work :
       /\ b \in Block \ {Genesis}
       /\ Replaces(pindexBest, Parent[b])
       /\ Uncommitted /\ Parent[b] = pindexBest => ConnectBlockOk(txdb.index, b)

\* What CreateNewBlock makes connects.
LEMMA CreatedConnects ==
    ASSUME IndexInv, PoolInv, NEW b \in Block, CreateNewBlock(b)
    PROVE  ConnectBlockOk(txdb.index, b)
<1>1. /\ call = "idle" /\ b # Genesis /\ Parent[b] = pindexBest /\ RewardAllowed(b, rule)
      /\ \A t \in BlockTxs(b) \cap Generated : Ins[t] = {}
      /\ Collectable(b)
  BY DEF CreateNewBlock, MainFree
<1>2. pindexBest \in Block /\ txdb.best \in Block
  BY DEF IndexInv, ChainInv, TypeInv, TypeOK
<1>3. /\ Ancestors[b] = {b} \cup Ancestors[pindexBest] /\ b \notin Ancestors[pindexBest]
      /\ Height[b] = Height[pindexBest] + 1 /\ Height \in [Block -> Nat] /\ Maturity \in Nat
      /\ Ancestors[pindexBest] \subseteq Block
  BY <1>1, <1>2, TreeAssumption, TxAssumption
<1>4. \A t \in Tx : ContainsTx(txdb.index, t) =>
         txdb.index.pos[t] \in Ancestors[pindexBest] /\ t \in BlockTxs(txdb.index.pos[t])
  BY <1>1, <1>2, PlacedAbove DEF IndexInv, PlacedInv, Placed
<1>5. ASSUME NEW t \in BlockTxs(b), t \in Tx, Ins[t] = {} PROVE ~ContainsTx(txdb.index, t)
  <2> SUFFICES ASSUME ContainsTx(txdb.index, t) PROVE FALSE
    OBVIOUS
  <2>1. txdb.index.pos[t] \in Ancestors[b] \ {b} /\ t \in BlockTxs(txdb.index.pos[t])
    BY <1>3, <1>4, <1>5
  <2> QED  BY <1>5, <2>1, TxAssumption
<1>6. ASSUME NEW t \in Tx, ContainsTx(txdb.index, t), Immature(b, txdb.index.pos[t], t)
      PROVE  Immature(pindexBest, txdb.index.pos[t], t)
  <2>1. txdb.index.pos[t] \in Ancestors[pindexBest]
    BY <1>4, <1>6
  <2>2. Height[b] \in Int /\ Height[pindexBest] \in Int /\ Height[txdb.index.pos[t]] \in Int
    BY <1>2, <1>3, <2>1
  <2> QED  BY <1>3, <1>6, <2>1, <2>2 DEF Immature
<1>7. ASSUME NEW i \in DOMAIN Vtx[b]
      PROVE  ~Overwrites(txdb.index, Vtx[b][i]) /\ ConnectInputs(txdb.index, b, i)
  <2>1. /\ Vtx[b][i] \in BlockTxs(b) /\ BlockTxs(b) \subseteq Tx
        /\ EarlierTxs(b, i) \subseteq BlockTxs(b)
        /\ \A o \in Ins[Vtx[b][i]] : o \in Outpoint /\ Creator[o] \in Tx
    BY TxTypes, TxAssumption DEF BlockTxs, EarlierTxs
  <2>2. CASE Vtx[b][i] \in Generated
    <3>1. Ins[Vtx[b][i]] = {} /\ ~ContainsTx(txdb.index, Vtx[b][i])
      BY <1>1, <1>5, <2>1, <2>2
    <3> QED  BY <3>1 DEF Overwrites, ConnectInputs
  <2>3. CASE Vtx[b][i] \notin Generated
    <3>1. Vtx[b][i] \in mempool.mapTx /\ Connects(Vtx[b][i], EarlierTxs(b, i) \ Generated)
      BY <1>1, <2>3 DEF Collectable
    <3>2. ~Overwrites(txdb.index, Vtx[b][i])
      BY <3>1 DEF PoolInv, Overwrites
    <3>3. ASSUME NEW o \in Ins[Vtx[b][i]]
          PROVE  /\ \/ Creator[o] \in EarlierTxs(b, i) /\ ~Immature(b, b, Creator[o])
                    \/ /\ Creator[o] \notin EarlierTxs(b, i)
                       /\ Unspent(txdb.index, o)
                       /\ ~Immature(b, txdb.index.pos[Creator[o]], Creator[o])
                 /\ \A t \in EarlierTxs(b, i) : o \notin Ins[t]
      <4>1. \A t \in EarlierTxs(b, i) : o \notin Ins[t]
        BY <1>1, <2>1, <3>1 DEF Connects
      <4>2. CASE Creator[o] \in EarlierTxs(b, i) \ Generated
        BY <4>1, <4>2 DEF Immature
      <4>3. CASE Creator[o] \notin EarlierTxs(b, i) \ Generated
        <5>1. /\ Unspent(txdb.index, o) /\ ContainsTx(txdb.index, Creator[o])
              /\ ~Immature(pindexBest, txdb.index.pos[Creator[o]], Creator[o])
          BY <3>1, <4>3 DEF Connects, Unspent
        <5>2. Creator[o] \notin EarlierTxs(b, i)
          BY <1>1, <1>5, <2>1, <4>3, <5>1
        <5>3. ~Immature(b, txdb.index.pos[Creator[o]], Creator[o])
          BY <1>6, <2>1, <5>1
        <5> QED  BY <4>1, <5>1, <5>2, <5>3
      <4> QED  BY <4>2, <4>3
    <3> QED  BY <3>2, <3>3 DEF ConnectInputs
  <2> QED  BY <2>2, <2>3
<1> QED  BY <1>1, <1>7 DEF ConnectBlockOk, InputsConnect

LEMMA InitWork == InitMiner => WorkInv
BY DEF InitMiner, Idle, WorkInv, Work

\* A step that commits nothing and keeps the best block keeps the work that
\* was there.
LEMMA WorkKept ==
    ASSUME WorkInv, UNCHANGED <<txdb, pindexBest, rule>>, Uncommitted' => Uncommitted,
           NEW b \in Work
    PROVE  /\ b \in Block \ {Genesis}
           /\ Replaces(pindexBest', Parent[b])
           /\ Uncommitted' /\ Parent[b] = pindexBest' => ConnectBlockOk(txdb.index, b)'
BY DEF WorkInv, ConnectBlockOk, InputsConnect, RewardAllowed, Replaces

\* Work stays good through the steps of the chain state.
LEMMA ChainKeepsWork ==
    ASSUME ChainInv, ChainInv', WorkInv, [SteadyNext]_vars, Work' \subseteq Work
    PROVE  WorkInv'
<1>1. CASE UNCHANGED <<txdb, pindexBest, rule>> /\ (Uncommitted' => Uncommitted)
  <2> SUFFICES ASSUME NEW b \in Work'
               PROVE  /\ b \in Block \ {Genesis}
                      /\ Replaces(pindexBest', Parent[b])
                      /\ Uncommitted' /\ Parent[b] = pindexBest' => ConnectBlockOk(txdb.index, b)'
    BY DEF WorkInv
  <2> QED  BY <1>1, WorkKept
<1>2. CASE ReorganizeCommits \/ SetBestChainInnerCommits
  <2>1. ~Uncommitted' /\ pindexBest' = pindexBest
    BY <1>2 DEF ReorganizeCommits, SetBestChainInnerCommits, Uncommitted
  <2> QED  BY <2>1 DEF WorkInv, Replaces
<1>3. CASE NewBestBlock
  <2>1. Trust[pindexBest] < Trust[pindexBest'] /\ pindexBest \in Block /\ pindexBest' \in Block
    BY <1>3 DEF NewBestBlock, ChainInv, TrustInv, TypeInv, TypeOK
  <2>2. ASSUME NEW b \in Work' PROVE b \in Block \ {Genesis} /\ Trust[Parent[b]] < Trust[pindexBest']
    <3>1. b \in Block \ {Genesis} /\ Replaces(pindexBest, Parent[b])
      BY <2>2 DEF WorkInv
    <3>2. Parent[b] \in Block
      BY <3>1, TreeAssumption
    <3>3. Trust[Parent[b]] \in Nat /\ Trust[pindexBest] \in Nat /\ Trust[pindexBest'] \in Nat
      BY <2>1, <3>2, TreeAssumption
    <3> QED  BY <2>1, <3>1, <3>3 DEF Replaces
  <2>3. Trust[pindexBest'] \in Nat
    BY <2>1, TreeAssumption
  <2> QED  BY <2>2, <2>3 DEF WorkInv, Replaces
<1>4. ASSUME SteadyNext, ~(ReorganizeCommits \/ SetBestChainInnerCommits), ~NewBestBlock
      PROVE  UNCHANGED <<txdb, pindexBest, rule>> /\ (Uncommitted' => Uncommitted)
  <2>1. CASE SetBestChain \/ DisconnectBlock \/ DisconnectedAll \/ ReorganizeFails \/ AppendFails
    BY <2>1 DEF SetBestChain, DisconnectBlock, DisconnectedAll, ReorganizeFails, AppendFails,
       memory, Return, Uncommitted
  <2>2. ASSUME NEW b \in Block,
               ReconnectBlock(b) \/ SetBestChainInner(b) \/ SecondaryFails(b) \/ AddToBlockIndex(b)
        PROVE  UNCHANGED <<txdb, pindexBest, rule>> /\ (Uncommitted' => Uncommitted)
    BY <2>2 DEF ReconnectBlock, SetBestChainInner, SecondaryFails, AddToBlockIndex, memory,
       Uncommitted
  <2> QED  BY <1>4, <2>1, <2>2 DEF SteadyNext, Connecting
<1>5. UNCHANGED vars => UNCHANGED <<txdb, pindexBest, rule>> /\ (Uncommitted' => Uncommitted)
  BY DEF vars, Uncommitted
<1> QED  BY <1>1, <1>2, <1>3, <1>4, <1>5

\* The block just made joins the work.
LEMMA CreatedIsWork ==
    ASSUME IndexInv, PoolInv, WorkInv, NEW b \in Block, CreateNewBlock(b), UNCHANGED vars,
           Work' \subseteq Work \cup {b}
    PROVE  WorkInv'
<1>1. /\ UNCHANGED <<txdb, pindexBest, rule>> /\ Uncommitted' = Uncommitted
      /\ b \in Block \ {Genesis} /\ Parent[b] = pindexBest
  BY DEF vars, Uncommitted, CreateNewBlock
<1>2. ConnectBlockOk(txdb.index, b)'
  BY <1>1, CreatedConnects DEF ConnectBlockOk, InputsConnect, RewardAllowed
<1> SUFFICES ASSUME NEW k \in Work'
             PROVE  /\ k \in Block \ {Genesis}
                    /\ Replaces(pindexBest', Parent[k])
                    /\ Uncommitted' /\ Parent[k] = pindexBest' => ConnectBlockOk(txdb.index, k)'
  BY DEF WorkInv
<1>3. CASE k = b
  BY <1>1, <1>2, <1>3 DEF Replaces
<1>4. CASE k \in Work
  BY <1>1, <1>4, WorkKept
<1> QED  BY <1>3, <1>4

LEMMA NextWork ==
    ASSUME IndexInv, MinerInv, PoolInv, WorkInv, [MinerNext]_minerVars
    PROVE  WorkInv'
<1>1. ChainInv /\ ChainInv'
  BY NextMinerInv DEF IndexInv
<1>2. ASSUME [SteadyNext]_vars, Work' \subseteq Work PROVE WorkInv'
  BY <1>1, <1>2, ChainKeepsWork
<1>3. CASE MempoolNext /\ UNCHANGED <<miner, mapNewBlock>>
  <2>1. [SteadyNext]_vars
    BY <1>3 DEF MempoolNext, ChainStep, PoolFollowsChain, Handling, NextOfQueue, EraseOrphans,
       TryOrphan, ReceiveAccepted, ReceiveOrphan, ReceiveBlock, SteadyNext, Connecting
  <2> QED  BY <1>2, <1>3, <2>1 DEF Work
<1>4. ASSUME NEW b \in Block, MakeBlock(b) \/ GetWork(b) PROVE WorkInv'
  <2>1. CreateNewBlock(b) /\ UNCHANGED vars /\ Work' \subseteq Work \cup {b}
    <3>1. /\ CreateNewBlock(b) /\ UNCHANGED vars
          /\ mapNewBlock' \subseteq mapNewBlock \cup {b}
          /\ miner'.pblock \in {b, miner.pblock}
      BY <1>4 DEF MakeBlock, GetWork, mempoolVars, vars, MinerInv, MinerTypes
    <3> QED  BY <3>1 DEF Work
  <2> QED  BY <2>1, CreatedIsWork
<1>5. CASE ReadPrev \/ IncrementExtraNonce \/ StopSearch
  <2>1. UNCHANGED vars /\ Work' \subseteq Work
    <3>1. /\ UNCHANGED vars /\ mapNewBlock' = mapNewBlock
          /\ miner'.pblock \in {NoBlock, miner.pblock}
      <4>1. CASE ReadPrev \/ IncrementExtraNonce
        BY <4>1 DEF ReadPrev, IncrementExtraNonce, mempoolVars, MinerInv, MinerTypes
      <4>2. CASE StopSearch
        BY <4>2 DEF StopSearch, Idle, mempoolVars
      <4> QED  BY <1>5, <4>1, <4>2
    <3> QED  BY <3>1 DEF Work
  <2> QED  BY <1>2, <2>1
<1>6. CASE FindBlock
  <2>1. miner.pblock \in Block /\ ReceiveBlock(miner.pblock) /\ Work' \subseteq Work
    BY <1>6 DEF FindBlock, CheckWork, Work, Idle, MinerInv, MinerTypes
  <2> QED  BY <1>2, <2>1 DEF ReceiveBlock, SteadyNext
<1>7. ASSUME NEW b \in Block, SubmitWork(b) PROVE WorkInv'
  BY <1>2, <1>7 DEF SubmitWork, CheckWork, ReceiveBlock, SteadyNext, Work
<1>8. CASE MinerRestart
  BY <1>8 DEF MinerRestart, Idle, Work, WorkInv
<1>9. CASE UNCHANGED minerVars
  BY <1>2, <1>9 DEF minerVars, mempoolVars, Work
<1> QED
  BY <1>3, <1>4, <1>5, <1>6, <1>7, <1>8, <1>9 DEF MinerNext, Mining

\* A solution for a block that is not stale is never refused for its
\* transactions, whatever entered or left the pool and whatever was
\* reorganized since it was made (CreateNewBlock, CheckWork, getwork).
THEOREM WorkStaysConnecting == MinerSpec => []WorkConnects
<1> DEFINE Inv == IndexInv /\ MinerInv /\ PoolInv /\ WorkInv
<1>1. InitMiner => Inv
  BY InitIndex, InitMinerInv, InitPool, InitWork DEF InitMiner, InitMempool
<1>2. Inv /\ [MinerNext]_minerVars => Inv'
  <2> SUFFICES ASSUME Inv, [MinerNext]_minerVars PROVE Inv'
    OBVIOUS
  <2>1. IndexInv'
    BY MinerOnChain, NextIndex DEF MinerInv
  <2>2. MinerInv'
    BY NextMinerInv DEF IndexInv
  <2> QED  BY <2>1, <2>2, NextPool, NextWork
<1>3. Inv => WorkConnects
  BY DEF WorkInv, Work, Uncommitted, MainFree, WorkConnects
<1> HIDE DEF Inv
<1> QED  BY <1>1, <1>2, <1>3, PTL DEF MinerSpec

-----------------------------------------------------------------------------
(* Checkpoints. *)

\* Under a block there is one at the height of any that is not above it: the
\* walks by pprev in ValidateSyncCheckpoint find what they look for.
LEMMA HeightsBelow ==
    ASSUME NEW b \in Block, NEW a \in Block, Height[a] <= Height[b]
    PROVE  \E x \in Ancestors[b] : Height[x] = Height[a]
<1> DEFINE Above == {x \in Ancestors[b] : Height[a] <= Height[x]}
           H == {Height[x] : x \in Above}
<1>1. Above \subseteq Block /\ b \in Above
  BY SelfAncestor, TreeAssumption
<1>2. H \in SUBSET Nat /\ H # {}
  <2>1. \A x \in Above : Height[x] \in Nat
    BY <1>1, TreeAssumption
  <2>2. Height[b] \in H
    BY <1>1
  <2> QED  BY <2>1, <2>2
<1>3. PICK m \in H : \A k \in H : m <= k
  <2> HIDE DEF H
  <2> QED  BY <1>2, LeastNatural
<1>4. PICK x \in Above : Height[x] = m
  BY <1>3
<1>5. x \in Block /\ Height[x] \in Nat /\ Height[a] \in Nat /\ Height[a] <= Height[x]
  BY <1>1, <1>4, TreeAssumption
<1>6. CASE x = Genesis
  <2>1. Genesis = a \/ Height[Genesis] < Height[a]
    BY GenesisUnderAll, TreeAssumption
  <2>2. Height[x] = Height[a]
    BY <1>5, <1>6, <2>1
  <2> QED  BY <1>4, <2>2
<1>7. CASE x # Genesis
  <2>1. Parent[x] \in Block /\ Height[x] = Height[Parent[x]] + 1 /\ Height[Parent[x]] \in Nat
    BY <1>5, <1>7, TreeAssumption
  <2>2. Parent[x] \in Ancestors[b]
    BY <1>4, <1>5, <1>7, SelfAncestor, TreeAssumption
  <2>3. ASSUME Height[x] # Height[a] PROVE FALSE
    <3>1. Parent[x] \in Above
      BY <1>5, <2>1, <2>2, <2>3
    <3>2. m <= Height[Parent[x]]
      BY <1>3, <3>1
    <3> QED  BY <1>4, <2>1, <3>2
  <2> QED  BY <1>4, <2>3
<1> QED  BY <1>6, <1>7

\* A block that ValidateSyncCheckpoint lets through descends from the current
\* checkpoint.
LEMMA ValidatedDescends ==
    ASSUME NEW h \in Block, hashSyncCheckpoint \in Block, ValidateSyncCheckpoint(h)
    PROVE  hashSyncCheckpoint \in Ancestors[h]
<1> DEFINE s == hashSyncCheckpoint
<1>1. Height[h] \in Nat /\ Height[s] \in Nat /\ Height[h] > Height[s]
  BY TreeAssumption DEF ValidateSyncCheckpoint
<1>2. AtHeightOf(h, s) = s
  BY <1>1 DEF ValidateSyncCheckpoint, ConflictsWith
<1>3. \E x \in Ancestors[h] : Height[x] = Height[s]
  BY <1>1, HeightsBelow
<1>4. AtHeightOf(h, s) \in Ancestors[h]
  BY <1>3 DEF AtHeightOf
<1> QED  BY <1>2, <1>4

-----------------------------------------------------------------------------
(***************************************************************************)
(* While a handler is between the validation of a checkpoint and its       *)
(* adoption SetBestChain runs, and the restart, a new message or a reset   *)
(* must not come in between: what was validated then still descends from   *)
(* the current checkpoint.                                                 *)
(***************************************************************************)
SyncInv ==
    /\ TypeInv
    /\ hashSyncCheckpoint \in Block
    /\ dbSyncCheckpoint = hashSyncCheckpoint
    /\ step = "pending" =>
          /\ hashPendingCheckpoint \in Block
          /\ hashSyncCheckpoint \in Ancestors[hashPendingCheckpoint]
    /\ step = "received" =>
          /\ hashCheckpoint \in Block
          /\ hashSyncCheckpoint \in Ancestors[hashCheckpoint]

LEMMA InitSync == SyncInit => SyncInv
  BY InitTypes, TreeAssumption DEF SyncInit, SyncInv

\* SetBestChain is called for any indexed block, and left at its beginning.
LEMMA CallTypes ==
    ASSUME TypeInv, NEW b \in mapBlockIndex, CallSetBestChain(b)
    PROVE  TypeInv'
  BY DEF TypeInv, TypeOK, AboveFork, CallSetBestChain, memory

LEMMA StutterTypes == TypeInv /\ UNCHANGED vars => TypeInv'
  BY NextTypes

LEMMA SyncNextKeeps ==
    SyncInv /\ [SyncNext]_allvars
      => SyncInv' /\ (step # "hardened" => dbSyncCheckpoint \in Ancestors[dbSyncCheckpoint'])
<1> SUFFICES ASSUME SyncInv, [SyncNext]_allvars
             PROVE  /\ SyncInv'
                    /\ step # "hardened" => dbSyncCheckpoint \in Ancestors[dbSyncCheckpoint']
  OBVIOUS
<1> DEFINE Descends == step # "hardened" => dbSyncCheckpoint \in Ancestors[dbSyncCheckpoint']
           Goal == SyncInv' /\ Descends
<1>0. /\ TypeInv /\ mapBlockIndex \subseteq Block
      /\ hashSyncCheckpoint \in Block /\ dbSyncCheckpoint = hashSyncCheckpoint
      /\ hashSyncCheckpoint \in Ancestors[hashSyncCheckpoint]
  BY SelfAncestor DEF SyncInv, TypeInv, TypeOK
<1>1. ASSUME NEW b \in Block, AcceptBlock(b) PROVE Goal
  <2>1. TypeInv'
    BY <1>0, <1>1, NextTypes DEF AcceptBlock, FaultyNext, CrashNext, SteadyNext
  <2> QED  BY <1>0, <1>1, <2>1 DEF AcceptBlock, SyncInv, checkpoint, pending
<1>2. CASE AcceptPendingSyncCheckpoint
  <2>1. TypeInv'
    BY <1>0, <1>2, CallTypes, StutterTypes DEF AcceptPendingSyncCheckpoint
  <2>2. step' = "pending" =>
           /\ hashPendingCheckpoint' = hashPendingCheckpoint
           /\ hashPendingCheckpoint \in Block
           /\ ValidateSyncCheckpoint(hashPendingCheckpoint)
    BY <1>0, <1>2 DEF AcceptPendingSyncCheckpoint, pending
  <2>3. step' \in {"idle", "pending"} /\ UNCHANGED checkpoint
    BY <1>2 DEF AcceptPendingSyncCheckpoint
  <2> QED  BY <1>0, <2>1, <2>2, <2>3, ValidatedDescends DEF SyncInv, checkpoint
<1>3. CASE AdoptPending
  <2>1. TypeInv'
    BY <1>0, <1>3, StutterTypes DEF AdoptPending
  <2> QED  BY <1>0, <1>3, <2>1 DEF AdoptPending, WriteSyncCheckpoint, SyncInv
<1>4. ASSUME NEW h \in Signed, ProcessSyncCheckpoint(h) PROVE Goal
  <2>1. TypeInv'
    BY <1>0, <1>4, CallTypes, StutterTypes DEF ProcessSyncCheckpoint
  <2>2. step' = "received" =>
           hashCheckpoint' = h /\ h \in Block /\ ValidateSyncCheckpoint(h)
    BY <1>0, <1>4 DEF ProcessSyncCheckpoint
  <2>3. step' \in {"idle", "received"} /\ UNCHANGED checkpoint
    BY <1>4 DEF ProcessSyncCheckpoint
  <2> QED  BY <1>0, <2>1, <2>2, <2>3, ValidatedDescends DEF SyncInv, checkpoint
<1>5. CASE AdoptReceived
  <2>1. TypeInv'
    BY <1>0, <1>5, StutterTypes DEF AdoptReceived
  <2> QED  BY <1>0, <1>5, <2>1 DEF AdoptReceived, WriteSyncCheckpoint, SyncInv
<1>6. CASE AdoptionFails
  <2>1. TypeInv'
    BY <1>0, <1>6, TreeAssumption
       DEF AdoptionFails, Return, TypeInv, TypeOK, AboveFork, memory
  <2> QED  BY <1>0, <1>6, <2>1 DEF AdoptionFails, SyncInv, checkpoint
<1>7. CASE ConnectingStep
  <2>1. TypeInv'
    BY <1>0, <1>7, NextTypes DEF ConnectingStep, FaultyNext, CrashNext, SteadyNext
  <2>2. /\ UNCHANGED <<checkpoint, pending>>
        /\ \/ step' \in {"idle", "down"}
           \/ UNCHANGED <<step, hashCheckpoint>>
    BY <1>7 DEF ConnectingStep
  <2> QED  BY <1>0, <2>1, <2>2 DEF SyncInv, checkpoint, pending
<1>8. CASE ResetSyncCheckpoint
  <2>1. TypeInv'
    BY <1>0, <1>8, CallTypes, StutterTypes DEF ResetSyncCheckpoint
  <2> QED  BY <1>0, <1>8, <2>1 DEF ResetSyncCheckpoint, SyncInv, checkpoint
<1>9. CASE ResetToHardened
  <2>1. TypeInv'
    BY <1>0, <1>9, StutterTypes DEF ResetToHardened
  <2> QED  BY <1>0, <1>9, <2>1 DEF ResetToHardened, WriteSyncCheckpoint, SyncInv
<1>10. CASE LoadBlockIndex
  <2>1. TypeInv'
    BY <1>0, <1>10, NextTypes DEF LoadBlockIndex, FaultyNext, CrashNext
  <2> QED  BY <1>0, <1>10, <2>1 DEF LoadBlockIndex, SyncInv
<1>11. CASE UNCHANGED allvars
  <2>1. TypeInv'
    BY <1>0, <1>11, StutterTypes DEF allvars
  <2> QED  BY <1>0, <1>11, <2>1 DEF allvars, syncvars, checkpoint, pending, SyncInv
<1> QED
  BY <1>1, <1>2, <1>3, <1>4, <1>5, <1>6, <1>7, <1>8, <1>9, <1>10, <1>11
     DEF SyncNext, SyncHandlers

\* The recorded checkpoint never leaves its branch, but for a reset under
\* another master key, whatever messages, blocks and restarts come
\* (ValidateSyncCheckpoint, and SetBestChain between it and WriteSyncCheckpoint).
THEOREM CheckpointDescends == SyncSpec => CheckpointsDescend
<1>1. SyncInit => SyncInv
  BY InitSync
<1>2. SyncInv /\ [SyncNext]_allvars => SyncInv'
  BY SyncNextKeeps
<1>3. SyncInv /\ [SyncNext]_allvars
        => [step # "hardened" => dbSyncCheckpoint \in Ancestors[dbSyncCheckpoint']]_allvars
  BY SyncNextKeeps
<1> QED  BY <1>1, <1>2, <1>3, PTL DEF SyncSpec, CheckpointsDescend

-----------------------------------------------------------------------------
(***************************************************************************)
(* Where an adopted checkpoint is.  IsInMainChain asks pnext, so the       *)
(* answer is right only while pnext links the committed chain, restarts    *)
(* included; otherwise SetBestChain is called, and the checkpoint adopted  *)
(* only when it has returned with the block it was called for.             *)
(***************************************************************************)
AdoptedInv ==
    /\ ValidInv
    /\ step = "pending" =>
          /\ call = "idle" => hashPendingCheckpoint \in Ancestors[txdb.best]
          /\ call # "idle" => hashPendingCheckpoint = pindexNew
    /\ step = "received" =>
          /\ call = "idle" => hashCheckpoint \in Ancestors[txdb.best]
          /\ call # "idle" => hashCheckpoint = pindexNew

LEMMA MainChainIsCommitted ==
    ASSUME ValidInv, call = "idle", NEW h \in mapBlockIndex, IsInMainChain(h)
    PROVE  h \in Ancestors[txdb.best]
<1>1. /\ h \in Block /\ txdb.best \in Block /\ txdb.best = pindexBest
      /\ LinksTo(pnext, txdb.best)
  BY DEF ValidInv, ConnectedInv, TypeInv, TypeOK, DiskLinksInv
<1>2. txdb.best \in Ancestors[txdb.best]
  BY <1>1, SelfAncestor
<1> QED  BY <1>1, <1>2 DEF IsInMainChain, LinksTo

LEMMA CallKeepsValid ==
    ASSUME ValidInv, call = "idle", NEW b \in mapBlockIndex, CallSetBestChain(b)
    PROVE  ValidInv' /\ call' = "begin" /\ pindexNew' = b
<1>1. TypeInv'
  BY CallTypes DEF ValidInv, ConnectedInv
<1>2. /\ call' = "begin" /\ pindexNew' = b
      /\ UNCHANGED <<mapBlockIndex, pnext, pindexBest, blkdb, txdb, txn, cursor, rule>>
  BY DEF CallSetBestChain, memory
<1> QED  BY <1>1, <1>2 DEF ValidInv, ConnectedInv, Stored, FinishedInv, DiskLinksInv, DiskTop, LinksTo

LEMMA FailureKeepsValid ==
    ASSUME ValidInv, AdoptionFails
    PROVE  ValidInv'
<1>1. /\ call \in {"idle", "begin"} /\ call' = "idle" /\ txn' = txdb
      /\ pindexNew' = Genesis /\ cursor' = Genesis
      /\ UNCHANGED <<mapBlockIndex, pnext, pindexBest, bnBestInvalidTrust, blkdb, txdb, rule>>
  BY DEF AdoptionFails, Return, memory
<1>2. TypeInv'
  BY <1>1, TreeAssumption DEF ValidInv, ConnectedInv, TypeInv, TypeOK, AboveFork
<1> QED  BY <1>1, <1>2 DEF ValidInv, ConnectedInv, Stored, FinishedInv, DiskLinksInv, DiskTop, LinksTo

\* SetBestChain goes on, returns with its argument or returns without it.
LEMMA ConnectingReturns ==
    ASSUME TypeOK, Connecting
    PROVE  call # "idle" /\ (call' # "idle" => pindexNew' = pindexNew)
  BY DEF Connecting, SetBestChain, DisconnectBlock, DisconnectedAll, ReconnectBlock,
         ReorganizeFails, ReorganizeCommits, SetBestChainInner, SetBestChainInnerCommits,
         AppendFails, SecondaryFails, NewBestBlock, Return

LEMMA InitAdopted == SyncInit => AdoptedInv
  BY InitValid DEF SyncInit, AdoptedInv

LEMMA SyncNextAdopts ==
    ASSUME AllChainsAreValid, AdoptedInv, [SyncNext]_allvars
    PROVE  /\ AdoptedInv'
           /\ dbSyncCheckpoint' # dbSyncCheckpoint => dbSyncCheckpoint' \in Ancestors[txdb.best]
<1> DEFINE Adopted == dbSyncCheckpoint' # dbSyncCheckpoint
                         => dbSyncCheckpoint' \in Ancestors[txdb.best]
           Goal == AdoptedInv' /\ Adopted
<1>0. /\ ValidInv /\ TypeOK
      /\ call = "idle" => txdb.best = pindexBest
  BY DEF AdoptedInv, ValidInv, ConnectedInv, TypeInv
<1>s. UNCHANGED vars => ValidInv' /\ UNCHANGED <<call, pindexNew, txdb>>
  <2>1. UNCHANGED vars => [RestartNext]_vars
    OBVIOUS
  <2> QED  BY <1>0, <2>1, NextValid DEF vars
<1>1. ASSUME NEW b \in Block, AcceptBlock(b) PROVE Goal
  <2>1. ValidInv'
    BY <1>0, <1>1, NextValid DEF AcceptBlock, RestartNext, SteadyNext
  <2> QED  BY <1>1, <2>1 DEF AcceptBlock, AdoptedInv, checkpoint
<1>2. CASE AcceptPendingSyncCheckpoint
  <2>1. /\ call = "idle" /\ step' \in {"idle", "pending"} /\ UNCHANGED checkpoint
        /\ step' = "pending" =>
              /\ hashPendingCheckpoint' = hashPendingCheckpoint
              /\ hashPendingCheckpoint \in mapBlockIndex
              /\ IF IsInMainChain(hashPendingCheckpoint) THEN UNCHANGED vars
                 ELSE CallSetBestChain(hashPendingCheckpoint)
        /\ step' = "idle" => UNCHANGED vars
    BY <1>2 DEF AcceptPendingSyncCheckpoint, pending
  <2>2. CASE step' = "idle"
    BY <1>s, <2>1, <2>2 DEF AdoptedInv, checkpoint
  <2>3. CASE step' = "pending" /\ IsInMainChain(hashPendingCheckpoint)
    BY <1>0, <1>s, <2>1, <2>3, MainChainIsCommitted DEF AdoptedInv, checkpoint
  <2>4. CASE step' = "pending" /\ ~IsInMainChain(hashPendingCheckpoint)
    BY <1>0, <2>1, <2>4, CallKeepsValid DEF AdoptedInv, checkpoint
  <2> QED  BY <2>1, <2>2, <2>3, <2>4
<1>3. CASE AdoptPending
  <2>1. /\ step = "pending" /\ call = "idle" /\ step' = "idle" /\ UNCHANGED vars
        /\ dbSyncCheckpoint' = hashPendingCheckpoint
    BY <1>3 DEF AdoptPending, WriteSyncCheckpoint
  <2> QED  BY <1>s, <2>1 DEF AdoptedInv
<1>4. ASSUME NEW h \in Signed, ProcessSyncCheckpoint(h) PROVE Goal
  <2>1. /\ step = "idle" /\ call = "idle" /\ step' \in {"idle", "received"}
        /\ UNCHANGED checkpoint
        /\ step' = "received" =>
              /\ hashCheckpoint' = h /\ h \in mapBlockIndex
              /\ IF IsInMainChain(h) THEN UNCHANGED vars ELSE CallSetBestChain(h)
        /\ step' = "idle" => UNCHANGED vars
    BY <1>4 DEF ProcessSyncCheckpoint
  <2>2. CASE step' = "idle"
    BY <1>s, <2>1, <2>2 DEF AdoptedInv, checkpoint
  <2>3. CASE step' = "received" /\ IsInMainChain(h)
    BY <1>0, <1>s, <2>1, <2>3, MainChainIsCommitted DEF AdoptedInv, checkpoint
  <2>4. CASE step' = "received" /\ ~IsInMainChain(h)
    BY <1>0, <2>1, <2>4, CallKeepsValid DEF AdoptedInv, checkpoint
  <2> QED  BY <2>1, <2>2, <2>3, <2>4
<1>5. CASE AdoptReceived
  <2>1. /\ step = "received" /\ call = "idle" /\ step' = "idle" /\ UNCHANGED vars
        /\ dbSyncCheckpoint' = hashCheckpoint
    BY <1>5 DEF AdoptReceived, WriteSyncCheckpoint
  <2> QED  BY <1>s, <2>1 DEF AdoptedInv
<1>6. CASE AdoptionFails
  <2>1. step' = "idle" /\ UNCHANGED checkpoint
    BY <1>6 DEF AdoptionFails
  <2> QED  BY <1>0, <1>6, <2>1, FailureKeepsValid DEF AdoptedInv, checkpoint
<1>7. CASE ConnectingStep
  <2>1. ValidInv'
    BY <1>0, <1>7, NextValid DEF ConnectingStep, RestartNext, SteadyNext
  <2>2. call # "idle" /\ (call' # "idle" => pindexNew' = pindexNew)
    BY <1>0, <1>7, ConnectingReturns DEF ConnectingStep
  <2>3. /\ UNCHANGED <<checkpoint, pending>>
        /\ IF call' = "idle" /\ pindexBest' # pindexNew
           THEN step' \in {"idle", "down"}
           ELSE UNCHANGED <<step, hashCheckpoint>>
    BY <1>7 DEF ConnectingStep
  <2>4. call' = "idle" => txdb'.best = pindexBest' /\ pindexBest' \in Ancestors[pindexBest']
    <3>1. call' = "idle" => txdb'.best = pindexBest'
      BY <2>1 DEF ValidInv, ConnectedInv
    <3>2. pindexBest' \in Block
      BY <2>1 DEF ValidInv, ConnectedInv, TypeInv, TypeOK
    <3> QED  BY <3>1, <3>2, SelfAncestor
  <2> QED  BY <2>1, <2>2, <2>3, <2>4 DEF AdoptedInv, checkpoint, pending
<1>8. CASE ResetSyncCheckpoint
  <2>1. /\ call = "idle" /\ step' = "hardened" /\ UNCHANGED checkpoint
        /\ UNCHANGED vars \/ (LastHardened \in mapBlockIndex /\ CallSetBestChain(LastHardened))
    BY <1>8 DEF ResetSyncCheckpoint
  <2> QED  BY <1>0, <1>s, <2>1, CallKeepsValid DEF AdoptedInv, checkpoint
<1>9. CASE ResetToHardened
  <2>1. PICK h \in Hardened : h \in mapBlockIndex /\ IsInMainChain(h) /\ WriteSyncCheckpoint(h)
    BY <1>9 DEF ResetToHardened
  <2>2. call = "idle" /\ step' = "idle" /\ UNCHANGED vars
    BY <1>9 DEF ResetToHardened
  <2> QED  BY <1>0, <1>s, <2>1, <2>2, MainChainIsCommitted DEF AdoptedInv, WriteSyncCheckpoint
<1>10. CASE call = "idle" /\ LoadBlockIndex
  <2>1. ValidInv'
    BY <1>0, <1>10, NextValid DEF LoadBlockIndex, RestartNext
  <2> QED  BY <1>10, <2>1 DEF LoadBlockIndex, AdoptedInv
<1>11. CASE UNCHANGED allvars
  <2>1. UNCHANGED vars /\ UNCHANGED <<checkpoint, pending, step, hashCheckpoint>>
    BY <1>11 DEF allvars, syncvars
  <2> QED  BY <1>s, <2>1 DEF AdoptedInv, checkpoint, pending
<1> QED
  BY <1>1, <1>2, <1>3, <1>4, <1>5, <1>6, <1>7, <1>8, <1>9, <1>10, <1>11
     DEF SyncNext, SyncHandlers

\* Whatever messages, blocks, failures and restarts between handlers come, a
\* block is recorded as the checkpoint only when the committed best chain
\* contains it (ProcessSyncCheckpoint, AcceptPendingSyncCheckpoint and
\* ResetSyncCheckpoint, each of which calls SetBestChain first unless
\* IsInMainChain), on a tree of valid blocks.
THEOREM AdoptedIsCommitted ==
    ASSUME AllChainsAreValid
    PROVE  SyncSpec => AdoptedIsInBestChain
<1>1. AdoptedInv /\ [SyncNext]_allvars => AdoptedInv'
  BY SyncNextAdopts
<1>2. AdoptedInv /\ [SyncNext]_allvars
        => [dbSyncCheckpoint' # dbSyncCheckpoint
              => dbSyncCheckpoint' \in Ancestors[txdb.best]]_allvars
  BY SyncNextAdopts
<1> QED  BY <1>1, <1>2, InitAdopted, PTL DEF SyncSpec, AdoptedIsInBestChain
=============================================================================
