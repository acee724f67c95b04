------------------------------- MODULE Miner -------------------------------
(***************************************************************************)
(* The making of blocks (BitcoinMiner, CreateNewBlock and CheckWork in     *)
(* src/main.cpp, getwork in src/rpcmining.cpp), composed with the memory   *)
(* pool and the chain state.                                               *)
(*                                                                         *)
(* The miner is a thread: it reads pindexBest without a lock, and again    *)
(* under cs_main when it makes the block.  getwork runs under cs_main and  *)
(* keeps the blocks it has given out.  A block is one of the tree; nonces  *)
(* and times are left out, and the stakes a wallet may find.               *)
(***************************************************************************)
EXTENDS Mempool

VARIABLES
    miner,       \* BitcoinMiner: where it is, its pindexPrev and its pblock
    mapNewBlock  \* the blocks that getwork has given out

minerVars == <<mempoolVars, miner, mapNewBlock>>

Idle == [at |-> "idle", pindexPrev |-> NoBlock, pblock |-> NoBlock]

InitMiner ==
    /\ InitMempool
    /\ miner = Idle
    /\ mapNewBlock = {}

-----------------------------------------------------------------------------
\* Mutant: what the pool has accepted is taken to connect still.
Connects_InPool(t, before) ==
    \A o \in Ins[t] : Creator[o] \in before \/ ContainsTx(txdb.index, Creator[o])

\* FetchInputs and ConnectInputs for the miner: t spends outputs of what has
\* been collected before it, or outputs in the index that nothing has spent.
Connects(t, before) ==
    \A o \in Ins[t] :
       /\ \/ Creator[o] \in before
          \/ /\ Unspent(txdb.index, o)
             /\ ~Immature(pindexBest, txdb.index.pos[Creator[o]], Creator[o])
       /\ \A k \in before : o \notin Ins[k]

\* What CreateNewBlock may collect: by priority as far as the dependencies
\* allow, so in almost any order, and any may be too large, cheap or new.
Collectable(b) ==
    \A i \in DOMAIN Vtx[b] : Vtx[b][i] \notin Generated =>
       /\ Vtx[b][i] \in mempool.mapTx
       /\ Connects(Vtx[b][i], EarlierTxs(b, i) \ Generated)

\* CreateNewBlock makes b, above the best block, under cs_main.
CreateNewBlock(b) ==
    /\ MainFree
    /\ b # Genesis /\ Parent[b] = pindexBest
    /\ RewardAllowed(b, rule)
    /\ \A t \in BlockTxs(b) \cap Generated : Ins[t] = {}
    /\ Collectable(b)

-----------------------------------------------------------------------------
(***************************************************************************)
(* BitcoinMiner, a turn of its loop.                                       *)
(***************************************************************************)
ReadPrev ==
    /\ miner.at = "idle"
    /\ miner' = [miner EXCEPT !.at = "create", !.pindexPrev = pindexBest]
    /\ UNCHANGED <<mempoolVars, mapNewBlock>>

MakeBlock(b) ==
    /\ miner.at = "create"
    /\ CreateNewBlock(b)
    /\ miner' = [miner EXCEPT !.at = "number", !.pblock = b]
    /\ UNCHANGED <<mempoolVars, mapNewBlock>>

\* Mutant: the height is the one above the best block of now.
IncrementExtraNonce_ReadsBest ==
    /\ miner.at = "number"
    /\ miner' = [miner EXCEPT !.at = "search", !.pindexPrev = pindexBest]
    /\ UNCHANGED <<mempoolVars, mapNewBlock>>

\* The coinbase gets the height above pindexPrev.
IncrementExtraNonce ==
    /\ miner.at = "number"
    /\ miner' = [miner EXCEPT !.at = "search"]
    /\ UNCHANGED <<mempoolVars, mapNewBlock>>

\* CheckWork hands a block that is not stale to ProcessBlock.
CheckWork(b) == Parent[b] = pindexBest /\ ReceiveBlock(b)

\* A solution is found and AcceptBlock finds the height it expects.
FindBlock ==
    /\ miner.at = "search"
    /\ Height[miner.pindexPrev] + 1 = Height[miner.pblock]
    /\ CheckWork(miner.pblock)
    /\ miner' = Idle
    /\ UNCHANGED mapNewBlock

\* The search ends without: no nonce, no peer or no time is left, the chain
\* has moved, or the solution is refused, as stale or for a height or target
\* that is not that of its parent.
StopSearch ==
    /\ miner.at = "search"
    /\ miner' = Idle
    /\ UNCHANGED <<mempoolVars, mapNewBlock>>

-----------------------------------------------------------------------------
\* getwork without data, the first time above this block or again after a
\* minute; those given out above another one are deleted.
GetWork(b) ==
    /\ CreateNewBlock(b)
    /\ mapNewBlock' = {k \in mapNewBlock : Parent[k] = pindexBest} \cup {b}
    /\ UNCHANGED <<mempoolVars, miner>>

\* getwork with the data of one that has been solved.
SubmitWork(b) ==
    /\ b \in mapNewBlock
    /\ CheckWork(b)
    /\ UNCHANGED <<miner, mapNewBlock>>

\* The process ends, which it also may when CreateNewBlock uses a COrphan that
\* it has taken out of vOrphan.
MinerRestart ==
    /\ Restart
    /\ miner' = Idle
    /\ mapNewBlock' = {}

Mining ==
    \/ ReadPrev \/ IncrementExtraNonce \/ FindBlock \/ StopSearch
    \/ \E b \in Block : MakeBlock(b) \/ GetWork(b) \/ SubmitWork(b)

MinerNext ==
    \/ MempoolNext /\ UNCHANGED <<miner, mapNewBlock>>
    \/ Mining
    \/ MinerRestart

MinerSpec == InitMiner /\ [][MinerNext]_minerVars

-----------------------------------------------------------------------------
\* A block that is being worked on connects for as long as its parent is the
\* best block, whatever has entered or left the pool since it was made, so a
\* solution is never refused for its transactions.  The pool alone does not
\* promise it: after a reorganization it may hold what no longer connects.
WorkConnects ==
    \A b \in (mapNewBlock \cup {miner.pblock}) \ {NoBlock} :
       MainFree /\ Parent[b] = pindexBest => ConnectBlockOk(txdb.index, b)

\* The loop of the miner ends when pindexPrev is not the best block, but the
\* block that it works on was made above a pindexBest read later.  When that
\* one is no longer the best block the loop ends all the same: nobody searches
\* for a stale block until the nonces are used up.
StaleWorkStops ==
    miner.at = "search" /\ Parent[miner.pblock] # pindexBest => miner.pindexPrev # pindexBest

=============================================================================
