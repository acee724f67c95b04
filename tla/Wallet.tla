------------------------------- MODULE Wallet -------------------------------
(***************************************************************************)
(* The wallet's transactions and spent flags (src/wallet.cpp) over the     *)
(* chain state.                                                            *)
(*                                                                         *)
(* ConnectBlock and DisconnectBlock end by calling SyncWithWallets for     *)
(* every transaction of the block, inside the transaction that SetBestChain *)
(* has open on txindex.dat; what the wallet makes of it is written to      *)
(* wallet.dat at once.  An aborted reorganization or a crash takes back    *)
(* what txindex.dat saw, not what the wallet recorded.  The node repairs   *)
(* this in two places: ReacceptWalletTransactions, at every start, and the *)
(* repairwallet command (FixSpentCoins).                                   *)
(*                                                                         *)
(* queue holds the writes of the SyncWithWallets loop, or of a transaction *)
(* received or sent, still to be made; the caller holds cs_main until they *)
(* are.  Reads of txindex.dat by other threads wait for the pages that     *)
(* SetBestChain's transaction has written (txn = txdb: there are none).    *)
(***************************************************************************)
EXTENDS ChainState

CONSTANTS
    Mine,            \* the outputs that pay the wallet's keys
    FirstOut,        \* vout[0] of a coinbase, vout[1] of a coinstake
    WalletMaturity,  \* nCoinbaseMaturity + 20
    MaxCrashes       \* bound on the crashes followed

ASSUME WalletAssumption ==
    /\ Mine \subseteq Outpoint
    /\ FirstOut \subseteq Outpoint
    /\ WalletMaturity \in Nat /\ WalletMaturity >= Maturity
    /\ MaxCrashes \in Nat

VARIABLES
    mapWallet,     \* in memory and in wallet.dat, always equal
    vfSpent,       \* the outputs flagged spent in them
    hashBlock,     \* CMerkleTx::hashBlock, the block each was seen in
    queue,         \* the wallet updates that the running handler still makes
    reaccepted,    \* ReacceptWalletTransactions has run since the start
    history,       \* the last to disturb the wallet: a crash, a refused
                   \* reorganization, the repair command
    crashes

walletvars == <<mapWallet, vfSpent, hashBlock>>
allvars == <<vars, walletvars, queue, reaccepted, history, crashes>>

\* IsMine(tx) and IsFromMe(tx)
IsMine(t) == \E o \in Mine : Creator[o] = t
IsFromMe(t) == \E o \in Ins[t] \cap Mine : Creator[o] \in mapWallet

\* The coins of wallet transactions that are the wallet's.
Coins(txs) == {o \in Mine : Creator[o] \in txs}

\* SyncWithWallets for the transactions of block b.
ConnectCalls(b) ==
    [k \in 1..2 * Len(Vtx[b]) |->
       [tx |-> Vtx[b][(k + 1) \div 2], block |-> b,
        do |-> IF k % 2 = 1 THEN "add" ELSE "spend"]]

DisconnectCalls(b) == [k \in DOMAIN Vtx[b] |-> [tx |-> Vtx[b][k], block |-> b, do |-> "disable"]]

\* ... and for a transaction that is in no block.
TxCalls(t) == <<[tx |-> t, block |-> NoBlock, do |-> "add"],
                [tx |-> t, block |-> NoBlock, do |-> "spend"]>>

\* GetDepthInMainChain and GetBlocksToMaturity
InMainChain(b) == b \in mapBlockIndex /\ (pnext[b] # NoBlock \/ b = pindexBest)

GetDepthInMainChain(t) ==
    IF hashBlock[t] # NoBlock /\ InMainChain(hashBlock[t])
    THEN Height[pindexBest] - Height[hashBlock[t]] + 1 ELSE 0

\* AvailableCoins, those in a block of the best chain.
AvailableCoins ==
    {o \in Coins(mapWallet) \ vfSpent :
       LET wtx == Creator[o] IN
          /\ GetDepthInMainChain(wtx) >= 1
          /\ wtx \in Generated => GetDepthInMainChain(wtx) >= WalletMaturity}

-----------------------------------------------------------------------------
\* A new wallet, beside a new block chain.
WalletInit ==
    /\ Init
    /\ mapWallet = {}
    /\ vfSpent = {}
    /\ hashBlock = [t \in Tx |-> NoBlock]
    /\ queue = << >>
    /\ reaccepted = TRUE
    /\ history = "undisturbed"
    /\ crashes = 0

\* Mutant: an existing transaction is not updated with its block.
AddToWallet_NoMerge(t, b) ==
    IF t \in mapWallet \/ IsMine(t) \/ IsFromMe(t)
    THEN /\ mapWallet' = mapWallet \cup {t}
         /\ hashBlock' = IF t \in mapWallet THEN hashBlock ELSE [hashBlock EXCEPT ![t] = b]
    ELSE UNCHANGED <<mapWallet, hashBlock>>

\* Mutant: only transactions that pay the wallet are added.
AddToWallet_PaidOnly(t, b) ==
    IF t \in mapWallet \/ IsMine(t)
    THEN /\ mapWallet' = mapWallet \cup {t}
         /\ hashBlock' = [hashBlock EXCEPT ![t] = IF b = NoBlock THEN @ ELSE b]
    ELSE UNCHANGED <<mapWallet, hashBlock>>

\* AddToWalletIfInvolvingMe: inserted with its block, or merged.
AddToWallet(t, b) ==
    IF t \in mapWallet \/ IsMine(t) \/ IsFromMe(t)
    THEN /\ mapWallet' = mapWallet \cup {t}
         /\ hashBlock' = [hashBlock EXCEPT ![t] = IF b = NoBlock THEN @ ELSE b]
    ELSE UNCHANGED <<mapWallet, hashBlock>>

WalletUpdateSpent(t) == vfSpent' = vfSpent \cup (Ins[t] \cap Coins(mapWallet))

\* Mutant: whatever transaction is disconnected has its inputs refunded.
DisableTransaction_AnyTx(t) ==
    vfSpent' = IF IsFromMe(t) THEN vfSpent \ Ins[t] ELSE vfSpent

\* DisableTransaction: "only disconnecting coinstake requires marking input
\* unspent".
DisableTransaction(t) ==
    vfSpent' = IF t \in Generated /\ IsFromMe(t) THEN vfSpent \ Ins[t] ELSE vfSpent

\* The next wallet update of the running handler.
SyncWithWallets ==
    /\ queue # << >>
    /\ queue' = Tail(queue)
    /\ LET c == Head(queue) IN
          CASE c.do = "add" -> AddToWallet(c.tx, c.block) /\ UNCHANGED vfSpent
            [] c.do = "spend" -> WalletUpdateSpent(c.tx) /\ UNCHANGED <<mapWallet, hashBlock>>
            [] c.do = "disable" -> DisableTransaction(c.tx) /\ UNCHANGED <<mapWallet, hashBlock>>
    /\ UNCHANGED <<vars, reaccepted, history, crashes>>

\* A step of AcceptBlock and SetBestChain, and the wallet updates it calls for.
ChainStep ==
    /\ queue = << >>
    /\ \/ \E b \in Block : AddToBlockIndex(b) /\ UNCHANGED queue
       \/ /\ \/ SetBestChain \/ DisconnectedAll \/ ReorganizeCommits
             \/ SetBestChainInnerCommits \/ AppendFails \/ NewBestBlock
             \/ \E b \in Block : SecondaryFails(b)
          /\ UNCHANGED queue
       \/ DisconnectBlock /\ queue' = DisconnectCalls(cursor)
       \/ \E b \in Block : /\ ReconnectBlock(b) \/ SetBestChainInner(b)
                           /\ queue' = ConnectCalls(b)
       \/ ReorganizeFails /\ UNCHANGED queue
    /\ history' = IF call \in {"disconnect", "reconnect"} /\ call' = "idle"
                  THEN "refused" ELSE history
    /\ UNCHANGED <<walletvars, reaccepted, crashes>>

\* A "tx" message, or sendrawtransaction: the pool takes the transaction, the
\* wallets are told.  What else the pool holds is not followed here.
ReceiveTx(t) ==
    /\ call = "idle" /\ queue = << >>
    /\ t \notin Generated /\ t \notin mapWallet
    /\ Ins[t] # {}
    /\ \A o \in Ins[t] : Unspent(txdb.index, o)
    /\ ~ContainsTx(txdb.index, t)
    /\ queue' = TxCalls(t)
    /\ UNCHANGED <<vars, walletvars, reaccepted, history, crashes>>

\* CreateTransaction chooses coins, CommitTransaction records the transaction
\* and marks them spent, whether or not the pool then takes it.
CommitTransaction(t) ==
    /\ call = "idle" /\ queue = << >>
    /\ t \notin Generated /\ t \notin mapWallet
    /\ Ins[t] # {} /\ Ins[t] \subseteq AvailableCoins
    /\ queue' = TxCalls(t)
    /\ UNCHANGED <<vars, walletvars, reaccepted, history, crashes>>

\* FixSpentCoins: every coin of an indexed transaction gets the flag that
\* the transaction index gives it.
FixSpentCoins ==
    /\ queue = << >> /\ txn = txdb
    /\ LET known == {o \in Coins(mapWallet) : ContainsTx(txdb.index, Creator[o])} IN
          vfSpent' = (vfSpent \ known) \cup {o \in known : txdb.index.spent[o] # NoTx}
    /\ history' = "repaired"
    /\ UNCHANGED <<vars, mapWallet, hashBlock, queue, reaccepted, crashes>>

\* The process dies; the wallet is loaded as it was written.
Crash ==
    /\ crashes < MaxCrashes
    /\ CrashAndLoadBlockIndex
    /\ queue' = << >>
    /\ reaccepted' = FALSE
    /\ history' = "crashed"
    /\ crashes' = crashes + 1
    /\ UNCHANGED walletvars

-----------------------------------------------------------------------------
\* The transactions that ScanForWalletTransactions meets from the genesis
\* block on, by pnext.
ScannedTxs == UNION {BlockTxs(b) : b \in {c \in mapBlockIndex : c = Genesis \/
                        \A a \in Ancestors[c] \ {Genesis} : pnext[Parent[a]] = a}}

\* Mutant: the spent flags are not compared with the index.
Reaccept_KeepsFlags ==
    /\ ~reaccepted
    /\ queue = << >> /\ txn = txdb
    /\ reaccepted' = TRUE
    /\ UNCHANGED <<vars, walletvars, queue, history, crashes>>

(***************************************************************************)
(* ReacceptWalletTransactions: the coins that the index has spent are      *)
(* marked, but for a generated transaction whose first output is spent; if *)
(* there were any, the chain is scanned for what spends them, and all is   *)
(* done again when that adds a transaction.  The network thread is running *)
(* by then.                                                                *)
(***************************************************************************)
Reaccept ==
    /\ ~reaccepted
    /\ queue = << >> /\ txn = txdb
    /\ LET found == {o \in Coins(mapWallet) \ vfSpent :
                       /\ ContainsTx(txdb.index, Creator[o])
                       /\ txdb.index.spent[o] # NoTx
                       /\ Creator[o] \in Generated =>
                             \A p \in FirstOut \cap vfSpent : Creator[p] # Creator[o]}
           new == {t \in ScannedTxs \ mapWallet : IsMine(t) \/ IsFromMe(t)}
           all == mapWallet \cup new
       IN IF found = {}
          THEN reaccepted' = TRUE /\ UNCHANGED walletvars
          ELSE /\ mapWallet' = all
               /\ vfSpent' = vfSpent \cup found \cup
                     {o \in Coins(all) : \E t \in ScannedTxs \ mapWallet : o \in Ins[t]}
               /\ hashBlock' = [t \in Tx |->
                     IF t \in new
                     THEN CHOOSE b \in mapBlockIndex : t \in BlockTxs(b) /\
                             \A a \in Ancestors[b] \ {Genesis} : pnext[Parent[a]] = a
                     ELSE hashBlock[t]]
               /\ reaccepted' = (new = {})
    /\ UNCHANGED <<vars, queue, history, crashes>>

-----------------------------------------------------------------------------
WalletSteps ==
    \/ SyncWithWallets
    \/ ChainStep
    \/ \E t \in Tx : ReceiveTx(t) \/ CommitTransaction(t)
    \/ FixSpentCoins
    \/ Reaccept

WalletNext == WalletSteps \/ Crash

WalletSpec == WalletInit /\ [][WalletNext]_allvars

-----------------------------------------------------------------------------
Settled == call = "idle" /\ queue = << >> /\ reaccepted

\* Whatever was disconnected, reconnected, refunded, lost in a crash or
\* repaired, once the node has caught up no coin that the best chain has spent
\* passes for unspent in the wallet (WalletUpdateSpent, Reaccept).  But a
\* reorganization that is refused leaves the wallet as its blocks made it,
\* until the next start or repair.
SpentCoinsAreMarked ==
    Settled /\ history # "refused" =>
       \A o \in Coins(mapWallet) : txdb.index.spent[o] # NoTx => o \in vfSpent

\* The outputs of the wallet that a block on the best chain could spend.
SpendableCoins ==
    {o \in Mine :
       /\ Unspent(txdb.index, o)
       /\ LET depth == Height[txdb.best] - Height[txdb.index.pos[Creator[o]]] + 1 IN
             Creator[o] \in Generated => depth >= WalletMaturity}

\* SelectCoins is offered only coins that the best chain has unspent, mature
\* at the depth the wallet gives them, and is refused only coins spent by a
\* transaction of the wallet, whatever branches they came and went with.
WalletOffersItsCoins ==
    Settled /\ history = "undisturbed" =>
       /\ AvailableCoins \subseteq SpendableCoins
       /\ \A o \in SpendableCoins \ AvailableCoins :
             \E t \in mapWallet \ Generated : o \in Ins[t]

\* Every transaction of the best chain that pays the wallet or spends its
\* coins is in the wallet, whichever branch or crash it came through.
WalletKnowsChain ==
    Settled => \A t \in ChainTxs(txdb.best) : IsMine(t) \/ IsFromMe(t) => t \in mapWallet

\* A coin staked on a branch that was left is spendable again, but no
\* reorganization frees a coin that the wallet has spent in a transaction of
\* its own and that no coinstake spends (DisableTransaction).  A crash or a
\* refused reorganization may leave a coin of the branch marked for good:
\* FixSpentCoins passes over what is not in the index when it runs.
OnlyStakedCoinsReturn ==
    Settled /\ history = "undisturbed" =>
       /\ \A o \in vfSpent : \E t \in mapWallet :
             o \in Ins[t] /\ (t \in Generated => t \in ChainTxs(txdb.best))
       /\ \A t \in mapWallet \ Generated : \A o \in Ins[t] \cap Coins(mapWallet) :
             (\A s \in Generated : o \notin Ins[s]) => o \in vfSpent

=============================================================================
