------------------------------- MODULE Ledger -------------------------------
(***************************************************************************)
(* The block tree and the transaction index of a LitecoinPlus node, as     *)
(* data: which transactions a block holds, what connecting a block to the  *)
(* transaction index checks and writes, and what disconnecting it undoes.  *)
(*                                                                         *)
(* The tree is given by constants: a block is the member of a small set,   *)
(* its hashPrevBlock is Parent[b], the values that AddToBlockIndex         *)
(* computes from the parent (nHeight, bnChainTrust) are Height and Trust,  *)
(* and Ancestors[b] is b with every block under it (a constant so that no  *)
(* definition has to recurse).  Scripts, signatures, amounts and times are *)
(* abstracted: a transaction is what it spends (Ins) and whether it was    *)
(* generated by a block (coinbase or coinstake, subject to maturity); what *)
(* the block claims as its reward is the pair of sets RewardBefore and     *)
(* RewardAfter, because the limit depends on the PALADIN rules known.      *)
(***************************************************************************)
EXTENDS Integers, Sequences, FiniteSets

CONSTANTS
    Block,         \* block hashes the node can ever see
    NoBlock,       \* hash 0, the null CBlockIndex pointer, a null position
    Genesis,       \* hashGenesisBlock
    Parent,        \* hashPrevBlock
    Height,        \* nHeight
    Trust,         \* bnChainTrust
    Ancestors,     \* a block and all the blocks under it
    Tx,            \* transaction hashes
    NoTx,          \* a null CDiskTxPos in vSpent
    Vtx,           \* the transactions of a block, in order
    Outpoint,      \* COutPoint
    Creator,       \* COutPoint::hash, the transaction whose output it is
    Ins,           \* the prevouts of CTransaction::vin
    Generated,     \* IsCoinBase() or IsCoinStake()
    Maturity,      \* nCoinbaseMaturity
    RewardBefore,  \* blocks whose reward the rules known at start allow
    RewardAfter    \* blocks whose reward is allowed once one more rule is known

\* The transactions of block b.
BlockTxs(b) == {Vtx[b][i] : i \in DOMAIN Vtx[b]}

\* What the transactions of block b spend.
BlockIns(b) == UNION {Ins[t] : t \in BlockTxs(b)}

(***************************************************************************)
(* Assumptions on the tree: it grows from Genesis, which spends nothing    *)
(* and whose coinbase is not indexed (SetBestChain writes hashBestChain    *)
(* for it and connects nothing), trust grows with every block              *)
(* (GetBlockTrust is at least 1 for the targets CheckBlock lets through),  *)
(* a transaction is listed once in a block (the merkle tree check) and     *)
(* spends a prevout once (CheckTransaction), and the transactions without  *)
(* inputs are coinbases, which carry their height (AcceptBlock), so that   *)
(* one is never in two blocks of a chain.                                  *)
(***************************************************************************)
ASSUME TreeAssumption ==
    /\ Genesis \in Block
    /\ NoBlock \notin Block
    /\ Parent \in [Block -> Block \cup {NoBlock}]
    /\ Height \in [Block -> Nat]
    /\ Trust \in [Block -> Nat]
    /\ Ancestors \in [Block -> SUBSET Block]
    /\ Ancestors[Genesis] = {Genesis}
    /\ Parent[Genesis] = NoBlock
    /\ \A b \in Block \ {Genesis} :
          /\ Parent[b] \in Block
          /\ Ancestors[b] = {b} \cup Ancestors[Parent[b]]
          /\ b \notin Ancestors[Parent[b]]
          /\ Height[b] = Height[Parent[b]] + 1
          /\ Trust[b] > Trust[Parent[b]]
    /\ \A b \in Block : \A a \in Ancestors[b] :
          /\ Ancestors[a] \subseteq Ancestors[b]
          /\ a # b => Height[a] < Height[b] /\ Trust[a] < Trust[b]
    /\ \A b \in Block : \A a, c \in Ancestors[b] :
          a \in Ancestors[c] \/ c \in Ancestors[a]

ASSUME TxAssumption ==
    /\ NoTx \notin Tx
    /\ Vtx \in [Block -> Seq(Tx)]
    /\ Vtx[Genesis] = << >>
    /\ \A b \in Block : \A i, j \in DOMAIN Vtx[b] : Vtx[b][i] = Vtx[b][j] => i = j
    /\ Creator \in [Outpoint -> Tx]
    /\ Ins \in [Tx -> SUBSET Outpoint]
    /\ Generated \subseteq Tx
    /\ Maturity \in Nat
    /\ RewardBefore \subseteq Block
    /\ RewardAfter \subseteq Block
    /\ \A b \in Block : \A a \in Ancestors[b] \ {b} :
          \A t \in BlockTxs(a) \cap BlockTxs(b) : Ins[t] # {}

(***************************************************************************)
(* txindex.dat as a value: where each transaction is (pos, the CDiskTxPos  *)
(* of its CTxIndex, NoBlock when it has no entry) and which transaction    *)
(* spends each output (vSpent, NoTx when null).                            *)
(***************************************************************************)
TxIndex == [pos : [Tx -> Block \cup {NoBlock}], spent : [Outpoint -> Tx \cup {NoTx}]]

EmptyIndex == [pos |-> [t \in Tx |-> NoBlock], spent |-> [o \in Outpoint |-> NoTx]]

\* CTxDB::ContainsTx
ContainsTx(ti, t) == ti.pos[t] # NoBlock

\* The output is null in the vSpent of its transaction's entry.
Unspent(ti, o) == ContainsTx(ti, Creator[o]) /\ ti.spent[o] = NoTx

\* BIP30 in ConnectBlock: a transaction may replace its own entry only when
\* every output of that entry is spent.
Overwrites(ti, t) ==
    ContainsTx(ti, t) /\ \E o \in Outpoint : Creator[o] = t /\ ti.spent[o] = NoTx

\* The maturity loop of ConnectInputs: the walk from pindexBlock meets the
\* block that holds the generated transaction before it is deep enough.
Immature(b, a, t) ==
    t \in Generated /\ a \in Ancestors[b] /\ Height[b] - Height[a] < Maturity

(***************************************************************************)
(* FetchInputs and ConnectInputs for the i-th transaction of block b: every *)
(* prevout is an output of an earlier transaction of the block (found in   *)
(* mapQueuedChanges) or of an indexed one, and nothing spent it before,    *)
(* neither in the index nor in the block.                                  *)
(***************************************************************************)
EarlierTxs(b, i) == {Vtx[b][j] : j \in {k \in DOMAIN Vtx[b] : k < i}}

\* Mutant: maturity is not checked for what the block itself generated.
ConnectInputs_InBlockMature(ti, b, i) ==
    \A o \in Ins[Vtx[b][i]] :
       /\ \/ Creator[o] \in EarlierTxs(b, i)
          \/ /\ Creator[o] \notin EarlierTxs(b, i)
             /\ Unspent(ti, o)
             /\ ~Immature(b, ti.pos[Creator[o]], Creator[o])
       /\ \A t \in EarlierTxs(b, i) : o \notin Ins[t]

ConnectInputs(ti, b, i) ==
    \A o \in Ins[Vtx[b][i]] :
       /\ \/ Creator[o] \in EarlierTxs(b, i) /\ ~Immature(b, b, Creator[o])
          \/ /\ Creator[o] \notin EarlierTxs(b, i)
             /\ Unspent(ti, o)
             /\ ~Immature(b, ti.pos[Creator[o]], Creator[o])
       /\ \A t \in EarlierTxs(b, i) : o \notin Ins[t]

\* Every transaction of block b passes BIP30 and has its inputs connected.
InputsConnect(ti, b) ==
    \A i \in DOMAIN Vtx[b] : ~Overwrites(ti, Vtx[b][i]) /\ ConnectInputs(ti, b, i)

\* The reward claimed is within GetProofOfWorkReward and
\* GetProofOfStakeReward, which read the PALADIN rules known.
RewardAllowed(b, rule) == IF rule THEN b \in RewardAfter ELSE b \in RewardBefore

\* The index after the queued changes of ConnectBlock are written.
Connected(ti, b) ==
    [pos   |-> [t \in Tx |-> IF t \in BlockTxs(b) THEN b ELSE ti.pos[t]],
     spent |-> [o \in Outpoint |->
                  IF o \in BlockIns(b)
                  THEN CHOOSE t \in BlockTxs(b) : o \in Ins[t]
                  ELSE IF Creator[o] \in BlockTxs(b) THEN NoTx ELSE ti.spent[o]]]

\* DisconnectInputs finds the entry of every prevout, in reverse order.
CanDisconnect(ti, b) == \A o \in BlockIns(b) : ContainsTx(ti, Creator[o])

\* Mutant: vSpent of the prevouts is not nulled.
Disconnected_KeepsSpent(ti, b) ==
    [pos   |-> [t \in Tx |-> IF t \in BlockTxs(b) THEN NoBlock ELSE ti.pos[t]],
     spent |-> [o \in Outpoint |->
                  IF Creator[o] \in BlockTxs(b)
                  THEN NoTx ELSE ti.spent[o]]]

\* The index after DisconnectBlock: vSpent nulled, the block's entries erased.
Disconnected(ti, b) ==
    [pos   |-> [t \in Tx |-> IF t \in BlockTxs(b) THEN NoBlock ELSE ti.pos[t]],
     spent |-> [o \in Outpoint |->
                  IF o \in BlockIns(b) \/ Creator[o] \in BlockTxs(b)
                  THEN NoTx ELSE ti.spent[o]]]

-----------------------------------------------------------------------------
(***************************************************************************)
(* The reference: what it means for a chain to be valid and for an index to *)
(* be the one of a chain, said of the whole chain at once, with no index.  *)
(***************************************************************************)

\* The transactions on the chain that ends in b.
ChainTxs(b) == UNION {BlockTxs(a) : a \in Ancestors[b]}

\* Transaction t of block a comes before the i-th transaction of block c.
Precedes(t, a, c, i) ==
    \/ a # c /\ a \in Ancestors[c] /\ t \in BlockTxs(a)
    \/ a = c /\ t \in EarlierTxs(c, i)

\* Each transaction is in one block of the chain, each output is spent at
\* most once, after it was created and after it matured.
ValidLedger(b) ==
    /\ \A a, c \in Ancestors[b] : a # c => BlockTxs(a) \cap BlockTxs(c) = {}
    /\ \A t, u \in ChainTxs(b) : t # u => Ins[t] \cap Ins[u] = {}
    /\ \A c \in Ancestors[b] : \A i \in DOMAIN Vtx[c] : \A o \in Ins[Vtx[c][i]] :
          \E a \in Ancestors[b] :
             Precedes(Creator[o], a, c, i) /\ ~Immature(c, a, Creator[o])

\* Every block of the chain but the first claims a reward the rules allow.
RewardsAllowed(b, rule) == \A a \in Ancestors[b] \ {Genesis} : RewardAllowed(a, rule)

ValidChain(b, rule) == ValidLedger(b) /\ RewardsAllowed(b, rule)

\* ti lists exactly the transactions of the chain that ends in b, each at its
\* block, and each output with the transaction of the chain that spends it.
IndexOf(ti, b) ==
    /\ \A t \in Tx : \A a \in Block :
          ti.pos[t] = a <=> (a \in Ancestors[b] /\ t \in BlockTxs(a))
    /\ \A o \in Outpoint : \A t \in Tx :
          ti.spent[o] = t <=> (t \in ChainTxs(b) /\ o \in Ins[t])
=============================================================================
