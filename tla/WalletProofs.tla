--------------------------- MODULE WalletProofs ---------------------------
(***************************************************************************)
(* Theorems about Wallet, for every tree of blocks, every set of           *)
(* transactions and of the outputs that are the wallet's, and any number   *)
(* of crashes.  The chain need not be valid: what the wallet goes by is    *)
(* the transaction index, through every crash and every refusal.           *)
(***************************************************************************)
EXTENDS Wallet, ChainStateProofs

\* Pays the wallet or spends from it, if the wallet knows what that spends.
Involved(t) == IsMine(t) \/ Ins[t] \cap Mine # {}

Pending(do, t) == \E k \in DOMAIN queue : queue[k].do = do /\ queue[k].tx = t

\* Whatever is entered as spent was spent by an entry that does spend it, and
\* has itself an entry.
SpendersIn(index) ==
    \A o \in Outpoint : index.spent[o] # NoTx =>
       /\ o \in Ins[index.spent[o]]
       /\ ContainsTx(index, index.spent[o]) /\ ContainsTx(index, Creator[o])

SpendersInv ==
    /\ call = "finish" => txn = txdb
    /\ SpendersIn(txdb.index) /\ SpendersIn(txn.index)

Call == [tx : Tx, block : Block \cup {NoBlock}, do : {"add", "spend", "disable"}]

WalletTypeOK ==
    /\ mapWallet \subseteq Tx
    /\ vfSpent \subseteq Coins(mapWallet)
    /\ hashBlock \in [Tx -> Block \cup {NoBlock}]
    /\ queue \in Seq(Call)
    /\ reaccepted \in BOOLEAN
    /\ history \in {"undisturbed", "crashed", "refused", "repaired"}
    /\ ~reaccepted => history # "undisturbed"
    /\ \A t \in Tx : hashBlock[t] # NoBlock => t \in BlockTxs(hashBlock[t])

\* A call to add a transaction has the block where the index has it; the
\* wallet has by then, or in an earlier call, what the transaction spends of
\* its coins; its coins are marked in a later call.
AddCall(k) ==
    /\ queue[k].block = txn.index.pos[queue[k].tx]
    /\ queue[k].block # NoBlock => queue[k].tx \in BlockTxs(queue[k].block)
    /\ \E j \in DOMAIN queue : j > k /\ queue[j].do = "spend" /\ queue[j].tx = queue[k].tx

InputsKnown(k) ==
    \A o \in Ins[queue[k].tx] \cap Mine :
       \/ Creator[o] \in mapWallet
       \/ \E j \in DOMAIN queue : j < k /\ queue[j].do = "add" /\ queue[j].tx = Creator[o]

SpendCall(k) ==
    /\ \/ queue[k].tx \in mapWallet \/ Ins[queue[k].tx] \cap Mine = {}
       \/ \E j \in DOMAIN queue : j < k /\ queue[j].do = "add" /\ queue[j].tx = queue[k].tx
    /\ queue[k].tx \in Generated => ContainsTx(txn.index, queue[k].tx)

QueueInv ==
    \A k \in DOMAIN queue :
       /\ queue[k].do = "add" => AddCall(k) /\ InputsKnown(k)
       /\ queue[k].do = "spend" => SpendCall(k) /\ InputsKnown(k)
       /\ queue[k].do = "disable" => \A o \in Ins[queue[k].tx] : txn.index.spent[o] = NoTx

KnownInv ==
    \A t \in Tx : Involved(t) =>
       /\ ContainsTx(txdb.index, t) => t \in mapWallet
       /\ ContainsTx(txn.index, t) => t \in mapWallet \/ Pending("add", t)

FirstOutputsStake ==
    \A s \in Generated : \A o \in Ins[s] \cap Mine : \A p \in FirstOut :
       Creator[p] = Creator[o] /\ Creator[o] \in Generated => p = o

CaughtUp ==
    \/ history \in {"undisturbed", "repaired"}
    \/ history = "crashed" /\ reaccepted /\ FirstOutputsStake

MarkedInv ==
    CaughtUp => \A o \in Mine : txn.index.spent[o] # NoTx =>
                    o \in vfSpent \/ Pending("spend", txn.index.spent[o])

LagInv ==
    \A o \in Mine : o \in vfSpent \/ (\E s \in Generated : o \in Ins[s]) \/
       /\ txdb.index.spent[o] = NoTx
       /\ txn.index.spent[o] # NoTx => Pending("spend", txn.index.spent[o])

StakeInv ==
    \A o \in vfSpent : \E t \in mapWallet :
       /\ o \in Ins[t]
       /\ t \in Generated => ContainsTx(txn.index, t) \/ Pending("disable", t)

KeptInv ==
    \A t \in mapWallet \ Generated : \A o \in Ins[t] \cap Mine :
       /\ Creator[o] \in mapWallet
       /\ (\A s \in Generated : o \notin Ins[s]) => o \in vfSpent \/ Pending("spend", t)

PlaceInv ==
    \A t \in mapWallet : ContainsTx(txn.index, t) =>
       \/ hashBlock[t] = txn.index.pos[t]
       \/ \E k \in DOMAIN queue : queue[k].do = "add" /\ queue[k].tx = t

UndisturbedInv == history = "undisturbed" => StakeInv /\ KeptInv /\ PlaceInv

ChainPart == IndexInv /\ SpendersInv

-----------------------------------------------------------------------------
(***************************************************************************)
(* The chain's part.                                                       *)
(***************************************************************************)
LEMMA ConnectedSpenders ==
    ASSUME NEW b \in Block \ {Genesis}, NEW index \in TxIndex, SpendersIn(index),
           InputsConnect(index, b)
    PROVE  /\ SpendersIn(Connected(index, b))
           /\ \A o \in Outpoint : Connected(index, b).spent[o] # NoTx =>
                 Connected(index, b).spent[o] = index.spent[o]
                 \/ Connected(index, b).spent[o] \in BlockTxs(b)
<1> DEFINE ti == Connected(index, b)
<1>1. \A t \in Tx : ti.pos[t] = IF t \in BlockTxs(b) THEN b ELSE index.pos[t]
  BY DEF Connected
<1>2. b # NoBlock /\ BlockTxs(b) \subseteq Tx /\ BlockIns(b) \subseteq Outpoint
  BY TxTypes, TreeAssumption DEF BlockIns
<1>3. \A t \in Tx : ContainsTx(ti, t) <=> t \in BlockTxs(b) \/ ContainsTx(index, t)
  BY <1>1, <1>2 DEF ContainsTx
<1>4. ASSUME NEW o \in Outpoint, ti.spent[o] # NoTx
      PROVE  /\ o \in Ins[ti.spent[o]] /\ ContainsTx(ti, ti.spent[o]) /\ ContainsTx(ti, Creator[o])
             /\ ti.spent[o] = index.spent[o] \/ ti.spent[o] \in BlockTxs(b)
  <2>0. Creator[o] \in Tx /\ index.spent[o] \in Tx \cup {NoTx}
    BY TxAssumption DEF TxIndex
  <2>1. CASE o \in BlockIns(b)
    <3>1. ti.spent[o] = CHOOSE t \in BlockTxs(b) : o \in Ins[t]
      BY <2>1 DEF Connected
    <3>2. \E t \in BlockTxs(b) : o \in Ins[t]
      BY <2>1 DEF BlockIns
    <3>3. ti.spent[o] \in BlockTxs(b) /\ o \in Ins[ti.spent[o]]
      BY <3>1, <3>2
    <3>4. PICK i \in DOMAIN Vtx[b] : o \in Ins[Vtx[b][i]]
      BY <3>2 DEF BlockTxs
    <3>5. Creator[o] \in BlockTxs(b) \/ ContainsTx(index, Creator[o])
      BY <3>4 DEF InputsConnect, ConnectInputs, EarlierTxs, BlockTxs, Unspent
    <3> QED  BY <1>2, <1>3, <2>0, <3>3, <3>5
  <2>2. CASE o \notin BlockIns(b)
    <3>1. ti.spent[o] = IF Creator[o] \in BlockTxs(b) THEN NoTx ELSE index.spent[o]
      BY <2>2 DEF Connected
    <3> QED  BY <1>3, <1>4, <2>0, <3>1 DEF SpendersIn
  <2> QED  BY <2>1, <2>2
<1> QED  BY <1>1, <1>3, <1>4 DEF SpendersIn

LEMMA DisconnectedSpenders ==
    ASSUME NEW b \in Block \ {Genesis}, NEW index \in TxIndex, SpendersIn(index)
    PROVE  /\ SpendersIn(Disconnected(index, b))
           /\ \A o \in Outpoint : Disconnected(index, b).spent[o] # NoTx =>
                 Disconnected(index, b).spent[o] = index.spent[o]
           /\ \A t \in BlockTxs(b) : \A o \in Ins[t] : Disconnected(index, b).spent[o] = NoTx
<1> DEFINE ti == Disconnected(index, b)
<1>1. \A t \in Tx : ti.pos[t] = IF t \in BlockTxs(b) THEN NoBlock ELSE index.pos[t]
  BY DEF Disconnected
<1>2. \A o \in Outpoint : ti.spent[o] = IF o \in BlockIns(b) \/ Creator[o] \in BlockTxs(b)
                                       THEN NoTx ELSE index.spent[o]
  BY DEF Disconnected
<1>3. BlockTxs(b) \subseteq Tx /\ \A t \in BlockTxs(b) : Ins[t] \subseteq BlockIns(b) /\ Ins[t] \subseteq Outpoint
  BY TxTypes, TxAssumption DEF BlockIns
<1>4. ASSUME NEW o \in Outpoint, ti.spent[o] # NoTx
      PROVE  /\ ti.spent[o] = index.spent[o]
             /\ o \in Ins[ti.spent[o]] /\ ContainsTx(ti, ti.spent[o]) /\ ContainsTx(ti, Creator[o])
  <2>1. /\ ti.spent[o] = index.spent[o] /\ o \notin BlockIns(b) /\ Creator[o] \notin BlockTxs(b)
        /\ Creator[o] \in Tx /\ index.spent[o] \in Tx
    BY <1>2, <1>4, TxAssumption DEF TxIndex
  <2>2. /\ o \in Ins[index.spent[o]]
        /\ ContainsTx(index, index.spent[o]) /\ ContainsTx(index, Creator[o])
    BY <1>4, <2>1 DEF SpendersIn
  <2>3. index.spent[o] \notin BlockTxs(b)
    BY <1>3, <2>1, <2>2
  <2> QED  BY <1>1, <2>1, <2>2, <2>3 DEF ContainsTx
<1> HIDE DEF ti
<1>6. SpendersIn(ti)
  BY <1>4 DEF SpendersIn
<1>7. \A t \in BlockTxs(b) : \A o \in Ins[t] : ti.spent[o] = NoTx
  BY <1>2, <1>3
<1> QED  BY <1>4, <1>6, <1>7 DEF ti

\* The two indices of the chain, at every step of SetBestChain and in a crash.
LEMMA ChainPartKept ==
    ASSUME ChainPart, [CrashNext]_vars
    PROVE  ChainPart'
<1>0. /\ IndexInv /\ IndexInv' /\ TypeOK /\ OpenInv /\ SpendersInv
      /\ cursor \in Block /\ txn.index \in TxIndex /\ txdb.index \in TxIndex
      /\ txn \in [best : Block, index : TxIndex] /\ txdb \in [best : Block, index : TxIndex]
  BY NextIndex DEF ChainPart, IndexInv, ChainInv, TypeInv, TypeOK
<1> SUFFICES SpendersInv'
  BY <1>0 DEF ChainPart
<1>1. CASE DisconnectBlock
  <2>1. /\ call' = "disconnect" /\ txdb' = txdb /\ txn'.index = Disconnected(txn.index, cursor)
        /\ call = "disconnect" /\ cursor # pfork
    BY <1>0, <1>1 DEF DisconnectBlock
  <2>2. cursor \in Block \ {Genesis}
    BY <1>0, <2>1, DisconnectStays DEF IndexInv, ChainInv
  <2> QED  BY <1>0, <2>1, <2>2, DisconnectedSpenders DEF SpendersInv
<1>2. ASSUME NEW b \in Block, ReconnectBlock(b) \/ SetBestChainInner(b) PROVE SpendersInv'
  <2>1. /\ call' \in {"reconnect", "connected"} /\ txdb' = txdb /\ b \in Block \ {Genesis}
        /\ txn'.index = Connected(txn.index, b) /\ InputsConnect(txn.index, b)
    BY <1>0, <1>2 DEF ReconnectBlock, SetBestChainInner, IsNextTo, ConnectBlockOk
  <2> QED  BY <1>0, <2>1, ConnectedSpenders DEF SpendersInv
<1>3. CASE ReorganizeCommits \/ SetBestChainInnerCommits
  <2>1. txdb' = txn' /\ txn'.index = txn.index
    BY <1>0, <1>3 DEF ReorganizeCommits, SetBestChainInnerCommits
  <2> QED  BY <1>0, <2>1 DEF SpendersInv
<1>4. CASE ReorganizeFails \/ AppendFails \/ NewBestBlock \/ CrashAndLoadBlockIndex
  <2>1. txdb' = txdb /\ txn' = txdb
    BY <1>4 DEF ReorganizeFails, AppendFails, NewBestBlock, CrashAndLoadBlockIndex, Return
  <2> QED  BY <1>0, <2>1 DEF SpendersInv
<1>5. ASSUME NEW b \in Block, SecondaryFails(b) PROVE SpendersInv'
  <2>1. call = "secondary" /\ UNCHANGED <<txdb, txn>>
    BY <1>5 DEF SecondaryFails
  <2> QED  BY <1>0, <2>1 DEF SpendersInv, OpenInv
<1>6. CASE SetBestChain \/ DisconnectedAll \/ \E b \in Block : AddToBlockIndex(b)
  <2>1. UNCHANGED <<txdb, txn>> /\ call' # "finish"
    BY <1>0, <1>6 DEF SetBestChain, DisconnectedAll, AddToBlockIndex
  <2> QED  BY <1>0, <2>1 DEF SpendersInv
<1>7. CASE UNCHANGED vars
  BY <1>0, <1>7 DEF vars, SpendersInv
<1> QED  BY <1>1, <1>2, <1>3, <1>4, <1>5, <1>6, <1>7 DEF CrashNext, SteadyNext, Connecting

-----------------------------------------------------------------------------
(***************************************************************************)
(* The calls that a handler makes.                                         *)
(***************************************************************************)
LEMMA ConnectCallsFacts ==
    ASSUME NEW b \in Block
    PROVE  LET q == ConnectCalls(b) IN
           /\ q \in Seq(Call)
           /\ \A k \in DOMAIN q : \E i \in DOMAIN Vtx[b] :
                 \/ k = 2 * i - 1 /\ q[k] = [tx |-> Vtx[b][i], block |-> b, do |-> "add"]
                 \/ k = 2 * i /\ q[k] = [tx |-> Vtx[b][i], block |-> b, do |-> "spend"]
           /\ \A i \in DOMAIN Vtx[b] :
                 /\ 2 * i - 1 \in DOMAIN q /\ 2 * i \in DOMAIN q
                 /\ q[2 * i - 1] = [tx |-> Vtx[b][i], block |-> b, do |-> "add"]
                 /\ q[2 * i] = [tx |-> Vtx[b][i], block |-> b, do |-> "spend"]
<1> DEFINE q == ConnectCalls(b)
<1>1. Vtx[b] \in Seq(Tx) /\ Len(Vtx[b]) \in Nat /\ DOMAIN Vtx[b] = 1..Len(Vtx[b])
  BY TxAssumption
<1>2. \A i \in 1..Len(Vtx[b]) : Vtx[b][i] \in Tx
  BY <1>1
<1>3. DOMAIN q = 1..2 * Len(Vtx[b])
  BY DEF ConnectCalls
<1>4. \A k \in DOMAIN q : q[k] = [tx |-> Vtx[b][(k + 1) \div 2], block |-> b,
                                   do |-> IF k % 2 = 1 THEN "add" ELSE "spend"]
  BY DEF ConnectCalls
<1>5. ASSUME NEW k \in DOMAIN q
      PROVE  \E i \in DOMAIN Vtx[b] :
                 \/ k = 2 * i - 1 /\ q[k] = [tx |-> Vtx[b][i], block |-> b, do |-> "add"]
                 \/ k = 2 * i /\ q[k] = [tx |-> Vtx[b][i], block |-> b, do |-> "spend"]
  <2> DEFINE i == (k + 1) \div 2
  <2>1. k \in Nat /\ 1 <= k /\ k <= 2 * Len(Vtx[b])
    BY <1>1, <1>3
  <2>2. i \in 1..Len(Vtx[b]) /\ (k % 2 = 1 => k = 2 * i - 1) /\ (k % 2 # 1 => k = 2 * i)
    BY <1>1, <2>1
  <2>3. q[k] = [tx |-> Vtx[b][i], block |-> b, do |-> IF k % 2 = 1 THEN "add" ELSE "spend"]
    BY <1>4
  <2> HIDE DEF i, q
  <2> QED  BY <1>1, <2>2, <2>3
<1>6. ASSUME NEW i \in DOMAIN Vtx[b]
      PROVE  /\ 2 * i - 1 \in DOMAIN q /\ 2 * i \in DOMAIN q
             /\ q[2 * i - 1] = [tx |-> Vtx[b][i], block |-> b, do |-> "add"]
             /\ q[2 * i] = [tx |-> Vtx[b][i], block |-> b, do |-> "spend"]
  <2>1. i \in Nat /\ 1 <= i /\ i <= Len(Vtx[b])
    BY <1>1
  <2>2. /\ 2 * i - 1 \in 1..2 * Len(Vtx[b]) /\ 2 * i \in 1..2 * Len(Vtx[b])
        /\ (2 * i - 1 + 1) \div 2 = i /\ (2 * i + 1) \div 2 = i
        /\ (2 * i - 1) % 2 = 1 /\ (2 * i) % 2 = 0
    BY <1>1, <2>1
  <2> HIDE DEF q
  <2> DEFINE j == 2 * i - 1
             k == 2 * i
  <2>3. j \in DOMAIN q /\ k \in DOMAIN q
    BY <1>3, <2>2
  <2>4. (j + 1) \div 2 = i /\ (k + 1) \div 2 = i /\ j % 2 = 1 /\ k % 2 # 1
    BY <2>2
  <2> HIDE DEF j, k
  <2>5. /\ q[j] = [tx |-> Vtx[b][i], block |-> b, do |-> "add"]
        /\ q[k] = [tx |-> Vtx[b][i], block |-> b, do |-> "spend"]
    BY <1>4, <2>3, <2>4
  <2> QED  BY <2>3, <2>5 DEF j, k
<1>7. q \in Seq(Call)
  <2>1. \A k \in DOMAIN q : q[k] \in Call
    BY <1>1, <1>2, <1>5 DEF Call
  <2> HIDE DEF q
  <2>2. q = [k \in 1..2 * Len(Vtx[b]) |-> q[k]]
    BY <1>3 DEF q, ConnectCalls
  <2>3. 2 * Len(Vtx[b]) \in Nat
    BY <1>1
  <2> QED  BY <1>3, <2>1, <2>2, <2>3
<1> HIDE DEF q
<1> QED  BY <1>5, <1>6, <1>7 DEF q

LEMMA DisconnectCallsFacts ==
    ASSUME NEW b \in Block
    PROVE  LET q == DisconnectCalls(b) IN
           /\ q \in Seq(Call)
           /\ \A k \in DOMAIN q : q[k].do = "disable" /\ q[k].tx \in BlockTxs(b)
           /\ \A t \in BlockTxs(b) : \E k \in DOMAIN q : q[k].do = "disable" /\ q[k].tx = t
<1> DEFINE q == DisconnectCalls(b)
<1>1. Vtx[b] \in Seq(Tx) /\ Len(Vtx[b]) \in Nat /\ DOMAIN Vtx[b] = 1..Len(Vtx[b])
  BY TxAssumption
<1>2. \A i \in 1..Len(Vtx[b]) : Vtx[b][i] \in Tx
  BY <1>1
<1>3. /\ q = [k \in 1..Len(Vtx[b]) |-> [tx |-> Vtx[b][k], block |-> b, do |-> "disable"]]
      /\ \A k \in DOMAIN q : q[k] = [tx |-> Vtx[b][k], block |-> b, do |-> "disable"]
  BY <1>1 DEF DisconnectCalls
<1>4. \A k \in 1..Len(Vtx[b]) : [tx |-> Vtx[b][k], block |-> b, do |-> "disable"] \in Call
  BY <1>2 DEF Call
<1> QED  BY <1>1, <1>3, <1>4 DEF BlockTxs

LEMMA TxCallsFacts ==
    ASSUME NEW t \in Tx
    PROVE  LET q == TxCalls(t) IN
           /\ q \in Seq(Call) /\ DOMAIN q = {1, 2}
           /\ q[1] = [tx |-> t, block |-> NoBlock, do |-> "add"]
           /\ q[2] = [tx |-> t, block |-> NoBlock, do |-> "spend"]
  BY DEF TxCalls, Call

\* The rest of the calls, one place nearer to the front.
LEMMA TailFacts ==
    ASSUME queue \in Seq(Call), queue # << >>, queue' = Tail(queue)
    PROVE  /\ queue' \in Seq(Call) /\ Head(queue) = queue[1]
           /\ 1 \in DOMAIN queue /\ queue[1] \in Call
           /\ DOMAIN queue \subseteq Nat \ {0} /\ DOMAIN queue' \subseteq Nat \ {0}
           /\ \A k \in DOMAIN queue' : k + 1 \in DOMAIN queue /\ queue'[k] = queue[k + 1]
           /\ \A k \in DOMAIN queue : k # 1 => k - 1 \in DOMAIN queue' /\ queue'[k - 1] = queue[k]
  OBVIOUS

-----------------------------------------------------------------------------
(***************************************************************************)
(* What the wallet has of the chain, through every crash.                  *)
(***************************************************************************)
WalletInv ==
    /\ ChainPart /\ WalletTypeOK
    /\ QueueInv /\ KnownInv /\ MarkedInv /\ LagInv
    /\ UndisturbedInv

\* What a step of SetBestChain does to the index and asks of the wallet.
StaysInIndex ==
    /\ queue' = queue /\ history' = history
    /\ txn'.index = txn.index /\ txdb'.index \in {txdb.index, txn.index}

IsRefused == queue' = queue /\ history' = "refused" /\ txn' = txdb /\ txdb' = txdb

Leaves(b) ==
    /\ queue' = DisconnectCalls(b) /\ history' = history
    /\ txdb' = txdb /\ txn'.index = Disconnected(txn.index, b)

Joins(b) ==
    /\ queue' = ConnectCalls(b) /\ history' = history
    /\ InputsConnect(txn.index, b)
    /\ txdb' = txdb /\ txn'.index = Connected(txn.index, b)

LEMMA ChainEffects ==
    ASSUME ChainPart, ChainStep
    PROVE  /\ [CrashNext]_vars
           /\ queue = << >> /\ UNCHANGED <<walletvars, reaccepted>>
           /\ \/ StaysInIndex \/ IsRefused
              \/ \E b \in Block \ {Genesis} : Leaves(b) \/ Joins(b)
<1>0. /\ TypeOK /\ OpenInv /\ SpendersInv /\ cursor \in Block
      /\ txn \in [best : Block, index : TxIndex] /\ txdb \in [best : Block, index : TxIndex]
  BY DEF ChainPart, IndexInv, ChainInv, TypeInv, TypeOK
<1>1. /\ queue = << >> /\ UNCHANGED <<walletvars, reaccepted>>
      /\ history' = IF call \in {"disconnect", "reconnect"} /\ call' = "idle"
                    THEN "refused" ELSE history
  BY DEF ChainStep
<1>2. ASSUME NEW b \in Block, AddToBlockIndex(b) /\ UNCHANGED queue
      PROVE  StaysInIndex
  BY <1>1, <1>2 DEF AddToBlockIndex, StaysInIndex
<1>3. CASE (SetBestChain \/ DisconnectedAll) /\ UNCHANGED queue
  <2>1. UNCHANGED <<txdb, txn>> /\ call' # "idle" /\ UNCHANGED queue
    BY <1>3 DEF SetBestChain, DisconnectedAll
  <2>2. StaysInIndex
    BY <1>1, <2>1 DEF StaysInIndex
  <2> QED  BY <1>1, <1>3, <2>2 DEF CrashNext, SteadyNext, Connecting
<1>4. CASE (ReorganizeCommits \/ SetBestChainInnerCommits) /\ UNCHANGED queue
  <2>1. txdb' = txn' /\ txn'.index = txn.index /\ call' # "idle" /\ UNCHANGED queue
    BY <1>0, <1>4 DEF ReorganizeCommits, SetBestChainInnerCommits
  <2>2. StaysInIndex
    BY <1>1, <2>1 DEF StaysInIndex
  <2> QED  BY <1>1, <1>4, <2>2 DEF CrashNext, SteadyNext, Connecting
<1>5. CASE (AppendFails \/ NewBestBlock \/ \E b \in Block : SecondaryFails(b)) /\ UNCHANGED queue
  <2>1. /\ txdb' = txdb /\ txn' = txn /\ call \notin {"disconnect", "reconnect"}
        /\ UNCHANGED queue
    BY <1>0, <1>5 DEF AppendFails, NewBestBlock, SecondaryFails, Return, OpenInv, SpendersInv
  <2>2. StaysInIndex
    BY <1>1, <2>1 DEF StaysInIndex
  <2> QED  BY <1>1, <1>5, <2>2 DEF CrashNext, SteadyNext, Connecting
<1>6. CASE DisconnectBlock /\ queue' = DisconnectCalls(cursor)
  <2>1. /\ call' = "disconnect" /\ txdb' = txdb /\ txn'.index = Disconnected(txn.index, cursor)
        /\ call = "disconnect" /\ cursor # pfork
    BY <1>0, <1>6 DEF DisconnectBlock
  <2>2. cursor \in Block \ {Genesis}
    BY <1>0, <2>1, DisconnectStays DEF ChainPart, IndexInv, ChainInv
  <2>3. Leaves(cursor)
    BY <1>1, <1>6, <2>1 DEF Leaves
  <2> QED  BY <1>1, <1>6, <2>2, <2>3 DEF CrashNext, SteadyNext, Connecting
<1>7. ASSUME NEW b \in Block, (ReconnectBlock(b) \/ SetBestChainInner(b)), queue' = ConnectCalls(b)
      PROVE  b \in Block \ {Genesis} /\ Joins(b)
  <2>1. /\ call' # "idle" /\ txdb' = txdb /\ b \in Block \ {Genesis}
        /\ txn'.index = Connected(txn.index, b) /\ InputsConnect(txn.index, b)
    BY <1>0, <1>7 DEF ReconnectBlock, SetBestChainInner, IsNextTo, ConnectBlockOk
  <2> QED  BY <1>1, <1>7, <2>1 DEF Joins
<1>8. CASE ReorganizeFails /\ UNCHANGED queue
  <2>1. txdb' = txdb /\ txn' = txdb /\ call' = "idle" /\ call \in {"disconnect", "reconnect"}
    BY <1>8 DEF ReorganizeFails, Return
  <2>2. IsRefused
    BY <1>1, <1>8, <2>1 DEF IsRefused
  <2> QED  BY <1>1, <1>8, <2>2 DEF CrashNext, SteadyNext, Connecting
<1> QED
  BY <1>1, <1>2, <1>3, <1>4, <1>5, <1>6, <1>7, <1>8 DEF ChainStep, CrashNext, SteadyNext, Connecting

LEMMA StaysKeeps ==
    ASSUME WalletInv, ChainPart', queue = << >>, UNCHANGED <<walletvars, reaccepted>>,
           StaysInIndex \/ IsRefused
    PROVE  WalletInv'
<1>0. /\ WalletTypeOK /\ KnownInv /\ MarkedInv /\ LagInv /\ UndisturbedInv
      /\ UNCHANGED <<mapWallet, vfSpent, hashBlock, reaccepted>>
  BY DEF WalletInv, walletvars
<1>1. /\ queue' = queue /\ txdb'.index \in {txdb.index, txn.index}
      /\ \/ txn'.index = txn.index /\ history' = history
         \/ txn'.index = txdb.index /\ txdb' = txdb /\ history' = "refused"
  BY DEF StaysInIndex, IsRefused
<1>9. DOMAIN queue = {} /\ DOMAIN queue' = {}
  BY <1>1
<1>2. \A do, t : ~Pending(do, t) /\ ~Pending(do, t)'
  BY <1>9 DEF Pending
<1>3. WalletTypeOK'
  BY <1>0, <1>1 DEF WalletTypeOK, Coins
<1>4. QueueInv'
  BY <1>9 DEF QueueInv
<1>5. KnownInv' /\ LagInv'
  BY <1>0, <1>1, <1>2 DEF KnownInv, LagInv, Involved, IsMine
<1>6. MarkedInv'
  BY <1>0, <1>1, <1>2 DEF MarkedInv, CaughtUp
<1>7. UndisturbedInv'
  BY <1>0, <1>1, <1>2 DEF UndisturbedInv, StakeInv, KeptInv, PlaceInv
<1> QED  BY <1>3, <1>4, <1>5, <1>6, <1>7 DEF WalletInv

LEMMA LeavesKeeps ==
    ASSUME WalletInv, ChainPart', queue = << >>, UNCHANGED <<walletvars, reaccepted>>,
           NEW b \in Block \ {Genesis}, Leaves(b)
    PROVE  WalletInv'
<1>0. /\ WalletTypeOK /\ KnownInv /\ MarkedInv /\ LagInv /\ UndisturbedInv
      /\ UNCHANGED <<mapWallet, vfSpent, hashBlock, reaccepted>>
      /\ SpendersIn(txn.index) /\ txn.index \in TxIndex
      /\ mapWallet \subseteq Tx /\ Mine \subseteq Outpoint /\ vfSpent \subseteq Mine
  BY WalletAssumption
     DEF WalletInv, walletvars, ChainPart, SpendersInv, IndexInv, ChainInv, TypeInv, TypeOK,
         WalletTypeOK, Coins
<1>1. /\ queue' = DisconnectCalls(b) /\ history' = history
      /\ txdb' = txdb /\ txn'.index = Disconnected(txn.index, b)
  BY DEF Leaves
<1>2. \A do, t : ~Pending(do, t)
  <2>1. DOMAIN queue = {}
    OBVIOUS
  <2> QED  BY <2>1 DEF Pending
<1>3. /\ queue' \in Seq(Call)
      /\ \A k \in DOMAIN queue' : queue'[k].do = "disable" /\ queue'[k].tx \in BlockTxs(b)
      /\ \A t \in BlockTxs(b) : Pending("disable", t)'
  BY <1>1, DisconnectCallsFacts DEF Pending
<1>4. /\ \A o \in Outpoint : txn'.index.spent[o] # NoTx => txn'.index.spent[o] = txn.index.spent[o]
      /\ \A t \in BlockTxs(b) : \A o \in Ins[t] : txn'.index.spent[o] = NoTx
      /\ \A t \in Tx : /\ ContainsTx(txn'.index, t) <=> t \notin BlockTxs(b) /\ ContainsTx(txn.index, t)
                       /\ ContainsTx(txn'.index, t) => txn'.index.pos[t] = txn.index.pos[t]
  <2> DEFINE ti == Disconnected(txn.index, b)
  <2>1. /\ \A o \in Outpoint : ti.spent[o] # NoTx => ti.spent[o] = txn.index.spent[o]
        /\ \A t \in BlockTxs(b) : \A o \in Ins[t] : ti.spent[o] = NoTx
    <3>1. txn.index \in TxIndex /\ SpendersIn(txn.index)
      BY <1>0
    <3> QED  BY <3>1, DisconnectedSpenders
  <2>2. txn'.index = ti /\ b # NoBlock
    BY <1>1, TreeAssumption
  <2>3. \A t \in Tx : ti.pos[t] = IF t \in BlockTxs(b) THEN NoBlock ELSE txn.index.pos[t]
    BY DEF Disconnected
  <2> HIDE DEF ti
  <2>4. \A t \in Tx : /\ ContainsTx(txn'.index, t) <=> t \notin BlockTxs(b) /\ ContainsTx(txn.index, t)
                      /\ ContainsTx(txn'.index, t) => txn'.index.pos[t] = txn.index.pos[t]
    BY <2>2, <2>3 DEF ContainsTx
  <2> QED  BY <2>1, <2>2, <2>4
<1>5. WalletTypeOK'
  BY <1>0, <1>1, <1>3 DEF WalletTypeOK, Coins
<1>6. QueueInv'
  BY <1>3, <1>4 DEF QueueInv
<1>7. KnownInv'
  BY <1>0, <1>1, <1>2, <1>4 DEF KnownInv, Involved, IsMine
<1>8. LagInv'
  BY <1>0, <1>1, <1>2, <1>4 DEF LagInv
<1>9. MarkedInv'
  BY <1>0, <1>1, <1>2, <1>4 DEF MarkedInv, CaughtUp
<1>10. UndisturbedInv'
  <2> SUFFICES ASSUME history = "undisturbed" PROVE StakeInv' /\ KeptInv' /\ PlaceInv'
    BY <1>1 DEF UndisturbedInv
  <2>1. StakeInv'
    <3> SUFFICES ASSUME NEW o \in vfSpent
                 PROVE  \E t \in mapWallet :
                           /\ o \in Ins[t]
                           /\ t \in Generated => ContainsTx(txn'.index, t) \/ Pending("disable", t)'
      BY <1>0 DEF StakeInv
    <3>1. PICK t \in mapWallet : /\ o \in Ins[t]
                                 /\ t \in Generated => ContainsTx(txn.index, t)
      BY <1>0, <1>2 DEF UndisturbedInv, StakeInv
    <3> QED  BY <1>0, <1>3, <1>4, <3>1
  <2>2. KeptInv'
    BY <1>0, <1>2 DEF UndisturbedInv, KeptInv
  <2>3. PlaceInv'
    <3>1. \A t \in mapWallet : ContainsTx(txn.index, t) => hashBlock[t] = txn.index.pos[t]
      <4>1. DOMAIN queue = {}
        OBVIOUS
      <4> QED  BY <1>0, <4>1 DEF UndisturbedInv, PlaceInv
    <3> QED  BY <1>0, <1>4, <3>1 DEF PlaceInv
  <2> QED  BY <2>1, <2>2, <2>3
<1> QED  BY <1>5, <1>6, <1>7, <1>8, <1>9, <1>10 DEF WalletInv

\* The transactions that a block spends from are in the index or come before.
LEMMA JoinsKeeps ==
    ASSUME WalletInv, ChainPart', queue = << >>, UNCHANGED <<walletvars, reaccepted>>,
           NEW b \in Block \ {Genesis}, Joins(b)
    PROVE  WalletInv'
<1>0. /\ WalletTypeOK /\ KnownInv /\ MarkedInv /\ LagInv /\ UndisturbedInv
      /\ UNCHANGED <<mapWallet, vfSpent, hashBlock, reaccepted>>
      /\ SpendersIn(txn.index) /\ txn.index \in TxIndex
      /\ mapWallet \subseteq Tx /\ Mine \subseteq Outpoint /\ vfSpent \subseteq Mine
  BY WalletAssumption
     DEF WalletInv, walletvars, ChainPart, SpendersInv, IndexInv, ChainInv, TypeInv, TypeOK,
         WalletTypeOK, Coins
<1>1. /\ queue' = ConnectCalls(b) /\ history' = history /\ InputsConnect(txn.index, b)
      /\ txdb' = txdb /\ txn'.index = Connected(txn.index, b)
  BY DEF Joins
<1>2. (\A do, t : ~Pending(do, t)) /\ DOMAIN queue = {}
  <2>1. DOMAIN queue = {}
    OBVIOUS
  <2> QED  BY <2>1 DEF Pending
<1>3. /\ queue' \in Seq(Call)
      /\ \A k \in DOMAIN queue' : \E i \in DOMAIN Vtx[b] :
            \/ k = 2 * i - 1 /\ queue'[k] = [tx |-> Vtx[b][i], block |-> b, do |-> "add"]
            \/ k = 2 * i /\ queue'[k] = [tx |-> Vtx[b][i], block |-> b, do |-> "spend"]
      /\ \A i \in DOMAIN Vtx[b] :
            /\ 2 * i - 1 \in DOMAIN queue' /\ 2 * i \in DOMAIN queue'
            /\ queue'[2 * i - 1] = [tx |-> Vtx[b][i], block |-> b, do |-> "add"]
            /\ queue'[2 * i] = [tx |-> Vtx[b][i], block |-> b, do |-> "spend"]
  BY <1>1, ConnectCallsFacts
<1>4. /\ \A i \in DOMAIN Vtx[b] : i \in Nat /\ Vtx[b][i] \in BlockTxs(b) /\ Vtx[b][i] \in Tx
      /\ \A t \in BlockTxs(b) : \E i \in DOMAIN Vtx[b] : t = Vtx[b][i]
      /\ \A o \in Outpoint : Creator[o] \in Tx
      /\ b # NoBlock
  BY TxTypes, TreeAssumption
<1> DEFINE first(i) == 2 * i - 1
           second(i) == 2 * i
<1>13. \A i \in DOMAIN Vtx[b] :
         /\ first(i) \in DOMAIN queue' /\ queue'[first(i)].do = "add"
         /\ queue'[first(i)].tx = Vtx[b][i]
         /\ second(i) \in DOMAIN queue' /\ queue'[second(i)].do = "spend"
         /\ queue'[second(i)].tx = Vtx[b][i]
         /\ first(i) < second(i)
  <2> TAKE i \in DOMAIN Vtx[b]
  <2>1. /\ first(i) \in DOMAIN queue' /\ queue'[first(i)] = [tx |-> Vtx[b][i], block |-> b, do |-> "add"]
        /\ second(i) \in DOMAIN queue' /\ queue'[second(i)] = [tx |-> Vtx[b][i], block |-> b, do |-> "spend"]
    BY <1>3
  <2>2. first(i) < second(i)
    BY <1>4
  <2> HIDE DEF first, second
  <2> QED  BY <2>1, <2>2
<1>14. \A i, j \in DOMAIN Vtx[b] : i < j => second(i) < first(j) /\ first(i) < first(j) /\ first(i) < second(j)
  BY <1>4
<1>15. \A k \in DOMAIN queue' : \E i \in DOMAIN Vtx[b] :
         /\ queue'[k].tx = Vtx[b][i] /\ queue'[k].block = b
         /\ \/ k = first(i) /\ queue'[k].do = "add"
            \/ k = second(i) /\ queue'[k].do = "spend"
  <2> TAKE k \in DOMAIN queue'
  <2>1. PICK i \in DOMAIN Vtx[b] :
            \/ k = first(i) /\ queue'[k] = [tx |-> Vtx[b][i], block |-> b, do |-> "add"]
            \/ k = second(i) /\ queue'[k] = [tx |-> Vtx[b][i], block |-> b, do |-> "spend"]
    BY <1>3
  <2> HIDE DEF first, second
  <2> QED  BY <2>1
<1> HIDE DEF first, second
<1>5. \A t \in BlockTxs(b) : Pending("add", t)' /\ Pending("spend", t)'
  BY <1>4, <1>13 DEF Pending
<1>6. /\ \A o \in Outpoint : txn'.index.spent[o] # NoTx =>
            txn'.index.spent[o] = txn.index.spent[o] \/ txn'.index.spent[o] \in BlockTxs(b)
      /\ \A t \in Tx : /\ txn'.index.pos[t] = IF t \in BlockTxs(b) THEN b ELSE txn.index.pos[t]
                       /\ ContainsTx(txn'.index, t) <=> t \in BlockTxs(b) \/ ContainsTx(txn.index, t)
  <2> DEFINE ti == Connected(txn.index, b)
  <2>1. /\ \A o \in Outpoint : ti.spent[o] # NoTx =>
              ti.spent[o] = txn.index.spent[o] \/ ti.spent[o] \in BlockTxs(b)
    <3>1. txn.index \in TxIndex /\ SpendersIn(txn.index) /\ InputsConnect(txn.index, b)
      BY <1>0, <1>1
    <3> QED  BY <3>1, ConnectedSpenders
  <2>2. txn'.index = ti /\ b # NoBlock
    BY <1>1, <1>4
  <2>3. \A t \in Tx : ti.pos[t] = IF t \in BlockTxs(b) THEN b ELSE txn.index.pos[t]
    BY DEF Connected
  <2> HIDE DEF ti
  <2>4. \A t \in Tx : /\ txn'.index.pos[t] = IF t \in BlockTxs(b) THEN b ELSE txn.index.pos[t]
                      /\ ContainsTx(txn'.index, t) <=> t \in BlockTxs(b) \/ ContainsTx(txn.index, t)
    BY <2>2, <2>3 DEF ContainsTx
  <2> QED  BY <2>1, <2>2, <2>4
<1>7. WalletTypeOK'
  BY <1>0, <1>1, <1>3 DEF WalletTypeOK, Coins
<1>8. QueueInv'
  <2> SUFFICES ASSUME NEW k \in DOMAIN queue'
               PROVE  /\ queue'[k].do = "add" => AddCall(k)'
                      /\ queue'[k].do = "spend" => SpendCall(k)'
                      /\ InputsKnown(k)'
                      /\ queue'[k].do # "disable"
    BY DEF QueueInv
  <2>1. PICK i \in DOMAIN Vtx[b] :
           /\ queue'[k].tx = Vtx[b][i] /\ queue'[k].block = b
           /\ \/ k = first(i) /\ queue'[k].do = "add"
              \/ k = second(i) /\ queue'[k].do = "spend"
    BY <1>15
  <2>2. Vtx[b][i] \in BlockTxs(b) /\ Vtx[b][i] \in Tx
    BY <1>4
  <2>3. queue'[k].do = "add" => AddCall(k)'
    <3>1. txn'.index.pos[Vtx[b][i]] = b
      BY <1>6, <2>2
    <3> QED  BY <1>13, <2>1, <2>2, <3>1 DEF AddCall
  <2>4. queue'[k].do = "spend" => SpendCall(k)'
    <3>1. ContainsTx(txn'.index, Vtx[b][i])
      BY <1>6, <2>2
    <3> QED  BY <1>13, <2>1, <2>2, <3>1 DEF SpendCall
  <2>5. InputsKnown(k)'
    <3> SUFFICES ASSUME NEW o \in Ins[Vtx[b][i]], o \in Mine
                 PROVE  \/ Creator[o] \in mapWallet
                        \/ \E j \in DOMAIN queue' : /\ j < k /\ queue'[j].do = "add"
                                                    /\ queue'[j].tx = Creator[o]
      BY <1>0, <2>1 DEF InputsKnown
    <3>1. Creator[o] \in EarlierTxs(b, i) \/ Unspent(txn.index, o)
      BY <1>1 DEF InputsConnect, ConnectInputs
    <3>2. CASE Creator[o] \in EarlierTxs(b, i)
      <4>1. PICK j \in DOMAIN Vtx[b] : j < i /\ Creator[o] = Vtx[b][j]
        BY <3>2 DEF EarlierTxs
      <4>2. first(j) < k
        BY <1>14, <2>1, <4>1
      <4> QED  BY <1>13, <4>1, <4>2
    <3>3. CASE Unspent(txn.index, o)
      <4>1. Involved(Creator[o]) /\ ContainsTx(txn.index, Creator[o]) /\ Creator[o] \in Tx
        BY <1>0, <1>4, <3>3 DEF Unspent, Involved, IsMine
      <4> QED  BY <1>0, <1>2, <4>1 DEF KnownInv
    <3> QED  BY <3>1, <3>2, <3>3
  <2> QED  BY <2>1, <2>3, <2>4, <2>5
<1>9. KnownInv'
  BY <1>0, <1>1, <1>2, <1>5, <1>6 DEF KnownInv, Involved, IsMine
<1>10. LagInv'
  BY <1>0, <1>1, <1>2, <1>5, <1>6 DEF LagInv
<1>11. MarkedInv'
  BY <1>0, <1>1, <1>2, <1>5, <1>6 DEF MarkedInv, CaughtUp
<1>12. UndisturbedInv'
  <2> SUFFICES ASSUME history = "undisturbed" PROVE StakeInv' /\ KeptInv' /\ PlaceInv'
    BY <1>1 DEF UndisturbedInv
  <2>1. StakeInv'
    <3> SUFFICES ASSUME NEW o \in vfSpent
                 PROVE  \E t \in mapWallet :
                           /\ o \in Ins[t]
                           /\ t \in Generated => ContainsTx(txn'.index, t)
      BY <1>0 DEF StakeInv
    <3>1. PICK t \in mapWallet : /\ o \in Ins[t]
                                 /\ t \in Generated => ContainsTx(txn.index, t)
      BY <1>0, <1>2 DEF UndisturbedInv, StakeInv
    <3> QED  BY <1>0, <1>6, <3>1
  <2>2. KeptInv'
    BY <1>0, <1>2 DEF UndisturbedInv, KeptInv
  <2>3. PlaceInv'
    <3> SUFFICES ASSUME NEW t \in mapWallet, ContainsTx(txn'.index, t)
                 PROVE  \/ hashBlock[t] = txn'.index.pos[t]
                        \/ Pending("add", t)'
      BY <1>0 DEF PlaceInv, Pending
    <3>1. ContainsTx(txn.index, t) => hashBlock[t] = txn.index.pos[t]
      BY <1>0, <1>2 DEF UndisturbedInv, PlaceInv
    <3> QED  BY <1>0, <1>5, <1>6, <3>1
  <2> QED  BY <2>1, <2>2, <2>3
<1> QED  BY <1>7, <1>8, <1>9, <1>10, <1>11, <1>12 DEF WalletInv

-----------------------------------------------------------------------------
(***************************************************************************)
(* The calls are made, one after another.                                  *)
(***************************************************************************)
LEMMA RestOfQueue ==
    ASSUME WalletInv, queue # << >>, queue' = Tail(queue), txn' = txn,
           mapWallet \subseteq mapWallet',
           queue[1].do = "add" /\ Involved(queue[1].tx) => queue[1].tx \in mapWallet'
    PROVE  /\ QueueInv' /\ queue' \in Seq(Call)
           /\ \A do, t : Pending(do, t) =>
                 Pending(do, t)' \/ (queue[1].do = do /\ queue[1].tx = t)
<1>0. /\ QueueInv /\ queue' \in Seq(Call)
      /\ 1 \in DOMAIN queue
      /\ DOMAIN queue \subseteq Nat \ {0} /\ DOMAIN queue' \subseteq Nat \ {0}
      /\ \A k \in DOMAIN queue' : k + 1 \in DOMAIN queue /\ queue'[k] = queue[k + 1]
      /\ \A k \in DOMAIN queue : k # 1 => k - 1 \in DOMAIN queue' /\ queue'[k - 1] = queue[k]
  BY TailFacts DEF WalletInv, WalletTypeOK
<1>1. \A do, t : Pending(do, t) =>
                 Pending(do, t)' \/ (queue[1].do = do /\ queue[1].tx = t)
  BY <1>0 DEF Pending
<1>2. \A o \in Mine : queue[1].do = "add" /\ queue[1].tx = Creator[o] => Creator[o] \in mapWallet'
  BY DEF Involved, IsMine
<1>3. ASSUME NEW k \in DOMAIN queue', InputsKnown(k + 1) PROVE InputsKnown(k)'
  <2> SUFFICES ASSUME NEW o \in Ins[queue'[k].tx] \cap Mine
               PROVE  \/ Creator[o] \in mapWallet'
                      \/ \E j \in DOMAIN queue' : /\ j < k /\ queue'[j].do = "add"
                                                  /\ queue'[j].tx = Creator[o]
    BY DEF InputsKnown
  <2>1. queue'[k] = queue[k + 1]
    BY <1>0
  <2>2. CASE Creator[o] \in mapWallet
    BY <2>2
  <2>3. ASSUME NEW j \in DOMAIN queue, j < k + 1, queue[j].do = "add", queue[j].tx = Creator[o]
        PROVE  \/ Creator[o] \in mapWallet'
               \/ \E i \in DOMAIN queue' : /\ i < k /\ queue'[i].do = "add"
                                           /\ queue'[i].tx = Creator[o]
    <3>1. CASE j = 1
      BY <1>2, <2>3, <3>1
    <3>2. CASE j # 1
      <4>1. j - 1 \in DOMAIN queue' /\ queue'[j - 1] = queue[j] /\ j - 1 < k
        BY <1>0, <2>3, <3>2
      <4> QED  BY <2>3, <4>1
    <3> QED  BY <3>1, <3>2
  <2> QED  BY <1>3, <2>1, <2>2, <2>3 DEF InputsKnown
<1>4. ASSUME NEW k \in DOMAIN queue', AddCall(k + 1) PROVE AddCall(k)'
  <2>1. queue'[k] = queue[k + 1]
    BY <1>0
  <2>2. PICK j \in DOMAIN queue : j > k + 1 /\ queue[j].do = "spend" /\ queue[j].tx = queue[k + 1].tx
    BY <1>4 DEF AddCall
  <2>3. j - 1 \in DOMAIN queue' /\ queue'[j - 1] = queue[j] /\ j - 1 > k
    BY <1>0, <2>2
  <2> QED  BY <1>4, <2>1, <2>2, <2>3 DEF AddCall
<1>5. ASSUME NEW k \in DOMAIN queue', SpendCall(k + 1) PROVE SpendCall(k)'
  <2>1. queue'[k] = queue[k + 1]
    BY <1>0
  <2>2. ASSUME NEW j \in DOMAIN queue, j < k + 1, queue[j].do = "add", queue[j].tx = queue[k + 1].tx
        PROVE  \/ queue'[k].tx \in mapWallet' \/ Ins[queue'[k].tx] \cap Mine = {}
               \/ \E i \in DOMAIN queue' : i < k /\ queue'[i].do = "add" /\ queue'[i].tx = queue'[k].tx
    <3>1. CASE j = 1
      BY <2>1, <2>2, <3>1 DEF Involved
    <3>2. CASE j # 1
      <4>1. j - 1 \in DOMAIN queue' /\ queue'[j - 1] = queue[j] /\ j - 1 < k
        BY <1>0, <2>2, <3>2
      <4> QED  BY <2>1, <2>2, <4>1
    <3> QED  BY <3>1, <3>2
  <2> QED  BY <1>5, <2>1, <2>2 DEF SpendCall
<1>6. ASSUME NEW k \in DOMAIN queue'
      PROVE  /\ queue'[k].do = "add" => AddCall(k)' /\ InputsKnown(k)'
             /\ queue'[k].do = "spend" => SpendCall(k)' /\ InputsKnown(k)'
             /\ queue'[k].do = "disable" => \A o \in Ins[queue'[k].tx] : txn'.index.spent[o] = NoTx
  <2>1. k + 1 \in DOMAIN queue /\ queue'[k] = queue[k + 1]
    BY <1>0
  <2> QED  BY <1>0, <1>3, <1>4, <1>5, <2>1 DEF QueueInv
<1> QED  BY <1>0, <1>1, <1>6 DEF QueueInv

\* What is true of the first call.
LEMMA FirstCall ==
    ASSUME WalletInv, queue # << >>
    PROVE  /\ Head(queue) = queue[1] /\ queue[1] \in Call
           /\ queue[1].do \in {"add", "spend"} =>
                 \A o \in Ins[queue[1].tx] \cap Mine : Creator[o] \in mapWallet
           /\ queue[1].do = "add" => AddCall(1)
           /\ queue[1].do = "spend" => /\ queue[1].tx \in mapWallet \/ Ins[queue[1].tx] \cap Mine = {}
                                       /\ queue[1].tx \in Generated => ContainsTx(txn.index, queue[1].tx)
           /\ queue[1].do = "disable" => \A o \in Ins[queue[1].tx] : txn.index.spent[o] = NoTx
<1>1. /\ queue \in Seq(Call) /\ QueueInv /\ Head(queue) = queue[1] /\ 1 \in DOMAIN queue
      /\ queue[1] \in Call /\ \A j \in DOMAIN queue : ~(j < 1)
  BY DEF WalletInv, WalletTypeOK
<1> QED  BY <1>1 DEF QueueInv, InputsKnown, SpendCall

LEMMA AddKeeps ==
    ASSUME WalletInv, ChainPart', queue # << >>, queue' = Tail(queue), queue[1].do = "add",
           AddToWallet(queue[1].tx, queue[1].block), UNCHANGED vfSpent,
           UNCHANGED <<vars, reaccepted, history, crashes>>
    PROVE  WalletInv'
<1> DEFINE t == queue[1].tx
           b == queue[1].block
<1>0. /\ WalletTypeOK /\ KnownInv /\ MarkedInv /\ LagInv /\ UndisturbedInv
      /\ UNCHANGED <<txn, txdb, vfSpent, history, reaccepted>>
      /\ Mine \subseteq Outpoint /\ Creator \in [Outpoint -> Tx]
  BY WalletAssumption, TxAssumption DEF WalletInv, vars
<1>1. /\ t \in Tx /\ b \in Block \cup {NoBlock} /\ AddCall(1)
      /\ \A o \in Ins[t] \cap Mine : Creator[o] \in mapWallet
  BY FirstCall DEF Call
<1>2. \/ /\ mapWallet' = mapWallet \cup {t}
         /\ hashBlock' = [hashBlock EXCEPT ![t] = IF b = NoBlock THEN hashBlock[t] ELSE b]
      \/ UNCHANGED <<mapWallet, hashBlock>> /\ t \notin mapWallet /\ ~IsMine(t) /\ ~IsFromMe(t)
  BY DEF AddToWallet
<1>3. Involved(t) => t \in mapWallet'
  BY <1>1, <1>2 DEF Involved, IsFromMe
<1>4. mapWallet \subseteq mapWallet' /\ mapWallet' \subseteq mapWallet \cup {t}
  BY <1>2
<1>5. /\ QueueInv' /\ queue' \in Seq(Call)
      /\ \A do, u : Pending(do, u) =>
                 Pending(do, u)' \/ (do = "add" /\ u = t)
  BY <1>0, <1>3, <1>4, RestOfQueue
<1>6. b = txn.index.pos[t] /\ (b # NoBlock => t \in BlockTxs(b))
  BY <1>1 DEF AddCall
<1>7. \A u \in Tx : hashBlock'[u] = IF u = t /\ t \in mapWallet' /\ b # NoBlock THEN b ELSE hashBlock[u]
  BY <1>0, <1>1, <1>2 DEF WalletTypeOK
<1>8. WalletTypeOK'
  <2>1. hashBlock' \in [Tx -> Block \cup {NoBlock}]
    BY <1>0, <1>1, <1>2 DEF WalletTypeOK
  <2> QED  BY <1>0, <1>1, <1>4, <1>5, <1>6, <1>7, <2>1 DEF WalletTypeOK, Coins
<1>9. KnownInv'
  <2> SUFFICES ASSUME NEW u \in Tx, Involved(u)
               PROVE  /\ ContainsTx(txdb.index, u) => u \in mapWallet'
                      /\ ContainsTx(txn.index, u) => u \in mapWallet' \/ Pending("add", u)'
    BY <1>0 DEF KnownInv, Involved, IsMine
  <2> QED  BY <1>0, <1>3, <1>4, <1>5 DEF KnownInv
<1>10. MarkedInv' /\ LagInv'
  BY <1>0, <1>5 DEF MarkedInv, LagInv, CaughtUp
<1>11. UndisturbedInv'
  <2> SUFFICES ASSUME history = "undisturbed" PROVE StakeInv' /\ KeptInv' /\ PlaceInv'
    BY <1>0 DEF UndisturbedInv
  <2>0. StakeInv /\ KeptInv /\ PlaceInv
    BY <1>0 DEF UndisturbedInv
  <2>1. StakeInv'
    <3> SUFFICES ASSUME NEW o \in vfSpent
                 PROVE  \E u \in mapWallet' :
                           /\ o \in Ins[u]
                           /\ u \in Generated => ContainsTx(txn.index, u) \/ Pending("disable", u)'
      BY <1>0 DEF StakeInv
    <3>1. PICK u \in mapWallet : /\ o \in Ins[u]
                                 /\ u \in Generated => ContainsTx(txn.index, u) \/ Pending("disable", u)
      BY <2>0 DEF StakeInv
    <3> QED  BY <1>4, <1>5, <3>1
  <2>2. KeptInv'
    <3> SUFFICES ASSUME NEW u \in mapWallet' \ Generated, NEW o \in Ins[u] \cap Mine
                 PROVE  /\ Creator[o] \in mapWallet'
                        /\ (\A s \in Generated : o \notin Ins[s]) => o \in vfSpent \/ Pending("spend", u)'
      BY <1>0 DEF KeptInv
    <3>1. CASE u \in mapWallet
      BY <1>4, <1>5, <2>0, <3>1 DEF KeptInv
    <3>2. CASE u = t
      <4>1. Pending("spend", t)
        BY <1>1 DEF AddCall, Pending
      <4> QED  BY <1>1, <1>4, <1>5, <3>2, <4>1
    <3> QED  BY <1>4, <3>1, <3>2
  <2>3. PlaceInv'
    <3> SUFFICES ASSUME NEW u \in mapWallet', ContainsTx(txn.index, u)
                 PROVE  hashBlock'[u] = txn.index.pos[u] \/ Pending("add", u)'
      BY <1>0 DEF PlaceInv, Pending
    <3>1. CASE u = t
      BY <1>1, <1>6, <1>7, <3>1 DEF ContainsTx
    <3>2. CASE u # t
      <4>1. u \in mapWallet /\ u \in Tx /\ hashBlock'[u] = hashBlock[u]
        BY <1>0, <1>4, <1>7, <3>2 DEF WalletTypeOK
      <4>2. hashBlock[u] = txn.index.pos[u] \/ Pending("add", u)
        BY <2>0, <4>1 DEF PlaceInv, Pending
      <4> QED  BY <1>5, <3>2, <4>1, <4>2
    <3> QED  BY <3>1, <3>2
  <2> QED  BY <2>1, <2>2, <2>3
<1> QED  BY <1>5, <1>8, <1>9, <1>10, <1>11 DEF WalletInv

LEMMA SpendKeeps ==
    ASSUME WalletInv, ChainPart', queue # << >>, queue' = Tail(queue), queue[1].do = "spend",
           WalletUpdateSpent(queue[1].tx), UNCHANGED <<mapWallet, hashBlock>>,
           UNCHANGED <<vars, reaccepted, history, crashes>>
    PROVE  WalletInv'
<1> DEFINE t == queue[1].tx
<1>0. /\ WalletTypeOK /\ KnownInv /\ MarkedInv /\ LagInv /\ UndisturbedInv
      /\ UNCHANGED <<txn, txdb, mapWallet, hashBlock, history, reaccepted>>
      /\ Mine \subseteq Outpoint /\ SpendersIn(txn.index)
  BY WalletAssumption DEF WalletInv, vars, ChainPart, SpendersInv
<1>1. /\ \A o \in Ins[t] \cap Mine : Creator[o] \in mapWallet
      /\ t \in mapWallet \/ Ins[t] \cap Mine = {}
      /\ t \in Generated => ContainsTx(txn.index, t)
  BY FirstCall
<1>2. vfSpent' = vfSpent \cup (Ins[t] \cap Mine)
  BY <1>1 DEF WalletUpdateSpent, Coins
<1>3. /\ QueueInv' /\ queue' \in Seq(Call)
      /\ \A do, u : Pending(do, u) => Pending(do, u)' \/ (do = "spend" /\ u = t)
  BY <1>0, RestOfQueue
<1>4. WalletTypeOK'
  BY <1>0, <1>1, <1>2, <1>3 DEF WalletTypeOK, Coins
<1>5. KnownInv'
  BY <1>0, <1>3 DEF KnownInv, Involved, IsMine
<1>6. ASSUME NEW o \in Mine, txn.index.spent[o] # NoTx, Pending("spend", txn.index.spent[o])
      PROVE  o \in vfSpent' \/ Pending("spend", txn.index.spent[o])'
  BY <1>0, <1>2, <1>3, <1>6 DEF SpendersIn
<1>7. MarkedInv' /\ LagInv'
  BY <1>0, <1>2, <1>6 DEF MarkedInv, LagInv, CaughtUp
<1>8. UndisturbedInv'
  <2> SUFFICES ASSUME history = "undisturbed" PROVE StakeInv' /\ KeptInv' /\ PlaceInv'
    BY <1>0 DEF UndisturbedInv
  <2>0. StakeInv /\ KeptInv /\ PlaceInv
    BY <1>0 DEF UndisturbedInv
  <2>1. StakeInv'
    <3> SUFFICES ASSUME NEW o \in vfSpent'
                 PROVE  \E u \in mapWallet :
                           /\ o \in Ins[u]
                           /\ u \in Generated => ContainsTx(txn.index, u) \/ Pending("disable", u)'
      BY <1>0 DEF StakeInv
    <3>1. CASE o \in vfSpent
      <4>1. PICK u \in mapWallet : /\ o \in Ins[u]
                                   /\ u \in Generated => ContainsTx(txn.index, u) \/ Pending("disable", u)
        BY <2>0, <3>1 DEF StakeInv
      <4> QED  BY <1>3, <4>1
    <3>2. CASE o \in Ins[t] \cap Mine
      BY <1>1, <3>2
    <3> QED  BY <1>2, <3>1, <3>2
  <2>2. KeptInv'
    <3> SUFFICES ASSUME NEW u \in mapWallet \ Generated, NEW o \in Ins[u] \cap Mine
                 PROVE  /\ Creator[o] \in mapWallet
                        /\ (\A s \in Generated : o \notin Ins[s]) => o \in vfSpent' \/ Pending("spend", u)'
      BY <1>0 DEF KeptInv
    <3>1. /\ Creator[o] \in mapWallet
          /\ (\A s \in Generated : o \notin Ins[s]) => o \in vfSpent \/ Pending("spend", u)
      BY <2>0 DEF KeptInv
    <3> QED  BY <1>2, <1>3, <3>1
  <2>3. PlaceInv'
    <3> SUFFICES ASSUME NEW u \in mapWallet, ContainsTx(txn.index, u)
                 PROVE  hashBlock[u] = txn.index.pos[u] \/ Pending("add", u)'
      BY <1>0 DEF PlaceInv, Pending
    <3>1. hashBlock[u] = txn.index.pos[u] \/ Pending("add", u)
      BY <2>0 DEF PlaceInv, Pending
    <3> QED  BY <1>3, <3>1
  <2> QED  BY <2>1, <2>2, <2>3
<1> QED  BY <1>3, <1>4, <1>5, <1>7, <1>8 DEF WalletInv

\* What a coinstake spends is unspent in the index once it is disconnected.
LEMMA DisableKeeps ==
    ASSUME WalletInv, ChainPart', queue # << >>, queue' = Tail(queue), queue[1].do = "disable",
           DisableTransaction(queue[1].tx), UNCHANGED <<mapWallet, hashBlock>>,
           UNCHANGED <<vars, reaccepted, history, crashes>>
    PROVE  WalletInv'
<1> DEFINE t == queue[1].tx
<1>0. /\ WalletTypeOK /\ KnownInv /\ MarkedInv /\ LagInv /\ UndisturbedInv
      /\ UNCHANGED <<txn, txdb, mapWallet, hashBlock, history, reaccepted>>
      /\ vfSpent \subseteq Coins(mapWallet)
  BY DEF WalletInv, vars, WalletTypeOK
<1>1. \A o \in Ins[t] : txn.index.spent[o] = NoTx
  BY FirstCall
<1>2. /\ vfSpent' \subseteq vfSpent
      /\ \A o \in vfSpent : o \in vfSpent' <=> ~(t \in Generated /\ o \in Ins[t])
  <2>1. \A o \in vfSpent : o \in Ins[t] => IsFromMe(t)
    BY <1>0 DEF Coins, IsFromMe
  <2> QED  BY <2>1 DEF DisableTransaction
<1>3. /\ QueueInv' /\ queue' \in Seq(Call)
      /\ \A do, u : Pending(do, u) => Pending(do, u)' \/ (do = "disable" /\ u = t)
  BY <1>0, RestOfQueue
<1>4. WalletTypeOK'
  BY <1>0, <1>2, <1>3 DEF WalletTypeOK, Coins
<1>5. KnownInv'
  BY <1>0, <1>3 DEF KnownInv, Involved, IsMine
<1>6. MarkedInv'
  BY <1>0, <1>1, <1>2, <1>3 DEF MarkedInv, CaughtUp
<1>7. LagInv'
  BY <1>0, <1>2, <1>3 DEF LagInv
<1>8. UndisturbedInv'
  <2> SUFFICES ASSUME history = "undisturbed" PROVE StakeInv' /\ KeptInv' /\ PlaceInv'
    BY <1>0 DEF UndisturbedInv
  <2>0. StakeInv /\ KeptInv /\ PlaceInv
    BY <1>0 DEF UndisturbedInv
  <2>1. StakeInv'
    <3> SUFFICES ASSUME NEW o \in vfSpent'
                 PROVE  \E u \in mapWallet :
                           /\ o \in Ins[u]
                           /\ u \in Generated => ContainsTx(txn.index, u) \/ Pending("disable", u)'
      BY <1>0 DEF StakeInv
    <3>1. PICK u \in mapWallet : /\ o \in Ins[u]
                                 /\ u \in Generated => ContainsTx(txn.index, u) \/ Pending("disable", u)
      BY <1>2, <2>0 DEF StakeInv
    <3>2. u \in Generated => u # t
      BY <1>2, <3>1
    <3> QED  BY <1>3, <3>1, <3>2
  <2>2. KeptInv'
    <3> SUFFICES ASSUME NEW u \in mapWallet \ Generated, NEW o \in Ins[u] \cap Mine
                 PROVE  /\ Creator[o] \in mapWallet
                        /\ (\A s \in Generated : o \notin Ins[s]) => o \in vfSpent' \/ Pending("spend", u)'
      BY <1>0 DEF KeptInv
    <3>1. /\ Creator[o] \in mapWallet
          /\ (\A s \in Generated : o \notin Ins[s]) => o \in vfSpent \/ Pending("spend", u)
      BY <2>0 DEF KeptInv
    <3> QED  BY <1>2, <1>3, <3>1
  <2>3. PlaceInv'
    <3> SUFFICES ASSUME NEW u \in mapWallet, ContainsTx(txn.index, u)
                 PROVE  hashBlock[u] = txn.index.pos[u] \/ Pending("add", u)'
      BY <1>0 DEF PlaceInv, Pending
    <3>1. hashBlock[u] = txn.index.pos[u] \/ Pending("add", u)
      BY <2>0 DEF PlaceInv, Pending
    <3> QED  BY <1>3, <3>1
  <2> QED  BY <2>1, <2>2, <2>3
<1> QED  BY <1>3, <1>4, <1>5, <1>6, <1>7, <1>8 DEF WalletInv

\* A transaction that is in no block.
LEMMA TxKeeps ==
    ASSUME WalletInv, ChainPart', NEW t \in Tx, ReceiveTx(t) \/ CommitTransaction(t)
    PROVE  WalletInv'
<1>0. /\ WalletTypeOK /\ KnownInv /\ MarkedInv /\ LagInv /\ UndisturbedInv
      /\ call = "idle" /\ queue = << >> /\ t \notin Generated /\ t \notin mapWallet /\ Ins[t] # {}
      /\ queue' = TxCalls(t)
      /\ UNCHANGED <<txn, txdb, mapWallet, vfSpent, hashBlock, reaccepted, history>>
  BY DEF WalletInv, ReceiveTx, CommitTransaction, vars, walletvars
<1>1. (\A do, u : ~Pending(do, u)) /\ DOMAIN queue = {}
  <2>1. DOMAIN queue = {}
    BY <1>0
  <2> QED  BY <2>1 DEF Pending
<1>2. txn = txdb /\ Ins[t] \subseteq Outpoint /\ Creator \in [Outpoint -> Tx]
  BY <1>0, TxAssumption DEF WalletInv, ChainPart, IndexInv, OpenInv
<1>3. /\ ~ContainsTx(txn.index, t)
      /\ \A o \in Ins[t] \cap Mine : Creator[o] \in mapWallet
  <2>1. CASE ReceiveTx(t)
    <3>1. ~ContainsTx(txdb.index, t) /\ \A o \in Ins[t] : ContainsTx(txdb.index, Creator[o])
      BY <2>1 DEF ReceiveTx, Unspent
    <3>2. \A o \in Ins[t] \cap Mine : Involved(Creator[o]) /\ Creator[o] \in Tx
      BY <1>2 DEF Involved, IsMine
    <3> QED  BY <1>0, <1>2, <3>1, <3>2 DEF KnownInv
  <2>2. CASE CommitTransaction(t)
    <3>1. Ins[t] \subseteq Coins(mapWallet)
      BY <2>2 DEF CommitTransaction, AvailableCoins
    <3>2. Involved(t) /\ \A o \in Ins[t] : Creator[o] \in mapWallet
      BY <1>0, <3>1 DEF Coins, Involved
    <3> QED  BY <1>0, <1>2, <3>2 DEF KnownInv
  <2> QED  BY <2>1, <2>2
<1>4. /\ queue' \in Seq(Call) /\ DOMAIN queue' = {1, 2}
      /\ queue'[1].tx = t /\ queue'[1].block = NoBlock /\ queue'[1].do = "add"
      /\ queue'[2].tx = t /\ queue'[2].block = NoBlock /\ queue'[2].do = "spend"
  <2> DEFINE q == TxCalls(t)
  <2>1. /\ q \in Seq(Call) /\ DOMAIN q = {1, 2}
        /\ q[1] = [tx |-> t, block |-> NoBlock, do |-> "add"]
        /\ q[2] = [tx |-> t, block |-> NoBlock, do |-> "spend"]
    BY TxCallsFacts
  <2>2. queue' = q
    BY <1>0
  <2> HIDE DEF q
  <2>3. /\ q[1].tx = t /\ q[1].block = NoBlock /\ q[1].do = "add"
        /\ q[2].tx = t /\ q[2].block = NoBlock /\ q[2].do = "spend"
    BY <2>1
  <2> QED  BY <2>1, <2>2, <2>3
<1>5. WalletTypeOK'
  BY <1>0, <1>4 DEF WalletTypeOK, Coins
<1>6. QueueInv'
  <2>1. AddCall(1)'
    BY <1>0, <1>3, <1>4 DEF AddCall, ContainsTx
  <2>2. SpendCall(2)'
    BY <1>0, <1>4 DEF SpendCall
  <2>3. InputsKnown(1)' /\ InputsKnown(2)'
    BY <1>0, <1>3, <1>4 DEF InputsKnown
  <2> QED  BY <1>4, <2>1, <2>2, <2>3 DEF QueueInv
<1>7. KnownInv' /\ LagInv' /\ MarkedInv'
  BY <1>0, <1>1 DEF KnownInv, Involved, IsMine, LagInv, MarkedInv, CaughtUp
<1>8. UndisturbedInv'
  <2>1. UndisturbedInv => \/ history # "undisturbed"
                          \/ StakeInv' /\ KeptInv' /\ PlaceInv'
    BY <1>0, <1>1 DEF UndisturbedInv, StakeInv, KeptInv, PlaceInv
  <2> QED  BY <1>0, <2>1 DEF UndisturbedInv
<1> QED  BY <1>5, <1>6, <1>7, <1>8 DEF WalletInv

-----------------------------------------------------------------------------
(***************************************************************************)
(* The repairs, and a crash.                                               *)
(***************************************************************************)
\* What the index has spent was paid by a transaction that the wallet has.
LEMMA SpentIsKnown ==
    ASSUME WalletInv, NEW o \in Mine, txdb.index.spent[o] # NoTx
    PROVE  o \in Coins(mapWallet) /\ ContainsTx(txdb.index, Creator[o])
<1>1. o \in Outpoint /\ Creator[o] \in Tx /\ Involved(Creator[o])
  BY WalletAssumption, TxAssumption DEF Involved, IsMine
<1>2. ContainsTx(txdb.index, Creator[o])
  BY <1>1 DEF WalletInv, ChainPart, SpendersInv, SpendersIn
<1> QED  BY <1>1, <1>2 DEF WalletInv, KnownInv, Coins

LEMMA RepairKeeps ==
    ASSUME WalletInv, ChainPart', FixSpentCoins
    PROVE  WalletInv'
<1> DEFINE known == {o \in Coins(mapWallet) : ContainsTx(txdb.index, Creator[o])}
<1>0. /\ WalletTypeOK /\ KnownInv
      /\ queue = << >> /\ queue' = queue /\ txn = txdb /\ history' = "repaired"
      /\ vfSpent' = (vfSpent \ known) \cup {o \in known : txdb.index.spent[o] # NoTx}
      /\ UNCHANGED <<txn, txdb, mapWallet, hashBlock, reaccepted>>
  BY DEF WalletInv, FixSpentCoins, vars
<1>1. \A o \in Mine : txdb.index.spent[o] # NoTx => o \in vfSpent'
  BY <1>0, SpentIsKnown
<1>2. DOMAIN queue' = {}
  BY <1>0
<1>3. vfSpent' \subseteq Coins(mapWallet)
  BY <1>0 DEF WalletTypeOK
<1>4. WalletTypeOK'
  BY <1>0, <1>3 DEF WalletTypeOK, Coins
<1>5. QueueInv'
  BY <1>2 DEF QueueInv
<1>6. KnownInv'
  BY <1>0 DEF KnownInv, Involved, IsMine, Pending
<1>7. MarkedInv' /\ LagInv'
  BY <1>0, <1>1 DEF MarkedInv, LagInv
<1>8. UndisturbedInv'
  BY <1>0 DEF UndisturbedInv
<1> QED  BY <1>4, <1>5, <1>6, <1>7, <1>8 DEF WalletInv

LEMMA ReacceptKeeps ==
    ASSUME WalletInv, ChainPart', Reaccept
    PROVE  WalletInv'
<1> DEFINE found == {o \in Coins(mapWallet) \ vfSpent :
                       /\ ContainsTx(txdb.index, Creator[o])
                       /\ txdb.index.spent[o] # NoTx
                       /\ Creator[o] \in Generated =>
                             \A p \in FirstOut \cap vfSpent : Creator[p] # Creator[o]}
           new == {t \in ScannedTxs \ mapWallet : IsMine(t) \/ IsFromMe(t)}
           all == mapWallet \cup new
           Scanned(b) == \A a \in Ancestors[b] \ {Genesis} : pnext[Parent[a]] = a
<1>0. /\ WalletTypeOK /\ KnownInv /\ MarkedInv /\ LagInv
      /\ ~reaccepted /\ history # "undisturbed" /\ DOMAIN queue = {} /\ txn = txdb
      /\ UNCHANGED <<txn, txdb, queue, history>>
      /\ mapBlockIndex \subseteq Block
  BY DEF WalletInv, WalletTypeOK, Reaccept, vars, ChainPart, IndexInv, ChainInv, TypeInv, TypeOK
<1>1. \/ found = {} /\ reaccepted' = TRUE /\ UNCHANGED walletvars
      \/ /\ mapWallet' = all
         /\ vfSpent' = vfSpent \cup found \cup
                     {o \in Coins(all) : \E t \in ScannedTxs \ mapWallet : o \in Ins[t]}
         /\ hashBlock' = [t \in Tx |-> IF t \in new
                                       THEN CHOOSE b \in mapBlockIndex : t \in BlockTxs(b) /\ Scanned(b)
                                       ELSE hashBlock[t]]
         /\ reaccepted' = (new = {})
  BY DEF Reaccept
<1>2. \A t \in new : \E b \in mapBlockIndex : t \in BlockTxs(b) /\ Scanned(b)
  BY TreeAssumption DEF ScannedTxs
<1>3. new \subseteq Tx /\ \A b \in Block : BlockTxs(b) \subseteq Tx
  BY <1>0, <1>2, TxTypes
<1>4. mapWallet \subseteq mapWallet' /\ mapWallet' \subseteq Tx
  BY <1>0, <1>1, <1>3 DEF WalletTypeOK, walletvars
<1>5. vfSpent \subseteq vfSpent' /\ found \subseteq vfSpent' /\ vfSpent' \subseteq Coins(mapWallet')
  <2>1. found \subseteq Coins(mapWallet) /\ vfSpent \subseteq Coins(mapWallet)
    BY <1>0 DEF WalletTypeOK
  <2> DEFINE seen == {o \in Coins(all) : \E t \in ScannedTxs \ mapWallet : o \in Ins[t]}
  <2> HIDE DEF found, new, seen
  <2>2. CASE found = {} /\ UNCHANGED walletvars
    BY <2>1, <2>2 DEF walletvars
  <2>3. CASE mapWallet' = all /\ vfSpent' = vfSpent \cup found \cup seen
    <3>1. seen \subseteq Coins(all)
      BY DEF seen
    <3> QED  BY <2>1, <2>3, <3>1 DEF Coins
  <2> QED  BY <1>1, <2>2, <2>3 DEF seen
<1>6. /\ hashBlock' \in [Tx -> Block \cup {NoBlock}]
      /\ \A t \in Tx : hashBlock'[t] # NoBlock => t \in BlockTxs(hashBlock'[t])
  <2>1. CASE UNCHANGED walletvars
    BY <1>0, <2>1 DEF WalletTypeOK, walletvars
  <2>2. CASE hashBlock' = [t \in Tx |-> IF t \in new
                                        THEN CHOOSE b \in mapBlockIndex : t \in BlockTxs(b) /\ Scanned(b)
                                        ELSE hashBlock[t]]
    <3> HIDE DEF new, Scanned
    <3>1. \A t \in new : /\ (CHOOSE b \in mapBlockIndex : t \in BlockTxs(b) /\ Scanned(b)) \in Block
                         /\ t \in BlockTxs(CHOOSE b \in mapBlockIndex : t \in BlockTxs(b) /\ Scanned(b))
      BY <1>0, <1>2
    <3> QED  BY <1>0, <2>2, <3>1 DEF WalletTypeOK
  <2> QED  BY <1>1, <2>1, <2>2
<1>7. WalletTypeOK'
  <2>1. reaccepted' \in BOOLEAN
    BY <1>1
  <2> QED  BY <1>0, <1>4, <1>5, <1>6, <2>1 DEF WalletTypeOK, Coins
<1>8. QueueInv'
  BY <1>0 DEF QueueInv
<1>9. KnownInv'
  BY <1>0, <1>4 DEF KnownInv, Involved, IsMine, Pending
<1>10. LagInv'
  BY <1>0, <1>5 DEF LagInv, Pending
<1>11. MarkedInv'
  <2> SUFFICES ASSUME CaughtUp', NEW o \in Mine, txdb.index.spent[o] # NoTx
               PROVE  o \in vfSpent'
    BY <1>0 DEF MarkedInv
  <2>1. CASE history = "repaired"
    BY <1>0, <1>5, <2>1 DEF MarkedInv, CaughtUp, Pending
  <2>2. CASE FirstOutputsStake
    <3>1. o \in Coins(mapWallet) /\ ContainsTx(txdb.index, Creator[o])
      BY SpentIsKnown DEF WalletInv
    <3>2. ASSUME o \notin vfSpent PROVE o \in found
      <4>1. \E s \in Generated : o \in Ins[s]
        BY <1>0, <3>2 DEF LagInv
      <4> QED  BY <2>2, <3>1, <3>2, <4>1 DEF FirstOutputsStake
    <3> QED  BY <1>5, <3>2
  <2> QED  BY <1>0, <2>1, <2>2 DEF CaughtUp, FirstOutputsStake
<1>12. UndisturbedInv'
  BY <1>0 DEF UndisturbedInv
<1> QED  BY <1>7, <1>8, <1>9, <1>10, <1>11, <1>12 DEF WalletInv

LEMMA CrashKeeps ==
    ASSUME WalletInv, ChainPart', Crash
    PROVE  WalletInv'
<1>0. /\ WalletTypeOK /\ KnownInv /\ LagInv
      /\ queue' = << >> /\ txn' = txdb /\ txdb' = txdb
      /\ reaccepted' = FALSE /\ history' = "crashed"
      /\ UNCHANGED <<mapWallet, vfSpent, hashBlock>>
  BY DEF WalletInv, Crash, CrashAndLoadBlockIndex, Return, walletvars
<1>1. DOMAIN queue' = {} /\ queue' \in Seq(Call)
  BY <1>0
<1>2. WalletTypeOK'
  BY <1>0, <1>1 DEF WalletTypeOK, Coins
<1>3. QueueInv' /\ MarkedInv' /\ UndisturbedInv'
  BY <1>0, <1>1 DEF QueueInv, MarkedInv, CaughtUp, UndisturbedInv
<1>4. KnownInv' /\ LagInv'
  BY <1>0 DEF KnownInv, LagInv, Involved, IsMine
<1> QED  BY <1>2, <1>3, <1>4 DEF WalletInv

-----------------------------------------------------------------------------
(***************************************************************************)
(* The invariant of the wallet.                                            *)
(***************************************************************************)
\* Every step of the node is a step of the chain, or leaves it alone.
LEMMA ChainSteps ==
    ASSUME ChainPart, [WalletNext]_allvars
    PROVE  /\ [CrashNext]_vars
           /\ history' = "undisturbed" => history = "undisturbed" /\ [SteadyNext]_vars
<1>1. CASE ChainStep
  <2>1. [SteadyNext]_vars
    BY <1>1 DEF ChainStep, SteadyNext, Connecting
  <2>2. history' = "undisturbed" => history = "undisturbed"
    BY <1>1 DEF ChainStep
  <2> QED  BY <2>1, <2>2 DEF CrashNext
<1>2. CASE Crash
  BY <1>2 DEF Crash, CrashNext
<1>3. CASE SyncWithWallets \/ FixSpentCoins \/ Reaccept \/ UNCHANGED allvars
           \/ \E t \in Tx : ReceiveTx(t) \/ CommitTransaction(t)
  <2>1. UNCHANGED vars /\ (history' = "undisturbed" => history = "undisturbed")
    BY <1>3 DEF SyncWithWallets, FixSpentCoins, Reaccept, ReceiveTx, CommitTransaction, allvars
  <2> QED  BY <2>1
<1> QED  BY <1>1, <1>2, <1>3 DEF WalletNext, WalletSteps

LEMMA WalletStart == WalletInit => WalletInv
<1> SUFFICES ASSUME WalletInit PROVE WalletInv
  OBVIOUS
<1>1. /\ Init /\ mapWallet = {} /\ vfSpent = {} /\ hashBlock = [t \in Tx |-> NoBlock]
      /\ queue = << >> /\ reaccepted = TRUE /\ history = "undisturbed"
  BY DEF WalletInit
<1>2. /\ IndexInv /\ txn = txdb /\ txdb.index = EmptyIndex
  BY <1>1, InitIndex DEF Init
<1>3. /\ \A o \in Outpoint : txdb.index.spent[o] = NoTx
      /\ \A t \in Tx : ~ContainsTx(txdb.index, t)
  BY <1>2 DEF EmptyIndex, ContainsTx
<1>4. ChainPart
  BY <1>2, <1>3 DEF ChainPart, SpendersInv, SpendersIn
<1>5. WalletTypeOK
  BY <1>1 DEF WalletTypeOK
<1>6. DOMAIN queue = {} /\ Mine \subseteq Outpoint
  BY <1>1, WalletAssumption
<1>7. QueueInv /\ KnownInv /\ MarkedInv /\ LagInv
  BY <1>2, <1>3, <1>6 DEF QueueInv, KnownInv, MarkedInv, LagInv
<1>8. UndisturbedInv
  BY <1>1 DEF UndisturbedInv, StakeInv, KeptInv, PlaceInv
<1> QED  BY <1>4, <1>5, <1>7, <1>8 DEF WalletInv

LEMMA WalletKept == WalletInv /\ [WalletNext]_allvars => WalletInv'
<1> SUFFICES ASSUME WalletInv, [WalletNext]_allvars PROVE WalletInv'
  OBVIOUS
<1>1. ChainPart /\ ChainPart'
  BY ChainSteps, ChainPartKept DEF WalletInv
<1>2. CASE SyncWithWallets
  <2>1. /\ queue # << >> /\ queue' = Tail(queue) /\ Head(queue) = queue[1]
        /\ queue[1].do \in {"add", "spend", "disable"}
        /\ UNCHANGED <<vars, reaccepted, history, crashes>>
    BY <1>2, FirstCall DEF SyncWithWallets, Call
  <2>2. /\ queue[1].do = "add" => AddToWallet(queue[1].tx, queue[1].block) /\ UNCHANGED vfSpent
        /\ queue[1].do = "spend" => WalletUpdateSpent(queue[1].tx) /\ UNCHANGED <<mapWallet, hashBlock>>
        /\ queue[1].do = "disable" => DisableTransaction(queue[1].tx) /\ UNCHANGED <<mapWallet, hashBlock>>
    BY <1>2, <2>1 DEF SyncWithWallets
  <2> QED  BY <1>1, <2>1, <2>2, AddKeeps, SpendKeeps, DisableKeeps
<1>3. CASE ChainStep
  BY <1>1, <1>3, ChainEffects, StaysKeeps, LeavesKeeps, JoinsKeeps
<1>4. CASE \E t \in Tx : ReceiveTx(t) \/ CommitTransaction(t)
  BY <1>1, <1>4, TxKeeps
<1>5. CASE FixSpentCoins \/ Reaccept \/ Crash
  BY <1>1, <1>5, RepairKeeps, ReacceptKeeps, CrashKeeps
<1>6. CASE UNCHANGED allvars
  BY <1>1, <1>6 DEF allvars, walletvars, vars, WalletInv, WalletTypeOK, QueueInv, AddCall, SpendCall,
     InputsKnown, KnownInv, MarkedInv, LagInv, UndisturbedInv, StakeInv, KeptInv, PlaceInv, Pending,
     Involved, IsMine, Coins, CaughtUp
<1> QED  BY <1>2, <1>3, <1>4, <1>5, <1>6 DEF WalletNext, WalletSteps

\* Until something disturbs it, the chain is the one of a steady node.
SteadyPart == history = "undisturbed" => LinksInv

LEMMA SteadyPartKept ==
    ASSUME SteadyPart, ChainPart, [WalletNext]_allvars
    PROVE  SteadyPart'
<1> SUFFICES ASSUME history' = "undisturbed" PROVE LinksInv'
  BY DEF SteadyPart
<1>1. LinksInv /\ AbstractInv /\ [SteadyNext]_vars
  BY ChainSteps DEF SteadyPart, LinksInv
<1>2. AbstractInv'
  <2>1. SteadyInv' /\ Stored'
    BY <1>1, SteadyNextKeeps, NextStored DEF AbstractInv, SteadyInv, CrashNext
  <2>2. rule' = rule
    BY <1>1 DEF SteadyNext, Connecting, AddToBlockIndex, SetBestChain, DisconnectBlock,
           DisconnectedAll, ReconnectBlock, ReorganizeFails, ReorganizeCommits, SetBestChainInner,
           SetBestChainInnerCommits, AppendFails, SecondaryFails, NewBestBlock, vars
  <2> QED  BY <1>1, <2>1, <2>2 DEF AbstractInv
<1> QED  BY <1>1, <1>2, LinksKept

LEMMA WalletInvariant == WalletSpec => [](WalletInv /\ SteadyPart)
<1>1. WalletInit => WalletInv /\ SteadyPart
  BY WalletStart, InitLinks DEF WalletInit, SteadyPart
<1>2. WalletInv /\ SteadyPart /\ [WalletNext]_allvars => WalletInv' /\ SteadyPart'
  BY WalletKept, SteadyPartKept DEF WalletInv
<1> QED  BY <1>1, <1>2, PTL DEF WalletSpec

-----------------------------------------------------------------------------
(***************************************************************************)
(* The theorems.                                                           *)
(***************************************************************************)
LEMMA AtRest ==
    ASSUME WalletInv, Settled
    PROVE  /\ txn = txdb /\ \A do, t : ~Pending(do, t)
           /\ txdb.index \in TxIndex /\ txdb.best \in Block
           /\ Mine \subseteq Outpoint /\ mapWallet \subseteq Tx /\ mapBlockIndex \subseteq Block
<1>1. DOMAIN queue = {} /\ call = "idle"
  BY DEF Settled
<1> QED  BY <1>1, WalletAssumption
         DEF Pending, WalletInv, WalletTypeOK, ChainPart, IndexInv, OpenInv, ChainInv, TypeInv, TypeOK

\* Where the committed index is that of the best chain, which a steady node
\* always has, the wallet has every transaction of the best chain that pays it
\* or spends from it (AddToWalletIfInvolvingMe, called by ConnectBlock before
\* the reorganization is committed, and ReacceptWalletTransactions).
THEOREM WalletKnows == WalletSpec => [](LedgerIsOfBestChain => WalletKnowsChain)
<1>1. WalletInv /\ LedgerIsOfBestChain => WalletKnowsChain
  <2> SUFFICES ASSUME WalletInv, LedgerIsOfBestChain, Settled,
                      NEW t \in ChainTxs(txdb.best), IsMine(t) \/ IsFromMe(t)
               PROVE  t \in mapWallet
    BY DEF WalletKnowsChain
  <2>1. t \in Tx
    BY AtRest, TreeAssumption, TxTypes DEF ChainTxs
  <2>2. ContainsTx(txdb.index, t)
    BY <2>1, AtRest, IndexHas DEF LedgerIsOfBestChain
  <2>3. Involved(t)
    BY DEF Involved, IsFromMe
  <2> QED  BY <2>1, <2>2, <2>3 DEF WalletInv, KnownInv
<1> QED  BY <1>1, WalletInvariant, PTL

\* No coin that the best chain has spent passes for unspent in the wallet, but
\* after a refused reorganization: the flags are set before the transaction
\* index is committed, and the index is compared with them after a crash.
\* After a crash this needs every coin of the wallet that is staked to be the
\* first output of what paid it, if that was generated:
\* ReacceptWalletTransactions passes over a generated transaction whose first
\* output is spent.
THEOREM SpentAreMarked ==
    WalletSpec => [](history # "crashed" \/ FirstOutputsStake => SpentCoinsAreMarked)
<1>1. WalletInv => (history # "crashed" \/ FirstOutputsStake => SpentCoinsAreMarked)
  <2> SUFFICES ASSUME WalletInv, history # "crashed" \/ FirstOutputsStake,
                      Settled, history # "refused",
                      NEW o \in Coins(mapWallet), txdb.index.spent[o] # NoTx
               PROVE  o \in vfSpent
    BY DEF SpentCoinsAreMarked
  <2>1. CaughtUp
    BY DEF CaughtUp, Settled, WalletInv, WalletTypeOK
  <2>2. o \in Mine
    BY DEF Coins
  <2> QED  BY <2>1, <2>2, AtRest DEF WalletInv, MarkedInv
<1> QED  BY <1>1, WalletInvariant, PTL

\* What holds of a node that nothing has disturbed, at rest.
LEMMA UndisturbedAtRest ==
    ASSUME WalletInv, SteadyPart, Settled, history = "undisturbed"
    PROVE  /\ IndexOf(txdb.index, txdb.best) /\ pindexBest = txdb.best
           /\ LinksTo(pnext, txdb.best) /\ Ancestors[txdb.best] \subseteq mapBlockIndex
           /\ \A t \in Tx : ContainsTx(txdb.index, t) <=> t \in ChainTxs(txdb.best)
           /\ \A t \in mapWallet : ContainsTx(txdb.index, t) => hashBlock[t] = txdb.index.pos[t]
           /\ \A o \in Mine : txdb.index.spent[o] # NoTx => o \in vfSpent
           /\ \A o \in vfSpent : \E t \in mapWallet :
                 o \in Ins[t] /\ (t \in Generated => t \in ChainTxs(txdb.best))
           /\ \A t \in mapWallet \ Generated : \A o \in Ins[t] \cap Mine :
                 (\A s \in Generated : o \notin Ins[s]) => o \in vfSpent
<1>0. /\ txn = txdb /\ (\A do, t : ~Pending(do, t)) /\ mapWallet \subseteq Tx
      /\ txdb.index \in TxIndex /\ txdb.best \in Block
      /\ call = "idle" /\ DOMAIN queue = {}
  BY AtRest DEF Settled
<1>1. LinksInv /\ SteadyInv /\ Stored
  BY DEF SteadyPart, LinksInv, AbstractInv
<1>2. /\ IndexOf(txdb.index, txdb.best) /\ pindexBest = txdb.best
      /\ LinksTo(pnext, txdb.best) /\ Ancestors[txdb.best] \subseteq mapBlockIndex
  BY <1>0, <1>1 DEF LinksInv, SteadyInv, Stored
<1>3. \A t \in Tx : ContainsTx(txdb.index, t) <=> t \in ChainTxs(txdb.best)
  BY <1>0, <1>2, IndexHas
<1>4. StakeInv /\ KeptInv /\ PlaceInv /\ MarkedInv /\ CaughtUp
  BY DEF WalletInv, UndisturbedInv, CaughtUp
<1>5. \A o \in vfSpent : \E t \in mapWallet :
                 o \in Ins[t] /\ (t \in Generated => t \in ChainTxs(txdb.best))
  <2> TAKE o \in vfSpent
  <2>1. PICK t \in mapWallet : o \in Ins[t] /\ (t \in Generated => ContainsTx(txdb.index, t))
    BY <1>0, <1>4 DEF StakeInv
  <2> QED  BY <1>0, <1>3, <2>1
<1>6. /\ \A t \in mapWallet : ContainsTx(txdb.index, t) => hashBlock[t] = txdb.index.pos[t]
      /\ \A o \in Mine : txdb.index.spent[o] # NoTx => o \in vfSpent
      /\ \A t \in mapWallet \ Generated : \A o \in Ins[t] \cap Mine :
            (\A s \in Generated : o \notin Ins[s]) => o \in vfSpent
  BY <1>0, <1>4 DEF PlaceInv, MarkedInv, KeptInv
<1> QED  BY <1>2, <1>3, <1>5, <1>6

\* Coins staked on a branch that was left are spendable again, those that the
\* wallet spent itself stay spent, in a node that no crash and no refusal
\* disturbed: DisableTransaction unmarks what a coinstake spends only, and
\* whatever spends it on the branch joined is connected, and marked, later.
THEOREM StakedCoinsReturn == WalletSpec => []OnlyStakedCoinsReturn
<1>1. WalletInv /\ SteadyPart => OnlyStakedCoinsReturn
  BY UndisturbedAtRest DEF OnlyStakedCoinsReturn, Coins
<1> QED  BY <1>1, WalletInvariant, PTL

\* The coins offered are unspent and mature on the best chain, and those not
\* offered are spent by a transaction of the wallet: pnext, hashBlock and the
\* spent flags, which AvailableCoins goes by, agree with the index.
THEOREM OffersItsCoins == WalletSpec => []WalletOffersItsCoins
<1>1. WalletInv /\ SteadyPart => WalletOffersItsCoins
  <2> SUFFICES ASSUME WalletInv, SteadyPart, Settled, history = "undisturbed"
               PROVE  /\ AvailableCoins \subseteq SpendableCoins
                      /\ \A o \in SpendableCoins \ AvailableCoins :
                            \E t \in mapWallet \ Generated : o \in Ins[t]
    BY DEF WalletOffersItsCoins
  <2>0. /\ txdb.index \in TxIndex /\ txdb.best \in Block /\ Mine \subseteq Outpoint
        /\ mapWallet \subseteq Tx /\ mapBlockIndex \subseteq Block /\ pindexBest = txdb.best
        /\ \A t \in Tx : hashBlock[t] # NoBlock => t \in BlockTxs(hashBlock[t])
        /\ \A o \in Outpoint : Creator[o] \in Tx
        /\ Ancestors[txdb.best] \subseteq Block /\ NoBlock \notin Block
    BY AtRest, UndisturbedAtRest, TxAssumption, TreeAssumption DEF WalletInv, WalletTypeOK
  <2>1. \A b \in Block : InMainChain(b) <=> b \in Ancestors[txdb.best]
    <3>1. txdb.best \in Ancestors[txdb.best]
      BY <2>0, SelfAncestor
    <3> QED  BY <2>0, <3>1, UndisturbedAtRest DEF InMainChain, LinksTo
  <2>2. ASSUME NEW t \in mapWallet, hashBlock[t] # NoBlock, InMainChain(hashBlock[t])
        PROVE  ContainsTx(txdb.index, t) /\ txdb.index.pos[t] = hashBlock[t]
    <3>1. t \in BlockTxs(hashBlock[t]) /\ hashBlock[t] \in Block
      BY <2>0, <2>2 DEF InMainChain
    <3>2. t \in ChainTxs(txdb.best)
      BY <2>1, <2>2, <3>1 DEF ChainTxs
    <3> QED  BY <2>0, <3>2, UndisturbedAtRest
  <2>3. ASSUME NEW o \in Coins(mapWallet), ContainsTx(txdb.index, Creator[o])
        PROVE  LET h == hashBlock[Creator[o]] IN
               /\ h = txdb.index.pos[Creator[o]] /\ h # NoBlock /\ InMainChain(h)
               /\ GetDepthInMainChain(Creator[o]) = Height[txdb.best] - Height[h] + 1
               /\ GetDepthInMainChain(Creator[o]) >= 1
    <3> DEFINE t == Creator[o]
               h == hashBlock[t]
    <3>1. t \in mapWallet /\ t \in Tx
      BY <2>0 DEF Coins
    <3>2. h = txdb.index.pos[t] /\ h # NoBlock
      BY <2>3, <3>1, UndisturbedAtRest DEF ContainsTx
    <3>3. h \in Ancestors[txdb.best]
      <4>1. IndexOf(txdb.index, txdb.best)
        BY UndisturbedAtRest
      <4>2. h \in Block
        BY <2>0, <3>1, <3>2 DEF TxIndex
      <4> QED  BY <3>1, <3>2, <4>1, <4>2 DEF IndexOf
    <3>4. InMainChain(h)
      BY <2>0, <2>1, <3>3
    <3>5. GetDepthInMainChain(t) = Height[txdb.best] - Height[h] + 1
      BY <2>0, <3>2, <3>4 DEF GetDepthInMainChain
    <3>6. Height[h] <= Height[txdb.best] /\ Height[h] \in Nat /\ Height[txdb.best] \in Nat
      BY <2>0, <3>3, TreeAssumption
    <3>7. GetDepthInMainChain(t) >= 1
      BY <3>5, <3>6
    <3> QED  BY <3>2, <3>4, <3>5, <3>7
  <2>4. ASSUME NEW o \in AvailableCoins PROVE o \in SpendableCoins
    <3>1. /\ o \in Coins(mapWallet) /\ o \notin vfSpent /\ o \in Mine /\ Creator[o] \in mapWallet
          /\ GetDepthInMainChain(Creator[o]) >= 1
          /\ Creator[o] \in Generated => GetDepthInMainChain(Creator[o]) >= WalletMaturity
      BY <2>4 DEF AvailableCoins, Coins
    <3>2. ContainsTx(txdb.index, Creator[o])
      BY <2>2, <3>1 DEF GetDepthInMainChain
    <3>3. txdb.index.spent[o] = NoTx
      BY <3>1, UndisturbedAtRest
    <3>4. GetDepthInMainChain(Creator[o])
             = Height[txdb.best] - Height[txdb.index.pos[Creator[o]]] + 1
      BY <2>3, <3>1, <3>2
    <3> QED  BY <3>1, <3>2, <3>3, <3>4 DEF SpendableCoins, Unspent
  <2>5. ASSUME NEW o \in SpendableCoins \ AvailableCoins
        PROVE  \E t \in mapWallet \ Generated : o \in Ins[t]
    <3>1. /\ o \in Mine /\ ContainsTx(txdb.index, Creator[o]) /\ txdb.index.spent[o] = NoTx
          /\ Creator[o] \in Generated =>
                Height[txdb.best] - Height[txdb.index.pos[Creator[o]]] + 1 >= WalletMaturity
      BY <2>5 DEF SpendableCoins, Unspent
    <3>2. o \in Coins(mapWallet)
      <4>1. Creator[o] \in Tx /\ Involved(Creator[o])
        BY <2>0, <3>1 DEF Involved, IsMine
      <4> QED  BY <3>1, <4>1 DEF WalletInv, KnownInv, Coins
    <3>3. o \in vfSpent
      BY <2>3, <2>5, <3>1, <3>2 DEF AvailableCoins
    <3>4. PICK t \in mapWallet : o \in Ins[t] /\ (t \in Generated => t \in ChainTxs(txdb.best))
      BY <3>3, UndisturbedAtRest
    <3>5. t \notin Generated
      BY <2>0, <3>1, <3>4, UndisturbedAtRest, IndexSpent
    <3> QED  BY <3>4, <3>5
  <2> QED  BY <2>4, <2>5
<1> QED  BY <1>1, WalletInvariant, PTL
=============================================================================
