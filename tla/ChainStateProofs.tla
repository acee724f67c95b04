-------------------------- MODULE ChainStateProofs --------------------------
(***************************************************************************)
(* Theorems about Ledger and ChainState, for every block tree and every    *)
(* set of transactions that meet the assumptions of Ledger.                *)
(***************************************************************************)
EXTENDS ChainState, FiniteSetTheorems, NaturalsInduction, WellFoundedInduction, TLAPS

\* Every non-empty set of naturals has a least member, which the provers do not
\* know of: from the well-foundedness of < on them.
LEMMA LeastNatural ==
    ASSUME NEW T \in SUBSET Nat, T # {}
    PROVE  \E m \in T : \A n \in T : m <= n
<1> DEFINE R == OpToRel(<, Nat)
<1>1. \A x, y \in Nat : y < x => <<y, x>> \in R
  BY DEF OpToRel
<1>2. PICK m \in T : \A n \in T : <<n, m>> \notin R
  <2> HIDE DEF R
  <2> QED  BY NatLessThanWellFounded, WFMin DEF R
<1> HIDE DEF R
<1>3. \A n \in T : ~(n < m)
  BY <1>1, <1>2
<1> QED  BY <1>3

-----------------------------------------------------------------------------
(* The tree: what follows from TreeAssumption.                              *)

\* A block is among its own ancestors, and so is its parent.
LEMMA SelfAncestor ==
    ASSUME NEW b \in Block
    PROVE  /\ b \in Ancestors[b]
           /\ b # Genesis => Parent[b] \in Ancestors[b]
<1>1. ASSUME NEW c \in Block PROVE c \in Ancestors[c]
  BY <1>1, TreeAssumption
<1>2. CASE b = Genesis  BY <1>1, <1>2
<1>3. CASE b # Genesis
  <2>1. Parent[b] \in Block /\ Ancestors[b] = {b} \cup Ancestors[Parent[b]]
    BY <1>3, TreeAssumption
  <2> QED  BY <2>1, <1>1
<1> QED  BY <1>2, <1>3

\* The first block is under every block.
LEMMA GenesisUnderAll ==
    ASSUME NEW b \in Block
    PROVE  Genesis \in Ancestors[b]
<1> DEFINE H == {Height[a] : a \in Ancestors[b]}
<1>1. Ancestors[b] \in SUBSET Block /\ b \in Ancestors[b]
  BY SelfAncestor, TreeAssumption
<1>2. H \in SUBSET Nat /\ H # {}
  BY <1>1, TreeAssumption
<1>3. PICK m \in H : \A n \in H : m <= n
  BY <1>2, LeastNatural
<1>4. PICK a \in Ancestors[b] : m = Height[a]
  BY <1>3
<1>5. ASSUME a # Genesis PROVE FALSE
  <2>1. /\ Parent[a] \in Block
        /\ Height[a] = Height[Parent[a]] + 1
    BY <1>1, <1>5, TreeAssumption
  <2>2. Parent[a] \in Ancestors[a] /\ Ancestors[a] \subseteq Ancestors[b]
    BY <1>1, <1>5, SelfAncestor, TreeAssumption
  <2>3. Height[Parent[a]] \in H
    BY <2>2
  <2>4. Height[Parent[a]] \in Nat /\ Height[a] \in Nat
    BY <2>1, <1>1, TreeAssumption
  <2> QED  BY <2>1, <2>3, <2>4, <1>3, <1>4
<1> QED  BY <1>4, <1>5

\* Two chains have a last common block.
LEMMA ForkExists ==
    ASSUME NEW b \in Block, NEW c \in Block
    PROVE  \E f \in Ancestors[b] \cap Ancestors[c] :
              \A a \in Ancestors[b] \cap Ancestors[c] : a \in Ancestors[f]
<1> DEFINE Common == Ancestors[b] \cap Ancestors[c]
           Depth == {Height[b] - Height[a] : a \in Common}
<1>1. Common \subseteq Block /\ Genesis \in Common
  BY GenesisUnderAll, TreeAssumption
<1>2. \A a \in Common : Height[b] - Height[a] \in Nat
  BY <1>1, TreeAssumption
<1>3. Depth \in SUBSET Nat /\ Depth # {}
  BY <1>1, <1>2
<1>4. PICK m \in Depth : \A n \in Depth : m <= n
  BY <1>3, LeastNatural
<1>5. PICK f \in Common : m = Height[b] - Height[f]
  BY <1>4
<1>6. ASSUME NEW a \in Common, a \notin Ancestors[f] PROVE FALSE
  <2>1. f \in Ancestors[a] /\ f # a
    BY <1>5, <1>6, <1>1, TreeAssumption, SelfAncestor
  <2>2. Height[f] < Height[a]
    BY <2>1, <1>1, TreeAssumption
  <2>3. Height[b] - Height[a] \in Depth
    OBVIOUS
  <2>4. Height[f] \in Nat /\ Height[a] \in Nat /\ Height[b] \in Nat
    BY <1>1, TreeAssumption
  <2>5. m <= Height[b] - Height[a]
    BY <2>3, <1>4
  <2> QED  BY <2>2, <2>4, <2>5, <1>5
<1> QED  BY <1>5, <1>6

\* The walk down from b that stops above trust k finds where to stop: a block
\* whose parent has no more than k, with every block above it over k.
LEMMA WalkStops ==
    ASSUME NEW b \in Block, NEW k \in Nat
    PROVE  \E i \in Ancestors[b] :
              /\ i = Genesis \/ Trust[Parent[i]] <= k
              /\ \A a \in Ancestors[b] : a \notin Ancestors[i] => Trust[Parent[a]] > k
<1> DEFINE Stops == {a \in Ancestors[b] : a = Genesis \/ Trust[Parent[a]] <= k}
           Depth == {Height[b] - Height[a] : a \in Stops}
<1>1. Stops \subseteq Block /\ Genesis \in Stops
  BY GenesisUnderAll, TreeAssumption
<1>2. \A a \in Stops : Height[b] - Height[a] \in Nat
  BY <1>1, TreeAssumption
<1>3. Depth \in SUBSET Nat /\ Depth # {}
  BY <1>1, <1>2
<1>4. PICK m \in Depth : \A n \in Depth : m <= n
  BY <1>3, LeastNatural
<1>5. PICK i \in Stops : m = Height[b] - Height[i]
  BY <1>4
<1>6. ASSUME NEW a \in Ancestors[b], a \notin Ancestors[i] PROVE Trust[Parent[a]] > k
  <2>1. a \in Block /\ i \in Block /\ a # Genesis
    BY <1>1, <1>5, <1>6, GenesisUnderAll, TreeAssumption
  <2>2. i \in Ancestors[a] /\ i # a
    BY <2>1, <1>5, <1>6, TreeAssumption, SelfAncestor
  <2>3. Height[i] < Height[a]
    BY <2>1, <2>2, TreeAssumption
  <2>4. Height[i] \in Nat /\ Height[a] \in Nat /\ Height[b] \in Nat
    BY <2>1, TreeAssumption
  <2>5. a \notin Stops
    <3>1. SUFFICES ASSUME a \in Stops PROVE FALSE
      OBVIOUS
    <3>2. m <= Height[b] - Height[a]
      BY <3>1, <1>4
    <3> QED  BY <3>2, <2>3, <2>4, <1>5
  <2>6. Parent[a] \in Block
    BY <2>1, TreeAssumption
  <2> QED  BY <2>1, <2>5, <2>6, TreeAssumption
<1> QED  BY <1>5, <1>6

\* Between a block and one above it there is a child of the first.
LEMMA ChildOnPath ==
    ASSUME NEW b \in Block, NEW a \in Ancestors[b], a # b
    PROVE  \E c \in Ancestors[b] \ {Genesis} : Parent[c] = a
<1> DEFINE Above == {x \in Ancestors[b] : a \in Ancestors[x] /\ x # a}
           H == {Height[x] : x \in Above}
<1>1. Above \subseteq Block /\ b \in Above
  BY SelfAncestor, TreeAssumption
<1>2. H \in SUBSET Nat /\ H # {}
  BY <1>1, TreeAssumption
<1>3. PICK m \in H : \A n \in H : m <= n
  BY <1>2, LeastNatural
<1>4. PICK c \in Above : m = Height[c]
  BY <1>3
<1>5. c \in Block /\ c # Genesis
  BY <1>1, <1>4, TreeAssumption
<1>6. /\ Parent[c] \in Block /\ Height[c] = Height[Parent[c]] + 1
      /\ a \in Ancestors[Parent[c]] /\ Parent[c] \in Ancestors[b]
  BY <1>1, <1>4, <1>5, SelfAncestor, TreeAssumption
<1>7. ASSUME Parent[c] # a PROVE FALSE
  <2>1. Height[Parent[c]] \in H
    BY <1>6, <1>7
  <2>2. m <= Height[Parent[c]]
    BY <2>1, <1>3
  <2>3. Height[Parent[c]] \in Nat
    BY <1>6, TreeAssumption
  <2> HIDE DEF Above, H
  <2> QED  BY <2>2, <2>3, <1>4, <1>6
<1> QED  BY <1>4, <1>5, <1>7

-----------------------------------------------------------------------------
(* Transactions, outputs and indexes.                                      *)

\* What the definitions range over.
LEMMA TxTypes ==
    ASSUME NEW b \in Block
    PROVE  /\ \A i \in DOMAIN Vtx[b] : i \in Nat /\ Vtx[b][i] \in BlockTxs(b)
           /\ BlockTxs(b) \subseteq Tx
           /\ \A t \in BlockTxs(b) : \E i \in DOMAIN Vtx[b] : t = Vtx[b][i]
           /\ \A t \in Tx : Ins[t] \subseteq Outpoint
           /\ \A o \in Outpoint : Creator[o] \in Tx
<1>1. Vtx[b] \in Seq(Tx)
  BY TxAssumption
<1> QED  BY <1>1, TxAssumption DEF BlockTxs

\* The chain of a block is the chain of its parent and the block.
LEMMA OneMoreBlock ==
    ASSUME NEW b \in Block \ {Genesis}
    PROVE  /\ Parent[b] \in Block
           /\ Ancestors[b] = {b} \cup Ancestors[Parent[b]]
           /\ b \notin Ancestors[Parent[b]]
           /\ ChainTxs(b) = BlockTxs(b) \cup ChainTxs(Parent[b])
           /\ ChainTxs(b) \subseteq Tx
<1>1. /\ Parent[b] \in Block
      /\ Ancestors[b] = {b} \cup Ancestors[Parent[b]]
      /\ b \notin Ancestors[Parent[b]]
  BY TreeAssumption
<1>2. Ancestors[b] \subseteq Block
  BY TreeAssumption
<1>3. ChainTxs(b) \subseteq Tx
  BY <1>2, TxTypes DEF ChainTxs
<1> QED  BY <1>1, <1>3 DEF ChainTxs

\* On a valid chain, what a transaction spends was created on the chain.
LEMMA CreatorOnChain ==
    ASSUME NEW b \in Block, ValidLedger(b), NEW t \in ChainTxs(b), NEW o \in Ins[t]
    PROVE  Creator[o] \in ChainTxs(b)
<1>1. PICK c \in Ancestors[b] : t \in BlockTxs(c)
  BY DEF ChainTxs
<1>2. PICK i \in DOMAIN Vtx[c] : t = Vtx[c][i]
  BY <1>1 DEF BlockTxs
<1>3. PICK a \in Ancestors[b] : Precedes(Creator[o], a, c, i)
  BY <1>1, <1>2 DEF ValidLedger
<1>4. Creator[o] \in BlockTxs(a)
  BY <1>3 DEF Precedes, EarlierTxs, BlockTxs
<1> QED  BY <1>4 DEF ChainTxs

\* The index of a chain has an entry for the transactions of the chain only.
LEMMA IndexHas ==
    ASSUME NEW b \in Block, NEW ti \in TxIndex, IndexOf(ti, b), NEW t \in Tx
    PROVE  ContainsTx(ti, t) <=> t \in ChainTxs(b)
<1>1. ti.pos[t] \in Block \cup {NoBlock} /\ NoBlock \notin Block
  BY TreeAssumption DEF TxIndex
<1>2. Ancestors[b] \subseteq Block
  BY TreeAssumption
<1> QED  BY <1>1, <1>2 DEF IndexOf, ContainsTx, ChainTxs

\* An output is unspent in the index when nothing on the chain spends it.
LEMMA IndexSpent ==
    ASSUME NEW b \in Block, NEW ti \in TxIndex, IndexOf(ti, b), NEW o \in Outpoint
    PROVE  ti.spent[o] = NoTx <=> \A t \in Tx \cap ChainTxs(b) : o \notin Ins[t]
<1>1. ti.spent[o] \in Tx \cup {NoTx} /\ NoTx \notin Tx
  BY TxAssumption DEF TxIndex
<1> QED  BY <1>1 DEF IndexOf

\* A block under a valid chain ends a valid chain.
LEMMA ValidPrefix ==
    ASSUME NEW b \in Block, NEW a \in Ancestors[b], ValidLedger(b)
    PROVE  ValidLedger(a)
<1>1. a \in Block /\ Ancestors[a] \subseteq Ancestors[b] /\ Ancestors[b] \subseteq Block
  BY TreeAssumption
<1>2. ChainTxs(a) \subseteq ChainTxs(b)
  BY <1>1 DEF ChainTxs
<1>3. \A c, d \in Ancestors[a] : c # d => BlockTxs(c) \cap BlockTxs(d) = {}
  BY <1>1 DEF ValidLedger
<1>4. \A t, u \in ChainTxs(a) : t # u => Ins[t] \cap Ins[u] = {}
  BY <1>2 DEF ValidLedger
<1>5. ASSUME NEW c \in Ancestors[a], NEW i \in DOMAIN Vtx[c], NEW o \in Ins[Vtx[c][i]]
      PROVE  \E d \in Ancestors[a] :
                Precedes(Creator[o], d, c, i) /\ ~Immature(c, d, Creator[o])
  <2>1. PICK d \in Ancestors[b] :
           Precedes(Creator[o], d, c, i) /\ ~Immature(c, d, Creator[o])
    BY <1>1 DEF ValidLedger
  <2>2. d \in Ancestors[a]
    BY <2>1, <1>1, TreeAssumption DEF Precedes
  <2> QED  BY <2>1, <2>2
<1> QED  BY <1>3, <1>4, <1>5 DEF ValidLedger

\* A chain whose rewards are allowed has only blocks whose rewards are.
LEMMA ValidChainPrefix ==
    ASSUME NEW b \in Block, NEW a \in Ancestors[b], NEW learned, ValidChain(b, learned)
    PROVE  ValidChain(a, learned)
<1>1. Ancestors[a] \subseteq Ancestors[b]
  BY TreeAssumption
<1> QED  BY <1>1, ValidPrefix DEF ValidChain, RewardsAllowed

-----------------------------------------------------------------------------
(* DisconnectBlock.                                                        *)

\* Disconnecting the last block of a valid chain never fails and leaves the
\* index of the chain below (DisconnectInputs, DisconnectBlock).
THEOREM DisconnectUndoes ==
    ASSUME NEW b \in Block \ {Genesis}, NEW ti \in TxIndex,
           IndexOf(ti, b), ValidLedger(b)
    PROVE  /\ CanDisconnect(ti, b)
           /\ Disconnected(ti, b) \in TxIndex
           /\ IndexOf(Disconnected(ti, b), Parent[b])
<1> DEFINE p == Parent[b]
           di == Disconnected(ti, b)
<1>1. /\ p \in Block /\ Ancestors[b] = {b} \cup Ancestors[p] /\ b \notin Ancestors[p]
      /\ ChainTxs(b) = BlockTxs(b) \cup ChainTxs(p)
      /\ ChainTxs(b) \subseteq Tx
  BY OneMoreBlock
<1>2. BlockTxs(b) \cap ChainTxs(p) = {}
  BY <1>1 DEF ChainTxs, ValidLedger
<1>3. Ancestors[b] \subseteq Block /\ NoBlock \notin Block /\ NoTx \notin Tx
  BY TreeAssumption, TxAssumption
<1>4. CanDisconnect(ti, b)
  <2>1. ASSUME NEW o \in BlockIns(b) PROVE ContainsTx(ti, Creator[o])
    <3>1. PICK t \in BlockTxs(b) : o \in Ins[t]
      BY DEF BlockIns
    <3>2. Creator[o] \in ChainTxs(b)
      BY <3>1, <1>1, CreatorOnChain
    <3> QED  BY <3>2, <1>1, IndexHas
  <2> QED  BY <2>1 DEF CanDisconnect
<1>5. di \in TxIndex
  BY DEF Disconnected, TxIndex
<1>6. ASSUME NEW t \in Tx, NEW a \in Block
      PROVE  di.pos[t] = a <=> a \in Ancestors[p] /\ t \in BlockTxs(a)
  <2>1. CASE t \in BlockTxs(b)
    <3>1. di.pos[t] = NoBlock
      BY <2>1 DEF Disconnected
    <3> QED  BY <3>1, <2>1, <1>2, <1>3 DEF ChainTxs
  <2>2. CASE t \notin BlockTxs(b)
    <3>1. di.pos[t] = ti.pos[t]
      BY <2>2 DEF Disconnected
    <3> QED  BY <3>1, <2>2, <1>1 DEF IndexOf
  <2> QED  BY <2>1, <2>2
<1>7. ASSUME NEW o \in Outpoint, NEW t \in Tx
      PROVE  di.spent[o] = t <=> t \in ChainTxs(p) /\ o \in Ins[t]
  <2>1. CASE o \in BlockIns(b)
    <3>1. di.spent[o] = NoTx
      BY <2>1 DEF Disconnected
    <3>2. PICK u \in BlockTxs(b) : o \in Ins[u]
      BY <2>1 DEF BlockIns
    <3>3. ~(t \in ChainTxs(p) /\ o \in Ins[t])
      BY <3>2, <1>1, <1>2 DEF ValidLedger
    <3> QED  BY <3>1, <3>3, <1>3
  <2>2. CASE o \notin BlockIns(b) /\ Creator[o] \in BlockTxs(b)
    <3>1. di.spent[o] = NoTx
      BY <2>2 DEF Disconnected
    <3>2. ValidLedger(p)
      BY <1>1, ValidPrefix, SelfAncestor
    <3>3. ~(t \in ChainTxs(p) /\ o \in Ins[t])
      BY <3>2, <2>2, <1>1, <1>2, CreatorOnChain
    <3> QED  BY <3>1, <3>3, <1>3
  <2>3. CASE o \notin BlockIns(b) /\ Creator[o] \notin BlockTxs(b)
    <3>1. di.spent[o] = ti.spent[o]
      BY <2>3 DEF Disconnected
    <3>2. o \in Ins[t] => t \notin BlockTxs(b)
      BY <2>3 DEF BlockIns
    <3> QED  BY <3>1, <3>2, <1>1 DEF IndexOf
  <2> QED  BY <2>1, <2>2, <2>3
<1> QED  BY <1>4, <1>5, <1>6, <1>7 DEF IndexOf

-----------------------------------------------------------------------------
(* ConnectBlock.                                                           *)

\* What ConnectBlock accepts on top of a valid chain is not on it already.
\* BIP30 alone does not say so: it lets a fully spent transaction come back.
\* The first transaction of the block to do so would spend again an output
\* that its first occurrence has spent.
LEMMA ConnectsNewTxs ==
    ASSUME NEW b \in Block \ {Genesis}, NEW ti \in TxIndex,
           IndexOf(ti, Parent[b]), ValidLedger(Parent[b]), InputsConnect(ti, b)
    PROVE  BlockTxs(b) \cap ChainTxs(Parent[b]) = {}
<1> DEFINE p == Parent[b]
           Again == {i \in DOMAIN Vtx[b] : Vtx[b][i] \in ChainTxs(p)}
<1>1. /\ p \in Block /\ Ancestors[b] = {b} \cup Ancestors[p] /\ b \notin Ancestors[p]
      /\ ChainTxs(b) \subseteq Tx /\ ChainTxs(p) \subseteq ChainTxs(b)
  BY OneMoreBlock
<1>2. SUFFICES ASSUME BlockTxs(b) \cap ChainTxs(p) # {} PROVE FALSE
  OBVIOUS
<1>3. Again \in SUBSET Nat /\ Again # {}
  BY <1>2, TxTypes
<1>4. PICK m \in Again : \A n \in Again : m <= n
  BY <1>3, LeastNatural
<1> DEFINE t == Vtx[b][m]
<1>5. t \in BlockTxs(b) /\ t \in ChainTxs(p) /\ t \in Tx
  BY <1>1, TxTypes
<1>6. Ins[t] # {}
  <2>1. PICK a \in Ancestors[p] : t \in BlockTxs(a)
    BY <1>5 DEF ChainTxs
  <2>2. a \in Ancestors[b] \ {b}
    BY <1>1
  <2> QED  BY <2>1, <2>2, <1>5, TxAssumption
<1>7. PICK o \in Ins[t] : TRUE
  BY <1>6
<1>8. o \in Outpoint /\ ti.spent[o] = t
  BY <1>5, <1>7, TxTypes DEF IndexOf
<1>9. ~Unspent(ti, o)
  BY <1>5, <1>8, TxAssumption DEF Unspent
<1>10. Creator[o] \in EarlierTxs(b, m)
  BY <1>7, <1>9 DEF InputsConnect, ConnectInputs
<1>11. PICK k \in DOMAIN Vtx[b] : k < m /\ Creator[o] = Vtx[b][k]
  BY <1>10 DEF EarlierTxs
<1>12. Creator[o] \in ChainTxs(p)
  BY <1>1, <1>5, <1>7, CreatorOnChain
<1>13. k \in Again
  BY <1>11, <1>12
<1> QED  BY <1>11, <1>13, <1>4, <1>3

\* A block that ConnectBlock accepts on top of a valid chain extends it to a
\* valid chain: no double spend, no unknown and no immature input.
THEOREM ConnectKeepsValid ==
    ASSUME NEW b \in Block \ {Genesis}, NEW ti \in TxIndex,
           IndexOf(ti, Parent[b]), ValidLedger(Parent[b]), InputsConnect(ti, b)
    PROVE  ValidLedger(b)
<1> DEFINE p == Parent[b]
<1>1. /\ p \in Block /\ Ancestors[b] = {b} \cup Ancestors[p] /\ b \notin Ancestors[p]
      /\ ChainTxs(b) = BlockTxs(b) \cup ChainTxs(p)
      /\ ChainTxs(b) \subseteq Tx
  BY OneMoreBlock
<1>2. BlockTxs(b) \cap ChainTxs(p) = {}
  BY ConnectsNewTxs
<1>3. \A a, c \in Ancestors[b] : a # c => BlockTxs(a) \cap BlockTxs(c) = {}
  BY <1>1, <1>2 DEF ValidLedger, ChainTxs
<1>4. ASSUME NEW t \in BlockTxs(b), NEW u \in ChainTxs(p), NEW o \in Ins[t] \cap Ins[u]
      PROVE  FALSE
  <2>1. t \in Tx /\ u \in Tx /\ o \in Outpoint
    BY <1>1, TxTypes
  <2>2. ti.spent[o] = u
    BY <2>1 DEF IndexOf
  <2>3. ~Unspent(ti, o)
    BY <2>1, <2>2, TxAssumption DEF Unspent
  <2>4. PICK i \in DOMAIN Vtx[b] : t = Vtx[b][i]
    BY TxTypes
  <2>5. Creator[o] \in EarlierTxs(b, i)
    BY <2>3, <2>4 DEF InputsConnect, ConnectInputs
  <2>6. Creator[o] \in BlockTxs(b)
    BY <2>5 DEF EarlierTxs, BlockTxs
  <2>7. Creator[o] \in ChainTxs(p)
    BY <1>1, CreatorOnChain
  <2> QED  BY <2>6, <2>7, <1>2
<1>5. ASSUME NEW t \in BlockTxs(b), NEW u \in BlockTxs(b), t # u PROVE Ins[t] \cap Ins[u] = {}
  <2>1. PICK i \in DOMAIN Vtx[b] : t = Vtx[b][i]
    BY TxTypes
  <2>2. PICK j \in DOMAIN Vtx[b] : u = Vtx[b][j]
    BY TxTypes
  <2>3. i \in Nat /\ j \in Nat /\ i # j
    BY <2>1, <2>2, <1>5, TxTypes
  <2>4. CASE i < j
    BY <2>1, <2>2, <2>4 DEF InputsConnect, ConnectInputs, EarlierTxs
  <2>5. CASE j < i
    BY <2>1, <2>2, <2>5 DEF InputsConnect, ConnectInputs, EarlierTxs
  <2> QED  BY <2>3, <2>4, <2>5
<1>6. \A t, u \in ChainTxs(b) : t # u => Ins[t] \cap Ins[u] = {}
  <2>1. \A t, u \in ChainTxs(p) : t # u => Ins[t] \cap Ins[u] = {}
    BY DEF ValidLedger
  <2> QED  BY <2>1, <1>1, <1>4, <1>5
<1>7. ASSUME NEW c \in Ancestors[b], NEW i \in DOMAIN Vtx[c], NEW o \in Ins[Vtx[c][i]]
      PROVE  \E a \in Ancestors[b] :
                Precedes(Creator[o], a, c, i) /\ ~Immature(c, a, Creator[o])
  <2>1. CASE c # b
    BY <2>1, <1>1 DEF ValidLedger
  <2>2. CASE c = b /\ Creator[o] \in EarlierTxs(b, i)
    <3>1. ~Immature(b, b, Creator[o])
      BY <2>2 DEF InputsConnect, ConnectInputs
    <3> QED  BY <2>2, <3>1, <1>1 DEF Precedes
  <2>3. CASE c = b /\ Creator[o] \notin EarlierTxs(b, i)
    <3>1. o \in Outpoint /\ Creator[o] \in Tx
      BY <2>3, TxTypes
    <3>2. Unspent(ti, o) /\ ~Immature(b, ti.pos[Creator[o]], Creator[o])
      BY <2>3 DEF InputsConnect, ConnectInputs
    <3>3. ti.pos[Creator[o]] \in Block
      BY <3>1, <3>2 DEF Unspent, ContainsTx, TxIndex
    <3>4. /\ ti.pos[Creator[o]] \in Ancestors[p]
          /\ Creator[o] \in BlockTxs(ti.pos[Creator[o]])
      BY <3>1, <3>3 DEF IndexOf
    <3> QED  BY <2>3, <3>2, <3>4, <1>1 DEF Precedes
  <2> QED  BY <2>1, <2>2, <2>3
<1> QED  BY <1>3, <1>6, <1>7 DEF ValidLedger

\* ... and leaves the index of the extended chain.
THEOREM ConnectIndexes ==
    ASSUME NEW b \in Block \ {Genesis}, NEW ti \in TxIndex,
           IndexOf(ti, Parent[b]), ValidLedger(Parent[b]), InputsConnect(ti, b)
    PROVE  Connected(ti, b) \in TxIndex /\ IndexOf(Connected(ti, b), b)
<1> DEFINE p == Parent[b]
           ci == Connected(ti, b)
<1>1. /\ p \in Block /\ Ancestors[b] = {b} \cup Ancestors[p] /\ b \notin Ancestors[p]
      /\ ChainTxs(b) = BlockTxs(b) \cup ChainTxs(p)
      /\ ChainTxs(b) \subseteq Tx
  BY OneMoreBlock
<1>2. BlockTxs(b) \cap ChainTxs(p) = {}
  BY ConnectsNewTxs
<1>3. ValidLedger(b)
  BY ConnectKeepsValid
<1>4. BlockTxs(b) \subseteq Tx /\ NoTx \notin Tx
  BY <1>1, TxAssumption
<1>5. ASSUME NEW o \in BlockIns(b)
      PROVE  (CHOOSE t \in BlockTxs(b) : o \in Ins[t]) \in {t \in BlockTxs(b) : o \in Ins[t]}
  BY DEF BlockIns
<1>6. ci \in TxIndex
  BY <1>4, <1>5 DEF Connected, TxIndex
<1>7. ASSUME NEW t \in Tx, NEW a \in Block
      PROVE  ci.pos[t] = a <=> a \in Ancestors[b] /\ t \in BlockTxs(a)
  <2>1. CASE t \in BlockTxs(b)
    <3>1. ci.pos[t] = b
      BY <2>1 DEF Connected
    <3> QED  BY <3>1, <2>1, <1>1, <1>2 DEF ChainTxs
  <2>2. CASE t \notin BlockTxs(b)
    <3>1. ci.pos[t] = ti.pos[t]
      BY <2>2 DEF Connected
    <3> QED  BY <3>1, <2>2, <1>1 DEF IndexOf
  <2> QED  BY <2>1, <2>2
<1>8. ASSUME NEW o \in Outpoint, NEW t \in Tx
      PROVE  ci.spent[o] = t <=> t \in ChainTxs(b) /\ o \in Ins[t]
  <2>1. CASE o \in BlockIns(b)
    <3>1. PICK u \in BlockTxs(b) : o \in Ins[u] /\ ci.spent[o] = u
      BY <2>1, <1>5 DEF Connected
    <3> QED  BY <3>1, <1>1, <1>3 DEF ValidLedger
  <2>2. CASE o \notin BlockIns(b) /\ Creator[o] \in BlockTxs(b)
    <3>1. ci.spent[o] = NoTx
      BY <2>2 DEF Connected
    <3>2. t \in BlockTxs(b) => o \notin Ins[t]
      BY <2>2 DEF BlockIns
    <3>3. t \in ChainTxs(p) => o \notin Ins[t]
      BY <2>2, <1>1, <1>2, CreatorOnChain
    <3> QED  BY <3>1, <3>2, <3>3, <1>1, <1>4
  <2>3. CASE o \notin BlockIns(b) /\ Creator[o] \notin BlockTxs(b)
    <3>1. ci.spent[o] = ti.spent[o]
      BY <2>3 DEF Connected
    <3>2. o \in Ins[t] => t \notin BlockTxs(b)
      BY <2>3 DEF BlockIns
    <3> QED  BY <3>1, <3>2, <1>1 DEF IndexOf
  <2> QED  BY <2>1, <2>2, <2>3
<1> QED  BY <1>6, <1>7, <1>8 DEF IndexOf

\* ConnectBlock accepts the inputs of every block that ends a valid chain.
THEOREM ValidConnects ==
    ASSUME NEW b \in Block \ {Genesis}, NEW ti \in TxIndex,
           IndexOf(ti, Parent[b]), ValidLedger(b)
    PROVE  InputsConnect(ti, b)
<1> DEFINE p == Parent[b]
<1>1. /\ p \in Block /\ Ancestors[b] = {b} \cup Ancestors[p] /\ b \notin Ancestors[p]
      /\ ChainTxs(b) = BlockTxs(b) \cup ChainTxs(p)
      /\ ChainTxs(b) \subseteq Tx
  BY OneMoreBlock
<1>2. BlockTxs(b) \cap ChainTxs(p) = {}
  BY <1>1 DEF ChainTxs, ValidLedger
<1>3. ASSUME NEW i \in DOMAIN Vtx[b]
      PROVE  /\ ~Overwrites(ti, Vtx[b][i])
             /\ ConnectInputs(ti, b, i)
  <2> DEFINE t == Vtx[b][i]
  <2>1. i \in Nat /\ t \in BlockTxs(b) /\ t \in Tx
    BY <1>1, TxTypes
  <2>2. ~Overwrites(ti, t)
    BY <2>1, <1>1, <1>2, IndexHas DEF Overwrites
  <2>3. ASSUME NEW o \in Ins[t]
        PROVE  /\ \/ Creator[o] \in EarlierTxs(b, i) /\ ~Immature(b, b, Creator[o])
                  \/ /\ Creator[o] \notin EarlierTxs(b, i)
                     /\ Unspent(ti, o)
                     /\ ~Immature(b, ti.pos[Creator[o]], Creator[o])
               /\ \A u \in EarlierTxs(b, i) : o \notin Ins[u]
    <3> DEFINE Found == \/ Creator[o] \in EarlierTxs(b, i) /\ ~Immature(b, b, Creator[o])
                        \/ /\ Creator[o] \notin EarlierTxs(b, i)
                           /\ Unspent(ti, o)
                           /\ ~Immature(b, ti.pos[Creator[o]], Creator[o])
    <3>1. o \in Outpoint /\ Creator[o] \in Tx
      BY <2>1, TxTypes
    <3>2. PICK a \in Ancestors[b] : Precedes(Creator[o], a, b, i) /\ ~Immature(b, a, Creator[o])
      BY <1>1 DEF ValidLedger
    <3>3. EarlierTxs(b, i) \subseteq BlockTxs(b)
      BY DEF EarlierTxs, BlockTxs
    <3>4. ASSUME a # b PROVE Found
      <4>1. a \in Ancestors[p] /\ Creator[o] \in BlockTxs(a) /\ a \in Block
        BY <3>2, <3>4, <1>1, TreeAssumption DEF Precedes
      <4>2. Creator[o] \notin BlockTxs(b)
        BY <4>1, <1>2 DEF ChainTxs
      <4>3. ti.pos[Creator[o]] = a
        BY <3>1, <4>1 DEF IndexOf
      <4>4. \A u \in Tx \cap ChainTxs(p) : o \notin Ins[u]
        BY <2>1, <1>1, <1>2 DEF ValidLedger
      <4>5. Unspent(ti, o)
        BY <4>1, <4>3, <4>4, <1>1, <3>1, IndexSpent, TreeAssumption DEF Unspent, ContainsTx
      <4> QED  BY <4>2, <4>3, <4>5, <3>2, <3>3
    <3>5. ASSUME a = b PROVE Found
      BY <3>2, <3>5 DEF Precedes
    <3>6. ASSUME NEW u \in EarlierTxs(b, i) PROVE o \notin Ins[u]
      <4>1. PICK j \in DOMAIN Vtx[b] : j < i /\ u = Vtx[b][j]
        BY DEF EarlierTxs
      <4>2. u # t
        BY <4>1, <2>1, TxAssumption, TxTypes
      <4> QED  BY <4>2, <3>3, <2>1, <1>1 DEF ValidLedger
    <3> QED  BY <3>4, <3>5, <3>6
  <2> QED  BY <2>2, <2>3 DEF ConnectInputs
<1> QED  BY <1>3 DEF InputsConnect

-----------------------------------------------------------------------------
(***************************************************************************)
(* The steps of SetBestChain.                                              *)
(***************************************************************************)
\* The block where Reorganize is to stop and the fork it finds, both CHOOSEn,
\* exist.
LEMMA PathsExist ==
    ASSUME TypeOK
    PROVE  /\ pindexIntermediate \in Block /\ IsIntermediate(pindexIntermediate)
           /\ pfork \in Block /\ IsFork(pfork, pindexIntermediate)
<1>1. pindexNew \in Block /\ pindexBest \in Block
  BY DEF TypeOK
<1>2. Trust[pindexBest] \in Nat /\ Ancestors[pindexNew] \subseteq Block
  BY <1>1, TreeAssumption
<1>3. \E i \in Block : IsIntermediate(i)
  BY <1>1, <1>2, WalkStops DEF IsIntermediate
<1>4. pindexIntermediate \in Block /\ IsIntermediate(pindexIntermediate)
  BY <1>3 DEF pindexIntermediate
<1>5. Ancestors[pindexBest] \subseteq Block
  BY <1>1, TreeAssumption
<1>6. \E f \in Block : IsFork(f, pindexIntermediate)
  BY <1>1, <1>4, <1>5, ForkExists DEF IsFork
<1>7. pfork \in Block /\ IsFork(pfork, pindexIntermediate)
  BY <1>6 DEF pfork
<1> QED  BY <1>4, <1>7

\* Both depend on pindexBest and pindexNew only.
LEMMA PathsKept ==
    ASSUME UNCHANGED <<pindexBest, pindexNew>>
    PROVE  pindexIntermediate' = pindexIntermediate /\ pfork' = pfork
<1>1. pindexIntermediate' = pindexIntermediate
  BY DEF pindexIntermediate, IsIntermediate
<1> QED  BY <1>1 DEF pfork, IsFork

\* The index keeps its type whatever block is connected or disconnected.
LEMMA IndexTypes ==
    ASSUME NEW ti \in TxIndex, NEW b \in Block
    PROVE  Connected(ti, b) \in TxIndex /\ Disconnected(ti, b) \in TxIndex
<1>1. BlockTxs(b) \subseteq Tx
  BY TxTypes
<1>2. ASSUME NEW o \in BlockIns(b)
      PROVE  (CHOOSE t \in BlockTxs(b) : o \in Ins[t]) \in BlockTxs(b)
  BY DEF BlockIns
<1>3. Connected(ti, b) \in TxIndex
  BY <1>1, <1>2 DEF Connected, TxIndex
<1>4. Disconnected(ti, b) \in TxIndex
  BY DEF Disconnected, TxIndex
<1> QED  BY <1>3, <1>4

-----------------------------------------------------------------------------
(***************************************************************************)
(* Type correctness of the faulty node.  The one thing the types do not    *)
(* say, and need, is that Reorganize's first loop stays above the fork: it *)
(* would otherwise step below the genesis block.                           *)
(***************************************************************************)
AboveFork == call = "disconnect" => cursor \in Ancestors[pindexBest] /\ pfork \in Ancestors[cursor]

TypeInv == TypeOK /\ AboveFork

LEMMA InitTypes == Init => TypeInv
<1> SUFFICES ASSUME Init PROVE TypeInv
  OBVIOUS
<1>1. EmptyIndex \in TxIndex
  BY DEF EmptyIndex, TxIndex
<1>2. TypeOK
  BY <1>1, TreeAssumption DEF Init, TypeOK
<1>3. AboveFork
  BY DEF Init, AboveFork
<1> QED  BY <1>2, <1>3 DEF TypeInv

\* The disconnecting loop, while it has not reached the fork, is on a block
\* with a parent that is still above the fork.
LEMMA DisconnectStays ==
    ASSUME TypeInv, call = "disconnect", cursor # pfork
    PROVE  /\ cursor \in Block \ {Genesis} /\ Parent[cursor] \in Block
           /\ Parent[cursor] \in Ancestors[pindexBest]
           /\ pfork \in Ancestors[Parent[cursor]]
<1>1. /\ cursor \in Block /\ pindexBest \in Block
      /\ cursor \in Ancestors[pindexBest] /\ pfork \in Ancestors[cursor]
  BY DEF TypeInv, TypeOK, AboveFork
<1>2. cursor # Genesis
  BY <1>1, TreeAssumption
<1>3. Parent[cursor] \in Block /\ Ancestors[cursor] = {cursor} \cup Ancestors[Parent[cursor]]
  BY <1>1, <1>2, TreeAssumption
<1>4. Parent[cursor] \in Ancestors[pindexBest]
  BY <1>1, <1>2, SelfAncestor, TreeAssumption
<1> QED  BY <1>1, <1>2, <1>3, <1>4

LEMMA NextTypes == TypeInv /\ [FaultyNext \/ CrashNext]_vars => TypeInv'
<1> SUFFICES ASSUME TypeInv, [FaultyNext \/ CrashNext]_vars PROVE TypeInv'
  OBVIOUS
<1> USE DEF TypeInv
<1>0. \A b \in Block : Trust[b] \in Nat /\ Ancestors[b] \subseteq Block
  BY TreeAssumption
<1>1. ASSUME NEW b \in Block, AddToBlockIndex(b) PROVE TypeInv'
  BY <1>1 DEF AddToBlockIndex, Outweighs, BlkdbAdded, TypeOK, AboveFork
<1>2. CASE SetBestChain
  <2>1. TypeOK'
    BY <1>2 DEF SetBestChain, TypeOK, memory
  <2>2. pindexBest' = pindexBest /\ pindexNew' = pindexNew /\ cursor' = pindexBest
    BY <1>2 DEF SetBestChain, memory
  <2>3. pfork' = pfork /\ pfork \in Ancestors[pindexBest]
    BY <2>2, PathsKept, PathsExist DEF IsFork
  <2>4. pindexBest \in Ancestors[pindexBest]
    BY SelfAncestor DEF TypeOK
  <2> QED  BY <2>1, <2>2, <2>3, <2>4 DEF AboveFork
<1>3. CASE DisconnectBlock
  <2>1. call = "disconnect" /\ cursor # pfork
    BY <1>3 DEF DisconnectBlock
  <2>2. /\ pindexBest' = pindexBest /\ pindexNew' = pindexNew
        /\ cursor' = Parent[cursor] /\ call' = call
    BY <1>3 DEF DisconnectBlock, memory
  <2>3. Disconnected(txn.index, cursor) \in TxIndex
    BY IndexTypes DEF TypeOK
  <2>4. TypeOK'
    BY <1>3, <2>1, <2>3, DisconnectStays DEF DisconnectBlock, TypeOK, memory
  <2> QED  BY <2>1, <2>2, <2>4, DisconnectStays, PathsKept DEF AboveFork
<1>4. CASE DisconnectedAll
  BY <1>4 DEF DisconnectedAll, TypeOK, AboveFork, memory
<1>5. ASSUME NEW b \in Block, ReconnectBlock(b) PROVE TypeInv'
  <2>1. Connected(txn.index, b) \in TxIndex
    BY IndexTypes DEF TypeOK
  <2> QED  BY <1>5, <2>1 DEF ReconnectBlock, BlkdbConnected, TypeOK, AboveFork, memory
<1>6. CASE ReorganizeFails
  <2>1. blkdb' \in [blocks : SUBSET Block, next : [Block -> Block \cup {NoBlock}]]
    BY <1>6 DEF ReorganizeFails, ConnectBlockRefuses, BlkdbRecord, TypeOK
  <2> QED  BY <1>6, <2>1, <1>0, TreeAssumption
           DEF ReorganizeFails, InvalidChainFound, Return, TypeOK, AboveFork, memory
<1>7. CASE ReorganizeCommits
  <2>1. pnext' \in [Block -> Block \cup {NoBlock}]
    <3>1. cursor \in Block /\ Ancestors[cursor] \subseteq Block
      BY <1>0 DEF TypeOK
    <3> QED  BY <1>7, <3>1 DEF ReorganizeCommits, Relinked, TypeOK
  <2> QED  BY <1>7, <2>1 DEF ReorganizeCommits, Relinked, TypeOK, AboveFork
<1>8. ASSUME NEW b \in Block, SetBestChainInner(b) PROVE TypeInv'
  <2>1. Connected(txn.index, b) \in TxIndex
    BY IndexTypes DEF TypeOK
  <2> QED  BY <1>8, <2>1 DEF SetBestChainInner, BlkdbConnected, TypeOK, AboveFork, memory
<1>9. CASE SetBestChainInnerCommits
  BY <1>9 DEF SetBestChainInnerCommits, TypeOK, AboveFork
<1>10. CASE AppendFails
  BY <1>10, <1>0, TreeAssumption
     DEF AppendFails, ConnectBlockRefuses, BlkdbRecord, InvalidChainFound, Return, TypeOK,
         AboveFork, memory
<1>11. ASSUME NEW b \in Block, SecondaryFails(b) PROVE TypeInv'
  BY <1>11, <1>0 DEF SecondaryFails, ConnectBlockRefuses, BlkdbRecord, InvalidChainFound, TypeOK,
                     AboveFork, memory
<1>12. CASE NewBestBlock
  BY <1>12, TreeAssumption DEF NewBestBlock, Return, TypeOK, AboveFork
<1>13. CASE CrashAndLoadBlockIndex
  BY <1>13, TreeAssumption DEF CrashAndLoadBlockIndex, Return, TypeOK, AboveFork
<1>14. CASE DatabaseFails
  <2>1. blkdb' \in [blocks : SUBSET Block, next : [Block -> Block \cup {NoBlock}]]
    <3>1. ASSUME NEW b \in Block, ConnectBlockBreaks(txn.index, b)
          PROVE  blkdb' \in [blocks : SUBSET Block, next : [Block -> Block \cup {NoBlock}]]
      BY <3>1 DEF ConnectBlockBreaks, BlkdbRecord, BlkdbConnected, TypeOK
    <3> QED  BY <1>14, <3>1 DEF DatabaseFails, TypeOK
  <2>2. bnBestInvalidTrust' \in Nat
    BY <1>14, <1>0 DEF DatabaseFails, InvalidChainFound, TypeOK
  <2> QED  BY <1>14, <2>1, <2>2, TreeAssumption
           DEF DatabaseFails, Return, TypeOK, AboveFork, memory
<1>15. CASE CommitFails
  BY <1>15, TreeAssumption DEF CommitFails, Return, TypeOK, AboveFork, memory
<1>16. CASE LearnRule
  BY <1>16 DEF LearnRule, TypeOK, AboveFork, memory
<1>17. ASSUME NEW b \in Block, AddToBlockIndexFails(b) PROVE TypeInv'
  BY <1>17 DEF AddToBlockIndexFails, TypeOK, AboveFork
<1>18. CASE UNCHANGED vars
  <2>1. pfork' = pfork
    BY <1>18, PathsKept DEF vars
  <2> QED  BY <1>18, <2>1 DEF vars, TypeOK, AboveFork
<1> QED
  BY <1>1, <1>2, <1>3, <1>4, <1>5, <1>6, <1>7, <1>8, <1>9, <1>10, <1>11, <1>12,
     <1>13, <1>14, <1>15, <1>16, <1>17, <1>18
     DEF FaultyNext, CrashNext, SteadyNext, Connecting

\* Every state of a node has its types, whatever fails in it: blocks, databases
\* or the process.
THEOREM ChainStateTypes == Spec => []TypeOK
<1>1. Init => TypeInv
  BY InitTypes
<1>2. TypeInv /\ [FaultyNext]_vars => TypeInv'
  BY NextTypes
<1>3. TypeInv => TypeOK
  BY DEF TypeInv
<1> QED  BY <1>1, <1>2, <1>3, PTL DEF Spec

-----------------------------------------------------------------------------
(***************************************************************************)
(* Restart.  RestartFindsBlocks is about blkindex.dat and txindex.dat; for *)
(* it to be kept by the steps in between, everything that can still reach  *)
(* them must be stored as well: the blocks in memory, the transaction's    *)
(* hashBestChain, the argument of SetBestChain and where its loops are.    *)
(***************************************************************************)
Stored ==
    /\ mapBlockIndex = blkdb.blocks
    /\ Genesis \in blkdb.blocks
    /\ \A b \in blkdb.blocks : Ancestors[b] \subseteq blkdb.blocks
    /\ {txdb.best, txn.best, pindexBest, pindexNew, cursor} \subseteq blkdb.blocks
    /\ \A b \in Block : blkdb.next[b] \in blkdb.blocks \cup {NoBlock}
    /\ \A b \in Block : pnext[b] \in blkdb.blocks \cup {NoBlock}

LEMMA InitStored == Init => Stored
  BY TreeAssumption DEF Init, Stored

LEMMA NextStored == TypeInv /\ Stored /\ [CrashNext]_vars => Stored'
<1> SUFFICES ASSUME TypeInv, Stored, [CrashNext]_vars PROVE Stored'
  OBVIOUS
<1> USE DEF Stored
<1>0. /\ TypeOK /\ pindexIntermediate \in Ancestors[pindexNew]
      /\ Ancestors[pindexNew] \subseteq blkdb.blocks
      /\ Ancestors[pindexIntermediate] \subseteq blkdb.blocks
      /\ blkdb.blocks \subseteq Block
  BY PathsExist DEF TypeInv, TypeOK, IsIntermediate
<1>1. ASSUME NEW b \in Block, AddToBlockIndex(b) PROVE Stored'
  <2>1. b # Genesis /\ Parent[b] \in blkdb.blocks
    BY <1>1 DEF AddToBlockIndex, Outweighs, BlkdbAdded
  <2>2. Ancestors[b] \subseteq blkdb.blocks \cup {b}
    BY <2>1, TreeAssumption
  <2> QED  BY <1>0, <1>1, <2>2 DEF AddToBlockIndex, Outweighs, BlkdbAdded, TypeOK
<1>2. CASE SetBestChain
  BY <1>2 DEF SetBestChain, memory
<1>3. CASE DisconnectBlock
  <2>1. cursor \in Block \ {Genesis} /\ Parent[cursor] \in Block
    BY <1>3, DisconnectStays DEF DisconnectBlock
  <2>2. Parent[cursor] \in blkdb.blocks
    BY <2>1, SelfAncestor
  <2> QED  BY <1>0, <1>3, <2>1, <2>2 DEF DisconnectBlock, memory, TypeOK
<1>4. CASE DisconnectedAll
  BY <1>4 DEF DisconnectedAll, memory
<1>5. ASSUME NEW b \in Block, ReconnectBlock(b) PROVE Stored'
  <2>1. b \in blkdb.blocks
    BY <1>0, <1>5 DEF ReconnectBlock, IsNextTo
  <2> QED  BY <1>0, <1>5, <2>1 DEF ReconnectBlock, BlkdbConnected, memory, TypeOK
<1>6. CASE ReorganizeFails
  <2>1. /\ blkdb'.blocks = blkdb.blocks
        /\ \A b \in Block : blkdb'.next[b] \in blkdb.blocks \cup {NoBlock}
    BY <1>0, <1>6 DEF ReorganizeFails, ConnectBlockRefuses, BlkdbRecord, TypeOK
  <2> QED  BY <1>6, <2>1 DEF ReorganizeFails, Return, memory
<1>7. CASE ReorganizeCommits
  <2>1. Ancestors[cursor] \subseteq blkdb.blocks
    OBVIOUS
  <2>2. \A p \in Block : pnext'[p] \in blkdb.blocks \cup {NoBlock}
    BY <1>7, <2>1 DEF ReorganizeCommits, Relinked
  <2> QED  BY <1>7, <2>2 DEF ReorganizeCommits, Relinked
<1>8. ASSUME NEW b \in Block, SetBestChainInner(b) PROVE Stored'
  <2>1. b \in blkdb.blocks
    BY <1>0, <1>8 DEF SetBestChainInner, IsNextTo
  <2> QED  BY <1>0, <1>8, <2>1 DEF SetBestChainInner, BlkdbConnected, memory, TypeOK
<1>9. CASE SetBestChainInnerCommits
  BY <1>0, <1>9 DEF SetBestChainInnerCommits, TypeOK
<1>10. CASE AppendFails
  BY <1>0, <1>10 DEF AppendFails, ConnectBlockRefuses, BlkdbRecord, Return, memory, TypeOK
<1>11. ASSUME NEW b \in Block, SecondaryFails(b) PROVE Stored'
  BY <1>0, <1>11 DEF SecondaryFails, ConnectBlockRefuses, BlkdbRecord, memory, TypeOK
<1>12. CASE NewBestBlock
  BY <1>12 DEF NewBestBlock, Return
<1>13. CASE CrashAndLoadBlockIndex
  BY <1>13 DEF CrashAndLoadBlockIndex, Return
<1>14. CASE UNCHANGED vars
  BY <1>14 DEF vars
<1> QED
  BY <1>1, <1>2, <1>3, <1>4, <1>5, <1>6, <1>7, <1>8, <1>9, <1>10, <1>11, <1>12,
     <1>13, <1>14
     DEF CrashNext, SteadyNext, Connecting

\* Whenever the process dies, LoadBlockIndex finds hashBestChain, every block
\* under it and every hashNext in blkindex.dat.
THEOREM RestartSafe == CrashSpec => []RestartFindsBlocks
<1>1. Init => TypeInv /\ Stored
  BY InitTypes, InitStored
<1>2. TypeInv /\ Stored /\ [CrashNext]_vars => TypeInv' /\ Stored'
  BY NextTypes, NextStored
<1>3. TypeInv /\ Stored => RestartFindsBlocks
  BY DEF Stored, RestartFindsBlocks, TypeInv, TypeOK
<1> QED  BY <1>1, <1>2, <1>3, PTL DEF CrashSpec

-----------------------------------------------------------------------------
(***************************************************************************)
(* The ledger of the steady node.  The four properties of SteadyLedger     *)
(* hold only together.  That nothing is ever postponed in vain             *)
(* (call # "secondary") follows from BestIsMostTrusted: a block that       *)
(* Reorganize can reach and that outweighs the best chain before the one   *)
(* being added would be the best chain already.  And BestIsMostTrusted     *)
(* needs that what fails to connect is not valid, hence that the index     *)
(* inside the transaction is, at each step of the loops, the one of the    *)
(* chain that ends at cursor.                                              *)
(***************************************************************************)
SteadyLedger ==
    BestIsConnected /\ LedgerIsOfBestChain /\ OnlyValidChains /\ BestIsMostTrusted

\* The blocks that have had their chance to become the best chain.
SteadilySettled(b) == b \in mapBlockIndex /\ (call = "idle" \/ b # pindexNew)

LoopInv ==
    /\ call \in {"idle", "begin", "append"} => txn = txdb
    /\ call = "append" => cursor = pindexBest /\ Parent[pindexNew] = pindexBest
    /\ call = "disconnect" => IndexOf(txn.index, cursor)
    /\ call = "reconnect" =>
          /\ cursor \in Ancestors[pindexIntermediate]
          /\ IndexOf(txn.index, cursor) /\ ValidChain(cursor, rule)
    /\ call = "connected" =>
          /\ txn.best = pindexNew
          /\ IndexOf(txn.index, pindexNew) /\ ValidChain(pindexNew, rule)
    /\ call # "secondary"

SteadyInv ==
    /\ TypeInv
    /\ LoopInv
    /\ IndexOf(txdb.index, txdb.best) /\ ValidChain(txdb.best, rule)
    /\ txdb.best = IF call = "finish" THEN pindexNew ELSE pindexBest
    /\ \A b \in mapBlockIndex : Ancestors[b] \subseteq mapBlockIndex
    /\ call # "idle" => pindexNew \in mapBlockIndex /\ Trust[pindexNew] > Trust[pindexBest]
    /\ \A b \in Block :
          SteadilySettled(b) /\ ValidChain(b, rule) => Trust[b] <= Trust[pindexBest]

LEMMA GenesisValid == ValidChain(Genesis, rule) /\ IndexOf(EmptyIndex, Genesis)
<1>1. /\ Ancestors[Genesis] = {Genesis} /\ Vtx[Genesis] = << >>
      /\ NoBlock \notin Block /\ NoTx \notin Tx
  BY TreeAssumption, TxAssumption
<1>2. BlockTxs(Genesis) = {} /\ DOMAIN Vtx[Genesis] = {}
  BY <1>1 DEF BlockTxs
<1>3. ChainTxs(Genesis) = {}
  BY <1>1, <1>2 DEF ChainTxs
<1>4. ValidLedger(Genesis)
  BY <1>1, <1>2, <1>3 DEF ValidLedger
<1>5. IndexOf(EmptyIndex, Genesis)
  BY <1>1, <1>2, <1>3 DEF IndexOf, EmptyIndex
<1> QED  BY <1>1, <1>4, <1>5 DEF ValidChain, RewardsAllowed

LEMMA InitSteady == Init => SteadyInv
<1> SUFFICES ASSUME Init PROVE SteadyInv
  OBVIOUS
<1>1. TypeInv
  BY InitTypes
<1>2. Trust[Genesis] \in Nat /\ Ancestors[Genesis] = {Genesis}
  BY TreeAssumption
<1> QED  BY <1>1, <1>2, GenesisValid DEF Init, SteadyInv, LoopInv, SteadilySettled

\* Connecting a block to the index of a valid chain yields the index of a
\* valid chain.
LEMMA ConnectExtends ==
    ASSUME NEW b \in Block \ {Genesis}, NEW ti \in TxIndex,
           IndexOf(ti, Parent[b]), ValidChain(Parent[b], rule), ConnectBlockOk(ti, b)
    PROVE  IndexOf(Connected(ti, b), b) /\ ValidChain(b, rule)
<1>1. ValidLedger(b) /\ IndexOf(Connected(ti, b), b)
  BY ConnectKeepsValid, ConnectIndexes DEF ValidChain, ConnectBlockOk
<1>2. Ancestors[b] = {b} \cup Ancestors[Parent[b]]
  BY TreeAssumption
<1> QED  BY <1>1, <1>2 DEF ValidChain, ConnectBlockOk, RewardsAllowed

\* A block that does not connect to the index of the chain below it is on no
\* valid chain.
LEMMA RefusedIsInvalid ==
    ASSUME NEW top \in Block, NEW b \in Ancestors[top] \ {Genesis}, NEW ti \in TxIndex,
           IndexOf(ti, Parent[b]), ~ConnectBlockOk(ti, b)
    PROVE  ~ValidChain(top, rule)
<1>1. b \in Block /\ b \in Ancestors[b]
  BY SelfAncestor, TreeAssumption
<1>2. SUFFICES ASSUME ValidChain(b, rule) PROVE FALSE
  BY ValidChainPrefix
<1>3. InputsConnect(ti, b)
  BY <1>1, <1>2, ValidConnects DEF ValidChain
<1>4. RewardAllowed(b, rule)
  BY <1>1, <1>2 DEF ValidChain, RewardsAllowed
<1> QED  BY <1>3, <1>4 DEF ConnectBlockOk

\* A block on the way from its parent to itself is itself.
LEMMA NextToParent ==
    ASSUME NEW top \in Block \ {Genesis}, NEW b \in Ancestors[top] \ {Genesis},
           Parent[b] = Parent[top]
    PROVE  b = top
<1>1. /\ b \in Block /\ Parent[top] \in Block
      /\ Ancestors[top] = {top} \cup Ancestors[Parent[top]]
      /\ Height[b] = Height[Parent[top]] + 1
  BY TreeAssumption
<1>2. Height[b] \in Nat /\ Height[Parent[top]] \in Nat
  BY <1>1, TreeAssumption
<1>3. ASSUME b \in Ancestors[Parent[top]] PROVE FALSE
  <2>1. b = Parent[top] \/ Height[b] < Height[Parent[top]]
    BY <1>1, <1>3, TreeAssumption
  <2> QED  BY <2>1, <1>1, <1>2
<1> QED  BY <1>1, <1>3

LEMMA SteadyNextKeeps == SteadyInv /\ [SteadyNext]_vars => SteadyInv'
<1> SUFFICES ASSUME SteadyInv, [SteadyNext]_vars PROVE SteadyInv'
  OBVIOUS
<1>0. /\ TypeInv /\ TypeOK /\ LoopInv
      /\ pindexNew \in Block /\ pindexBest \in Block /\ cursor \in Block
      /\ txdb.best \in Block /\ txdb.index \in TxIndex /\ txn.index \in TxIndex
      /\ \A b \in Block : Trust[b] \in Nat /\ Ancestors[b] \subseteq Block
      /\ pindexIntermediate \in Block /\ IsIntermediate(pindexIntermediate)
      /\ pfork \in Block /\ IsFork(pfork, pindexIntermediate)
  BY PathsExist, TreeAssumption DEF SteadyInv, TypeInv, TypeOK
<1>t. TypeInv'
  BY <1>0, NextTypes DEF FaultyNext, CrashNext
<1>1. ASSUME NEW b \in Block, AddToBlockIndex(b) PROVE SteadyInv'
  <2>1. b # Genesis /\ Parent[b] \in mapBlockIndex /\ b \notin mapBlockIndex /\ call = "idle"
    BY <1>1 DEF AddToBlockIndex, Outweighs, BlkdbAdded
  <2>2. Ancestors[b] \subseteq mapBlockIndex \cup {b}
    BY <2>1, TreeAssumption DEF SteadyInv
  <2>3. \A a \in mapBlockIndex' : Ancestors[a] \subseteq mapBlockIndex'
    BY <1>1, <2>2 DEF AddToBlockIndex, Outweighs, BlkdbAdded, SteadyInv
  <2>4. CASE Trust[b] > Trust[pindexBest]
    BY <1>0, <1>1, <1>t, <2>1, <2>3, <2>4 DEF AddToBlockIndex, Outweighs, BlkdbAdded, SteadyInv, LoopInv, SteadilySettled
  <2>5. CASE ~(Trust[b] > Trust[pindexBest])
    BY <1>0, <1>1, <1>t, <2>1, <2>3, <2>5 DEF AddToBlockIndex, Outweighs, BlkdbAdded, SteadyInv, LoopInv, SteadilySettled
  <2> QED  BY <2>4, <2>5
<1>2. CASE SetBestChain
  BY <1>0, <1>2, <1>t DEF SetBestChain, memory, SteadyInv, LoopInv, SteadilySettled
<1>3. CASE DisconnectBlock
  <2>1. /\ call = "disconnect" /\ cursor # pfork /\ call' = call
        /\ txn'.index = Disconnected(txn.index, cursor) /\ cursor' = Parent[cursor]
    BY <1>0, <1>3 DEF DisconnectBlock, TypeOK
  <2>2. cursor \in Block \ {Genesis} /\ cursor \in Ancestors[pindexBest]
    BY <1>0, <2>1, DisconnectStays DEF TypeInv, AboveFork
  <2>3. ValidLedger(cursor)
    BY <1>0, <2>1, <2>2, ValidPrefix DEF SteadyInv, ValidChain
  <2>4. IndexOf(txn'.index, cursor')
    BY <1>0, <2>1, <2>2, <2>3, DisconnectUndoes DEF LoopInv
  <2> QED  BY <1>0, <1>3, <1>t, <2>1, <2>4 DEF DisconnectBlock, memory, SteadyInv, LoopInv, SteadilySettled
<1>4. CASE DisconnectedAll
  <2>1. call = "disconnect" /\ cursor = pfork /\ UNCHANGED <<pindexBest, pindexNew, cursor, txn, rule>>
    BY <1>4 DEF DisconnectedAll, memory
  <2>2. /\ cursor \in Ancestors[pindexIntermediate] /\ cursor \in Ancestors[pindexBest]
        /\ pindexIntermediate' = pindexIntermediate
    BY <1>0, <2>1, PathsKept DEF IsFork
  <2>3. ValidChain(cursor, rule)
    BY <1>0, <2>1, <2>2, ValidChainPrefix DEF SteadyInv
  <2> QED  BY <1>0, <1>4, <1>t, <2>1, <2>2, <2>3
           DEF DisconnectedAll, memory, SteadyInv, LoopInv, SteadilySettled
<1>5. ASSUME NEW b \in Block, ReconnectBlock(b) PROVE SteadyInv'
  <2>1. /\ call = "reconnect" /\ call' = call /\ cursor' = b
        /\ b \in Ancestors[pindexIntermediate] \ {Genesis} /\ Parent[b] = cursor
        /\ ConnectBlockOk(txn.index, b) /\ txn'.index = Connected(txn.index, b)
        /\ UNCHANGED <<pindexBest, pindexNew, rule>>
    BY <1>5 DEF ReconnectBlock, IsNextTo, memory
  <2>2. IndexOf(Connected(txn.index, b), b) /\ ValidChain(b, rule)
    BY <1>0, <2>1, ConnectExtends DEF LoopInv
  <2>3. pindexIntermediate' = pindexIntermediate
    BY <2>1, PathsKept
  <2> QED  BY <1>0, <1>5, <1>t, <2>1, <2>2, <2>3
           DEF ReconnectBlock, memory, SteadyInv, LoopInv, SteadilySettled
<1>6. CASE ReorganizeFails
  <2>1. ~ValidChain(pindexNew, rule)
    <3>1. CASE call = "disconnect" /\ cursor # pfork /\ ~CanDisconnect(txn.index, cursor)
      <4>1. cursor \in Block \ {Genesis} /\ cursor \in Ancestors[pindexBest]
        BY <1>0, <3>1, DisconnectStays DEF TypeInv, AboveFork
      <4>2. ValidLedger(cursor)
        BY <1>0, <3>1, <4>1, ValidPrefix DEF SteadyInv, ValidChain
      <4> QED  BY <1>0, <3>1, <4>1, <4>2, DisconnectUndoes DEF LoopInv
    <3>2. ASSUME NEW b \in Block, call = "reconnect", IsNextTo(b, pindexIntermediate),
                 ~ConnectBlockOk(txn.index, b)
          PROVE  ~ValidChain(pindexNew, rule)
      <4>1. b \in Ancestors[pindexNew] \ {Genesis} /\ Parent[b] = cursor
        BY <1>0, <3>2, TreeAssumption DEF IsNextTo, IsIntermediate
      <4> QED  BY <1>0, <3>2, <4>1, RefusedIsInvalid DEF LoopInv
    <3> QED  BY <1>6, <3>1, <3>2 DEF ReorganizeFails, ConnectBlockRefuses
  <2>2. call # "finish"
    BY <1>6 DEF ReorganizeFails
  <2> QED  BY <1>0, <1>6, <1>t, <2>1, <2>2
           DEF ReorganizeFails, Return, memory, SteadyInv, LoopInv, SteadilySettled
<1>7. CASE ReorganizeCommits
  <2>1. /\ call = "reconnect" /\ cursor = pindexIntermediate
        /\ txdb'.best = cursor /\ txdb'.index = txn.index
        /\ UNCHANGED <<mapBlockIndex, pindexBest, pindexNew, rule>>
        /\ call' = IF cursor = pindexNew THEN "finish" ELSE "secondary"
    BY <1>0, <1>7 DEF ReorganizeCommits, Relinked, TypeOK
  <2>2. IndexOf(txdb'.index, cursor) /\ ValidChain(cursor, rule)
    BY <1>0, <2>1 DEF LoopInv
  <2>3. cursor = pindexNew
    <3>1. SUFFICES ASSUME cursor # pindexNew PROVE FALSE
      OBVIOUS
    <3>2. cursor \in Ancestors[pindexNew] /\ SteadilySettled(cursor)
      BY <1>0, <2>1, <3>1 DEF SteadyInv, SteadilySettled, IsIntermediate
    <3>3. PICK c \in Ancestors[pindexNew] \ {Genesis} : Parent[c] = cursor
      BY <1>0, <3>1, <3>2, ChildOnPath
    <3>4. c \in Block /\ c \notin Ancestors[cursor]
      <4>1. c \in Block /\ Height[c] = Height[cursor] + 1 /\ Height[cursor] \in Nat
        BY <1>0, <3>3, TreeAssumption
      <4>2. c \in Ancestors[cursor] => c = cursor \/ Height[c] < Height[cursor]
        BY <1>0, TreeAssumption
      <4>3. Height[c] \in Nat
        BY <4>1
      <4> QED  BY <4>1, <4>2, <4>3
    <3>5. Trust[cursor] > Trust[pindexBest]
      BY <1>0, <2>1, <3>3, <3>4 DEF IsIntermediate
    <3>6. Trust[cursor] <= Trust[pindexBest]
      BY <1>0, <2>2, <3>2 DEF SteadyInv
    <3> QED  BY <1>0, <3>5, <3>6
  <2> QED  BY <1>0, <1>t, <2>1, <2>2, <2>3 DEF SteadyInv, LoopInv, SteadilySettled
<1>8. ASSUME NEW b \in Block, SetBestChainInner(b) PROVE SteadyInv'
  <2>1. /\ call = "append" /\ b \in Ancestors[pindexNew] \ {Genesis} /\ Parent[b] = cursor
        /\ ConnectBlockOk(txn.index, b)
        /\ txn'.best = b /\ txn'.index = Connected(txn.index, b) /\ call' = "connected"
        /\ UNCHANGED <<mapBlockIndex, pindexBest, pindexNew, txdb, rule>>
    BY <1>0, <1>8 DEF SetBestChainInner, IsNextTo, memory, LoopInv
  <2>2. cursor = pindexBest /\ Parent[pindexNew] = pindexBest /\ pindexNew # Genesis
    BY <1>0, <2>1, TreeAssumption DEF LoopInv
  <2>3. b = pindexNew
    BY <1>0, <2>1, <2>2, NextToParent
  <2>4. IndexOf(txn.index, Parent[b]) /\ ValidChain(Parent[b], rule)
    BY <1>0, <2>1, <2>2 DEF SteadyInv, LoopInv
  <2>5. IndexOf(Connected(txn.index, b), b) /\ ValidChain(b, rule)
    BY <1>0, <2>1, <2>4, ConnectExtends
  <2> QED  BY <1>0, <1>t, <2>1, <2>3, <2>5 DEF SteadyInv, LoopInv, SteadilySettled
<1>9. CASE SetBestChainInnerCommits
  BY <1>0, <1>9, <1>t DEF SetBestChainInnerCommits, SteadyInv, LoopInv, SteadilySettled
<1>10. CASE AppendFails
  <2>1. /\ call = "append" /\ ~ConnectBlockOk(txn.index, pindexNew)
        /\ Parent[pindexNew] = pindexBest /\ txn = txdb
    BY <1>0, <1>10 DEF AppendFails, ConnectBlockRefuses, LoopInv
  <2>2. pindexNew \in Ancestors[pindexNew] \ {Genesis}
    BY <1>0, <2>1, SelfAncestor, TreeAssumption
  <2>3. IndexOf(txn.index, Parent[pindexNew])
    BY <2>1 DEF SteadyInv
  <2>4. ~ValidChain(pindexNew, rule)
    BY <1>0, <2>1, <2>2, <2>3, RefusedIsInvalid
  <2> QED  BY <1>0, <1>10, <1>t, <2>1, <2>4
           DEF AppendFails, Return, memory, SteadyInv, LoopInv, SteadilySettled
<1>11. ASSUME NEW b \in Block, SecondaryFails(b) PROVE SteadyInv'
  BY <1>0, <1>11 DEF SecondaryFails, LoopInv
<1>12. CASE NewBestBlock
  BY <1>0, <1>12, <1>t DEF NewBestBlock, Return, SteadyInv, LoopInv, SteadilySettled
<1>13. CASE UNCHANGED vars
  <2>1. pindexIntermediate' = pindexIntermediate
    BY <1>13, PathsKept DEF vars
  <2> QED  BY <1>0, <1>13, <1>t, <2>1 DEF vars, SteadyInv, LoopInv, SteadilySettled
<1> QED
  BY <1>1, <1>2, <1>3, <1>4, <1>5, <1>6, <1>7, <1>8, <1>9, <1>10, <1>11, <1>12, <1>13
     DEF SteadyNext, Connecting

\* The invariant of the steady node, from which the four theorems follow.
LEMMA SteadyInvariant == SteadySpec => [](SteadyInv /\ SteadyLedger)
<1>1. Init => SteadyInv
  BY InitSteady
<1>2. SteadyInv /\ [SteadyNext]_vars => SteadyInv'
  BY SteadyNextKeeps
<1>3. SteadyInv => SteadyLedger
  <2> SUFFICES ASSUME SteadyInv PROVE SteadyLedger
    OBVIOUS
  <2>1. mapBlockIndex \subseteq Block
    BY DEF SteadyInv, TypeInv, TypeOK
  <2> QED  BY <2>1 DEF SteadyInv, SteadyLedger, BestIsConnected, LedgerIsOfBestChain,
                       OnlyValidChains, BestIsMostTrusted, SteadilySettled
<1> QED  BY <1>1, <1>2, <1>3, PTL DEF SteadySpec

\* When SetBestChain returns, the best block in memory is the committed one
\* (the end of SetBestChain, reached through SetBestChainInner's commits).
THEOREM SteadyBestIsConnected == SteadySpec => []BestIsConnected
<1>1. SteadyLedger => BestIsConnected
  BY DEF SteadyLedger
<1> QED  BY <1>1, SteadyInvariant, PTL

\* The committed index is that of the committed best chain, whatever blocks
\* DisconnectBlock and ConnectBlock took off it and put on it.
THEOREM SteadyLedgerIsOfBestChain == SteadySpec => []LedgerIsOfBestChain
<1>1. SteadyLedger => LedgerIsOfBestChain
  BY DEF SteadyLedger
<1> QED  BY <1>1, SteadyInvariant, PTL

\* The committed best chain is valid: what ConnectInputs checks against the
\* index is what a valid chain is, said of the chain itself.
THEOREM SteadyOnlyValidChains == SteadySpec => []OnlyValidChains
<1>1. SteadyLedger => OnlyValidChains
  BY DEF SteadyLedger
<1> QED  BY <1>1, SteadyInvariant, PTL

\* No indexed valid chain has more trust than the best one when AddToBlockIndex
\* returns.
THEOREM SteadyBestIsMostTrusted == SteadySpec => []BestIsMostTrusted
<1>1. SteadyLedger => BestIsMostTrusted
  BY DEF SteadyLedger
<1> QED  BY <1>1, SteadyInvariant, PTL

(***************************************************************************)
(* The abstract specification says nothing of SetBestChain's steps: every  *)
(* one of them but the commits leaves what it sees alone, a commit is one  *)
(* move of the best chain to the block SetBestChain was called for, and    *)
(* AddToBlockIndex learns a block.                                         *)
(***************************************************************************)
AbstractInv == SteadyInv /\ Stored /\ rule = FALSE

LEMMA AbstractInvariant == SteadySpec => []AbstractInv
<1>1. Init => AbstractInv
  BY InitSteady, InitStored DEF AbstractInv, Init
<1>2. AbstractInv /\ [SteadyNext]_vars => AbstractInv'
  <2> SUFFICES ASSUME AbstractInv, [SteadyNext]_vars PROVE AbstractInv'
    OBVIOUS
  <2>1. SteadyInv'
    BY SteadyNextKeeps DEF AbstractInv
  <2>2. Stored'
    BY NextStored DEF AbstractInv, SteadyInv, CrashNext
  <2>3. rule' = rule
    BY DEF SteadyNext, Connecting, AddToBlockIndex, SetBestChain, DisconnectBlock, DisconnectedAll,
           ReconnectBlock, ReorganizeFails, ReorganizeCommits, SetBestChainInner,
           SetBestChainInnerCommits, AppendFails, SecondaryFails, NewBestBlock, vars
  <2> QED  BY <2>1, <2>2, <2>3 DEF AbstractInv
<1> QED  BY <1>1, <1>2, PTL DEF SteadySpec

\* A valid chain is the same to both.
LEMMA SameValidity ==
    ASSUME NEW b \in Block, ValidChain(b, FALSE)
    PROVE  Abstract!ValidChain(b, FALSE)
  BY DEF ValidChain, ValidLedger, RewardsAllowed, RewardAllowed, ChainTxs, BlockTxs, Precedes,
         EarlierTxs, Immature,
         Abstract!ValidChain, Abstract!ValidLedger, Abstract!RewardsAllowed,
         Abstract!RewardAllowed, Abstract!ChainTxs, Abstract!BlockTxs, Abstract!Precedes,
         Abstract!EarlierTxs, Abstract!Immature

\* What a commit makes the best chain.
LEMMA CommitSwitches ==
    ASSUME AbstractInv, AbstractInv', ReorganizeCommits \/ SetBestChainInnerCommits
    PROVE  Abstract!Switch(pindexNew)
<1>1. /\ call \in {"reconnect", "connected"} /\ call' \in {"finish", "secondary"}
      /\ UNCHANGED <<mapBlockIndex, pindexBest, blkdb, pindexNew, rule>>
  BY DEF ReorganizeCommits, SetBestChainInnerCommits
<1>2. call' = "finish" /\ txdb'.best = pindexNew
  BY <1>1 DEF AbstractInv, SteadyInv, LoopInv
<1>3. ValidChain(pindexNew, FALSE)
  BY <1>1, <1>2 DEF AbstractInv, SteadyInv
<1>4. pindexNew \in Block /\ pindexNew \in blkdb.blocks
  BY DEF AbstractInv, SteadyInv, TypeInv, TypeOK, Stored
<1>5. txdb.best = pindexBest /\ Trust[pindexNew] > Trust[pindexBest]
  BY <1>1 DEF AbstractInv, SteadyInv
<1>6. Abstract!ValidChain(pindexNew, FALSE)
  BY <1>3, <1>4, SameValidity
<1> QED  BY <1>1, <1>2, <1>4, <1>5, <1>6 DEF Abstract!Switch

LEMMA StepsMap ==
    ASSUME AbstractInv, AbstractInv', [SteadyNext]_vars
    PROVE  [Abstract!Next]_(Abstract!vars)
<1>1. CASE ReorganizeCommits \/ SetBestChainInnerCommits
  <2>1. pindexNew \in Block
    BY DEF AbstractInv, SteadyInv, TypeInv, TypeOK
  <2> QED  BY <1>1, <2>1, CommitSwitches DEF Abstract!Next
<1>2. ASSUME NEW b \in Block, AddToBlockIndex(b) PROVE Abstract!Next
  <2>1. Abstract!Learn(b)
    BY <1>2 DEF AddToBlockIndex, BlkdbAdded, AbstractInv, Stored, Abstract!Learn
  <2> QED  BY <2>1 DEF Abstract!Next
<1>3. CASE UNCHANGED <<blkdb.blocks, txdb>>
  BY <1>3 DEF Abstract!vars
<1>4. ASSUME DisconnectBlock \/ (\E b \in Block : ReconnectBlock(b) \/ SetBestChainInner(b))
             \/ ReorganizeFails \/ AppendFails \/ \E b \in Block : SecondaryFails(b)
      PROVE  UNCHANGED <<blkdb.blocks, txdb>>
  BY <1>4 DEF AbstractInv, SteadyInv, TypeInv, TypeOK, DisconnectBlock, ReconnectBlock,
              ReorganizeFails, SetBestChainInner, AppendFails, SecondaryFails, ConnectBlockRefuses,
              BlkdbRecord, BlkdbConnected
<1>5. ASSUME SetBestChain \/ DisconnectedAll \/ NewBestBlock \/ UNCHANGED vars
      PROVE  UNCHANGED <<blkdb.blocks, txdb>>
  BY <1>5 DEF SetBestChain, DisconnectedAll, NewBestBlock, vars
<1> QED  BY <1>1, <1>2, <1>3, <1>4, <1>5 DEF SteadyNext, Connecting

\* Seen from its databases a node that runs undisturbed is a node whose best
\* chain moves in single steps from valid chain to valid chain, with ever more
\* trust (everything SetBestChain, Reorganize and their loops do in between).
THEOREM ImplementsBestChain == SteadySpec => MovesToValidChains
<1>1. Init => Abstract!Init
  BY DEF Init, Abstract!Init
<1>2. AbstractInv /\ AbstractInv' /\ [SteadyNext]_vars => [Abstract!Next]_(Abstract!vars)
  BY StepsMap
<1> QED
  BY <1>1, <1>2, AbstractInvariant, PTL
     DEF SteadySpec, MovesToValidChains, Abstract!SafeSpec

-----------------------------------------------------------------------------
(***************************************************************************)
(* Trust only grows, even when the best block in memory is ahead of the    *)
(* committed one (a postponed block failed): what is committed next is on  *)
(* the way to a block with more trust than the best block in memory, and   *)
(* above every block with no more trust than that.                         *)
(***************************************************************************)
TrustInv ==
    /\ call # "idle" => Trust[pindexNew] > Trust[pindexBest]
    /\ call = "append" => cursor = pindexBest
    /\ call \in {"idle", "begin", "disconnect", "reconnect", "append"}
          => Trust[txdb.best] <= Trust[pindexBest]
    /\ call \in {"secondary", "connected"} => Trust[txdb.best] <= Trust[cursor]
    /\ call = "connected" =>
          txn.best \in Ancestors[pindexNew] \ {Genesis} /\ Parent[txn.best] = cursor
    /\ call = "finish" => Trust[txdb.best] <= Trust[pindexNew]
    /\ call = "secondary" => cursor \in Ancestors[pindexNew]

\* The block where Reorganize stops outweighs the best chain.
LEMMA IntermediateOutweighs ==
    ASSUME TypeOK, Trust[pindexNew] > Trust[pindexBest]
    PROVE  Trust[pindexIntermediate] > Trust[pindexBest]
<1>1. /\ pindexNew \in Block /\ pindexBest \in Block
      /\ pindexIntermediate \in Block /\ IsIntermediate(pindexIntermediate)
  BY PathsExist DEF TypeOK
<1>2. CASE pindexIntermediate = pindexNew
  BY <1>2
<1>3. CASE pindexIntermediate # pindexNew
  <2>1. pindexIntermediate \in Ancestors[pindexNew]
    BY <1>1 DEF IsIntermediate
  <2>2. PICK c \in Ancestors[pindexNew] \ {Genesis} : Parent[c] = pindexIntermediate
    BY <1>1, <1>3, <2>1, ChildOnPath
  <2>3. c \in Block /\ Height[c] = Height[pindexIntermediate] + 1
        /\ Height[pindexIntermediate] \in Nat
    BY <1>1, <2>2, TreeAssumption
  <2>4. c \in Ancestors[pindexIntermediate] =>
           c = pindexIntermediate \/ Height[c] < Height[pindexIntermediate]
    BY <1>1, TreeAssumption
  <2>5. c \notin Ancestors[pindexIntermediate]
    BY <2>3, <2>4
  <2> QED  BY <1>1, <2>2, <2>5 DEF IsIntermediate
<1> QED  BY <1>2, <1>3

\* A block on a path has no more trust than the path's end, its parent less.
LEMMA TrustOnPath ==
    ASSUME NEW top \in Block, NEW b \in Ancestors[top]
    PROVE  /\ Trust[b] \in Nat /\ Trust[top] \in Nat /\ Trust[b] <= Trust[top]
           /\ b # Genesis => Trust[Parent[b]] \in Nat /\ Trust[Parent[b]] < Trust[b]
<1>1. b \in Block
  BY TreeAssumption
<1>2. Trust[b] \in Nat /\ Trust[top] \in Nat
  BY <1>1, TreeAssumption
<1>3. b = top \/ Trust[b] < Trust[top]
  BY TreeAssumption
<1>4. b # Genesis => Parent[b] \in Block /\ Trust[b] > Trust[Parent[b]]
  BY <1>1, TreeAssumption
<1>5. b # Genesis => Trust[Parent[b]] \in Nat
  BY <1>4, TreeAssumption
<1> QED  BY <1>2, <1>3, <1>4, <1>5

LEMMA NextTrust ==
    TypeInv /\ TrustInv /\ [FaultyNext]_vars
      => TrustInv' /\ (txdb.best' # txdb.best => Trust[txdb.best'] > Trust[txdb.best])
<1> SUFFICES ASSUME TypeInv, TrustInv, [FaultyNext]_vars
             PROVE  /\ TrustInv'
                    /\ txdb.best' # txdb.best => Trust[txdb.best'] > Trust[txdb.best]
  OBVIOUS
<1> DEFINE Goal == TrustInv' /\ (txdb.best' # txdb.best => Trust[txdb.best'] > Trust[txdb.best])
<1>0. /\ TypeOK /\ pindexNew \in Block /\ pindexBest \in Block /\ cursor \in Block
      /\ txdb.best \in Block /\ txdb \in [best : Block, index : TxIndex]
      /\ txn \in [best : Block, index : TxIndex]
      /\ \A b \in Block : Trust[b] \in Nat
  BY TreeAssumption DEF TypeInv, TypeOK
<1>1. ASSUME NEW b \in Block, AddToBlockIndex(b) PROVE Goal
  BY <1>0, <1>1 DEF AddToBlockIndex, Outweighs, TrustInv
<1>2. CASE SetBestChain
  BY <1>0, <1>2 DEF SetBestChain, memory, TrustInv
<1>3. CASE DisconnectBlock
  BY <1>0, <1>3 DEF DisconnectBlock, memory, TrustInv
<1>4. CASE DisconnectedAll
  BY <1>0, <1>4 DEF DisconnectedAll, memory, TrustInv
<1>5. ASSUME NEW b \in Block, ReconnectBlock(b) PROVE Goal
  BY <1>0, <1>5 DEF ReconnectBlock, memory, TrustInv
<1>6. CASE ReorganizeFails
  BY <1>0, <1>6 DEF ReorganizeFails, Return, memory, TrustInv
<1>7. CASE ReorganizeCommits
  <2>1. /\ txdb'.best = cursor /\ cursor = pindexIntermediate /\ call = "reconnect"
        /\ UNCHANGED <<pindexBest, pindexNew, cursor>>
        /\ call' = IF cursor = pindexNew THEN "finish" ELSE "secondary"
    BY <1>0, <1>7 DEF ReorganizeCommits
  <2>2. cursor \in Ancestors[pindexNew]
    BY <1>0, <2>1, PathsExist DEF IsIntermediate
  <2>3. Trust[cursor] > Trust[pindexBest] /\ Trust[txdb.best] <= Trust[pindexBest]
    BY <1>0, <2>1, IntermediateOutweighs DEF TrustInv
  <2> QED  BY <1>0, <2>1, <2>2, <2>3 DEF TrustInv
<1>8. ASSUME NEW b \in Block, SetBestChainInner(b) PROVE Goal
  <2>1. /\ call \in {"append", "secondary"} /\ call' = "connected"
        /\ b \in Ancestors[pindexNew] \ {Genesis} /\ Parent[b] = cursor
        /\ txn'.best = b /\ UNCHANGED <<pindexBest, pindexNew, cursor, txdb>>
    BY <1>8 DEF SetBestChainInner, IsNextTo, memory
  <2> QED  BY <1>0, <2>1 DEF TrustInv
<1>9. CASE SetBestChainInnerCommits
  <2>1. /\ call = "connected" /\ txdb' = txn /\ cursor' = txn.best
        /\ UNCHANGED <<pindexBest, pindexNew>>
        /\ call' = IF txn.best = pindexNew THEN "finish" ELSE "secondary"
    BY <1>9 DEF SetBestChainInnerCommits
  <2>2. /\ txn.best \in Ancestors[pindexNew] \ {Genesis} /\ Parent[txn.best] = cursor
        /\ Trust[txdb.best] <= Trust[cursor]
    BY <2>1 DEF TrustInv
  <2>3. Trust[cursor] < Trust[txn.best]
    BY <1>0, <2>2, TrustOnPath
  <2> QED  BY <1>0, <2>1, <2>2, <2>3 DEF TrustInv
<1>10. CASE AppendFails
  BY <1>0, <1>10 DEF AppendFails, Return, memory, TrustInv
<1>11. ASSUME NEW b \in Block, SecondaryFails(b) PROVE Goal
  <2>1. /\ call = "secondary" /\ call' = "finish"
        /\ UNCHANGED <<pindexBest, pindexNew, cursor, txdb>>
    BY <1>11 DEF SecondaryFails, memory
  <2> QED  BY <1>0, <2>1, TrustOnPath DEF TrustInv
<1>12. CASE NewBestBlock
  BY <1>0, <1>12 DEF NewBestBlock, Return, TrustInv
<1>13. CASE CrashAndLoadBlockIndex
  BY <1>0, <1>13 DEF CrashAndLoadBlockIndex, Return, TrustInv
<1>14. CASE DatabaseFails
  <2>1. CASE call' = "finish"
    <3>1. call = "secondary" /\ UNCHANGED <<pindexBest, pindexNew, cursor, txdb>>
      BY <1>14, <2>1 DEF DatabaseFails, Return, memory
    <3> QED  BY <1>0, <2>1, <3>1, TrustOnPath DEF TrustInv
  <2>2. CASE call' # "finish"
    <3>1. /\ call' = "idle" /\ UNCHANGED <<pindexBest, txdb>>
          /\ call \in {"begin", "disconnect", "reconnect", "append"}
      BY <1>14, <2>2 DEF DatabaseFails, Return, memory
    <3> QED  BY <1>0, <3>1 DEF TrustInv
  <2> QED  BY <2>1, <2>2
<1>15. CASE CommitFails
  <2>1. /\ call = "connected" /\ UNCHANGED <<pindexBest, txdb>>
        /\ IF Parent[pindexNew] = pindexBest THEN call' = "idle"
           ELSE call' = "finish" /\ UNCHANGED pindexNew
    BY <1>15 DEF CommitFails, Return, memory
  <2>2. /\ txn.best \in Ancestors[pindexNew] \ {Genesis} /\ Parent[txn.best] = cursor
        /\ Trust[txdb.best] <= Trust[cursor]
    BY <2>1 DEF TrustInv
  <2>3. Trust[cursor] < Trust[txn.best] /\ Trust[txn.best] <= Trust[pindexNew]
    BY <1>0, <2>2, TrustOnPath
  <2>4. CASE Parent[pindexNew] = pindexBest
    <3>1. pindexNew # Genesis /\ Ancestors[pindexNew] = {pindexNew} \cup Ancestors[pindexBest]
      BY <1>0, <2>4, TreeAssumption
    <3>2. Trust[cursor] <= Trust[pindexBest]
      <4>1. CASE txn.best = pindexNew
        BY <1>0, <2>2, <2>4, <4>1
      <4>2. CASE txn.best \in Ancestors[pindexBest]
        BY <1>0, <2>3, <4>2, TrustOnPath
      <4> QED  BY <2>2, <3>1, <4>1, <4>2
    <3> QED  BY <1>0, <2>1, <2>2, <2>4, <3>2 DEF TrustInv
  <2>5. CASE Parent[pindexNew] # pindexBest
    BY <1>0, <2>1, <2>2, <2>3, <2>5 DEF TrustInv
  <2> QED  BY <2>4, <2>5
<1>16. CASE LearnRule
  BY <1>0, <1>16 DEF LearnRule, memory, TrustInv
<1>17. ASSUME NEW b \in Block, AddToBlockIndexFails(b) PROVE Goal
  BY <1>0, <1>17 DEF AddToBlockIndexFails, TrustInv
<1>18. CASE UNCHANGED vars
  BY <1>0, <1>18 DEF vars, TrustInv
<1> QED
  BY <1>1, <1>2, <1>3, <1>4, <1>5, <1>6, <1>7, <1>8, <1>9, <1>10, <1>11, <1>12,
     <1>13, <1>14, <1>15, <1>16, <1>17, <1>18
     DEF FaultyNext, SteadyNext, Connecting

LEMMA InitTrust == Init => TrustInv
  BY TreeAssumption DEF Init, TrustInv

\* A commit of txindex.dat moves hashBestChain to a block with more trust or
\* not at all, whatever crashed or failed before it (the walk down to
\* pindexIntermediate and the order of the postponed blocks in SetBestChain).
THEOREM TrustGrows == Spec => TrustOnlyGrows
<1>1. Init => TypeInv /\ TrustInv
  BY InitTypes, InitTrust
<1>2. TypeInv /\ TrustInv /\ [FaultyNext]_vars => TypeInv' /\ TrustInv'
  BY NextTypes, NextTrust
<1>3. TypeInv /\ TrustInv /\ [FaultyNext]_vars
        => [txdb.best' # txdb.best => Trust[txdb.best'] > Trust[txdb.best]]_vars
  BY NextTrust
<1> QED  BY <1>1, <1>2, <1>3, PTL DEF Spec, TrustOnlyGrows

-----------------------------------------------------------------------------
(***************************************************************************)
(* The links of the best chain.  pnext follows the committed best chain at *)
(* every step, not only when SetBestChain has returned: it is relinked     *)
(* with each commit, and both commits of the steady node end at pindexNew. *)
(* That a block gets its null pnext on being indexed does not break the    *)
(* chain, as all of the chain is indexed already.                          *)
(***************************************************************************)
LinksTo(next, top) ==
    \A p \in Block :
       IF p \in Ancestors[top] \ {top}
       THEN next[p] \in Ancestors[top] /\ Parent[next[p]] = p
       ELSE next[p] = NoBlock

LinksInv ==
    /\ AbstractInv
    /\ LinksTo(pnext, txdb.best)
    /\ call = "connected" => Parent[pindexNew] = pindexBest

\* The block above another on the way to one above both is the only one there.
LEMMA OneChildOnPath ==
    ASSUME NEW top \in Block, NEW b \in Ancestors[top] \ {Genesis},
           NEW c \in Ancestors[top] \ {Genesis}, Parent[b] = Parent[c]
    PROVE  b = c
<1>1. b \in Block \ {Genesis} /\ c \in Block \ {Genesis}
  BY TreeAssumption
<1>2. b \in Ancestors[c] \/ c \in Ancestors[b]
  BY TreeAssumption
<1> QED  BY <1>1, <1>2, NextToParent

\* A block other than the best one is under it exactly when a block of the
\* chain has it for parent.
LEMMA UnderIsParent ==
    ASSUME NEW top \in Block, NEW p \in Block
    PROVE  p \in Ancestors[top] \ {top}
              <=> \E c \in Ancestors[top] \ {Genesis} : Parent[c] = p
<1>1. ASSUME p \in Ancestors[top] \ {top}
      PROVE  \E c \in Ancestors[top] \ {Genesis} : Parent[c] = p
  BY <1>1, ChildOnPath
<1>2. ASSUME NEW c \in Ancestors[top] \ {Genesis}, Parent[c] = p
      PROVE  p \in Ancestors[top] \ {top}
  <2>1. c \in Block /\ Parent[c] \in Ancestors[c] /\ Ancestors[c] \subseteq Ancestors[top]
    BY SelfAncestor, TreeAssumption
  <2>2. Height[c] = Height[p] + 1 /\ Height[p] \in Nat /\ Height[c] \in Nat
    BY <1>2, <2>1, TreeAssumption
  <2>3. c = top \/ Height[c] < Height[top]
    BY TreeAssumption
  <2>4. Height[top] \in Nat
    BY TreeAssumption
  <2>5. p # top
    BY <2>2, <2>3, <2>4
  <2> QED  BY <1>2, <2>1, <2>5
<1> QED  BY <1>1, <1>2

\* Reorganize relinks the whole chain: the blocks under the fork keep the pnext
\* that both chains share, and no block that is left keeps one.
LEMMA RelinkedLinks ==
    ASSUME NEW old \in Block, NEW new \in Block, NEW fork \in Block, LinksTo(pnext, old),
           fork \in Ancestors[old] \cap Ancestors[new],
           \A a \in Ancestors[old] \cap Ancestors[new] : a \in Ancestors[fork],
           pnext' = Relinked(Ancestors[old] \ Ancestors[fork], Ancestors[new] \ Ancestors[fork])
    PROVE  LinksTo(pnext', new)
<1> DEFINE vDisconnect == Ancestors[old] \ Ancestors[fork]
           vConnect == Ancestors[new] \ Ancestors[fork]
<1>1. /\ Ancestors[old] \subseteq Block /\ Ancestors[new] \subseteq Block
      /\ Ancestors[fork] \subseteq Ancestors[old] /\ Ancestors[fork] \subseteq Ancestors[new]
      /\ Genesis \in Ancestors[fork]
  BY GenesisUnderAll, TreeAssumption
<1> SUFFICES ASSUME NEW p \in Block
             PROVE  IF p \in Ancestors[new] \ {new}
                    THEN pnext'[p] \in Ancestors[new] /\ Parent[pnext'[p]] = p
                    ELSE pnext'[p] = NoBlock
  BY DEF LinksTo
<1>2. pnext'[p] = IF \E b \in vConnect : Parent[b] = p
                  THEN CHOOSE b \in vConnect : Parent[b] = p
                  ELSE IF \E b \in vDisconnect : Parent[b] = p THEN NoBlock
                  ELSE pnext[p]
  BY DEF Relinked
<1>3. CASE \E b \in vConnect : Parent[b] = p
  <2>1. pnext'[p] \in vConnect /\ Parent[pnext'[p]] = p
    BY <1>2, <1>3
  <2>2. p \in Ancestors[new] \ {new}
    BY <1>1, <1>3, UnderIsParent
  <2> QED  BY <2>1, <2>2
<1>4. CASE ~\E b \in vConnect : Parent[b] = p
  <2>1. CASE p \in Ancestors[new] \ {new}
    <3>1. PICK c \in Ancestors[new] \ {Genesis} : Parent[c] = p
      BY <2>1, UnderIsParent
    <3>2. c \in Ancestors[fork] /\ c \in Ancestors[old]
      BY <1>1, <1>4, <3>1
    <3>3. ~\E b \in vDisconnect : Parent[b] = p
      BY <1>1, <3>1, <3>2, OneChildOnPath
    <3>4. p \in Ancestors[old] \ {old}
      BY <3>1, <3>2, UnderIsParent
    <3>5. pnext[p] \in Ancestors[old] /\ Parent[pnext[p]] = p
      BY <3>4 DEF LinksTo
    <3>6. pnext[p] # Genesis
      BY <3>5, TreeAssumption
    <3>7. pnext[p] = c
      BY <3>1, <3>2, <3>5, <3>6, OneChildOnPath
    <3> QED  BY <1>2, <1>4, <2>1, <3>1, <3>3, <3>7
  <2>2. CASE p \notin Ancestors[new] \ {new}
    <3>1. CASE \E b \in vDisconnect : Parent[b] = p
      BY <1>2, <1>4, <2>2, <3>1
    <3>2. CASE ~\E b \in vDisconnect : Parent[b] = p
      <4>1. ASSUME NEW c \in Ancestors[old] \ {Genesis}, Parent[c] = p PROVE FALSE
        <5>1. c \in Ancestors[new] \ {Genesis}
          BY <1>1, <3>2, <4>1
        <5> QED  BY <2>2, <4>1, <5>1, UnderIsParent
      <4>2. p \notin Ancestors[old] \ {old}
        BY <4>1, UnderIsParent
      <4>3. pnext[p] = NoBlock
        BY <4>2 DEF LinksTo
      <4> QED  BY <1>2, <1>4, <2>2, <3>2, <4>3
    <3> QED  BY <3>1, <3>2
  <2> QED  BY <2>1, <2>2
<1> QED  BY <1>3, <1>4

\* A block is added above the best one.
LEMMA AppendedLinks ==
    ASSUME NEW new \in Block \ {Genesis}, NEW next \in [Block -> Block \cup {NoBlock}],
           LinksTo(next, Parent[new])
    PROVE  LinksTo([next EXCEPT ![Parent[new]] = new], new)
<1> DEFINE after == [next EXCEPT ![Parent[new]] = new]
<1>1. /\ Parent[new] \in Block /\ Ancestors[new] = {new} \cup Ancestors[Parent[new]]
      /\ new \notin Ancestors[Parent[new]]
      /\ Parent[new] \in Ancestors[Parent[new]] /\ new \in Ancestors[new]
  BY SelfAncestor, TreeAssumption
<1> SUFFICES ASSUME NEW p \in Block
             PROVE  IF p \in Ancestors[new] \ {new}
                    THEN after[p] \in Ancestors[new] /\ Parent[after[p]] = p
                    ELSE after[p] = NoBlock
  BY DEF LinksTo
<1>2. CASE p = Parent[new]
  BY <1>1, <1>2
<1>3. CASE p # Parent[new]
  <2>1. after[p] = next[p]
    BY <1>1, <1>3
  <2> QED  BY <1>1, <1>3, <2>1 DEF LinksTo
<1> QED  BY <1>2, <1>3

LEMMA InitLinks == Init => LinksInv
<1> SUFFICES ASSUME Init PROVE LinksInv
  OBVIOUS
<1>1. AbstractInv
  BY InitSteady, InitStored DEF AbstractInv, Init
<1>2. Ancestors[Genesis] = {Genesis} /\ \A p \in Block : pnext[p] = NoBlock
  BY TreeAssumption DEF Init
<1> QED  BY <1>1, <1>2 DEF Init, LinksInv, LinksTo

LEMMA LinksKept ==
    ASSUME LinksInv, AbstractInv', [SteadyNext]_vars
    PROVE  LinksInv'
<1>0. /\ AbstractInv /\ TypeOK /\ LoopInv /\ SteadyInv /\ Stored /\ SteadyInv' /\ LoopInv'
      /\ pindexNew \in Block /\ pindexBest \in Block /\ cursor \in Block /\ txdb.best \in Block
      /\ LinksTo(pnext, txdb.best) /\ txdb'.best \in Block
  BY DEF LinksInv, AbstractInv, SteadyInv, TypeInv, TypeOK
<1>1. ASSUME NEW b \in Block, AddToBlockIndex(b) PROVE LinksInv'
  <2>1. /\ b \notin mapBlockIndex /\ pnext' = [pnext EXCEPT ![b] = NoBlock]
        /\ txdb' = txdb /\ call' \in {"idle", "begin"}
    BY <1>1 DEF AddToBlockIndex
  <2>2. Ancestors[txdb.best] \subseteq mapBlockIndex
    BY <1>0 DEF Stored
  <2>3. b \notin Ancestors[txdb.best]
    BY <2>1, <2>2
  <2>4. \A p \in Block : pnext'[p] = IF p = b THEN NoBlock ELSE pnext[p]
    BY <1>0, <2>1 DEF TypeOK
  <2>5. LinksTo(pnext', txdb'.best)
    BY <1>0, <2>1, <2>3, <2>4 DEF LinksTo
  <2> QED  BY <2>1, <2>5 DEF LinksInv
<1>2. CASE ReorganizeCommits
  <2>1. /\ cursor = pindexIntermediate /\ call = "reconnect" /\ txdb'.best = cursor
        /\ pnext' = Relinked(Ancestors[pindexBest] \ Ancestors[pfork],
                             Ancestors[cursor] \ Ancestors[pfork])
        /\ call' \in {"finish", "secondary"}
    BY <1>0, <1>2 DEF ReorganizeCommits, TypeOK
  <2>2. pfork \in Block /\ IsFork(pfork, cursor) /\ txdb.best = pindexBest
    BY <1>0, <2>1, PathsExist DEF SteadyInv
  <2>3. LinksTo(pnext', cursor)
    BY <1>0, <2>1, <2>2, RelinkedLinks DEF IsFork
  <2> QED  BY <2>1, <2>3 DEF LinksInv
<1>3. CASE SetBestChainInnerCommits
  <2>1. /\ call = "connected" /\ txdb' = txn /\ pnext' = [pnext EXCEPT ![Parent[txn.best]] = txn.best]
        /\ call' \in {"finish", "secondary"}
    BY <1>3 DEF SetBestChainInnerCommits
  <2>2. txn.best = pindexNew /\ Parent[pindexNew] = pindexBest /\ txdb.best = pindexBest
    BY <1>0, <2>1 DEF LoopInv, SteadyInv, LinksInv
  <2>3. pindexNew # Genesis
    BY <1>0, <2>2, TreeAssumption
  <2>4. LinksTo(pnext', pindexNew)
    <3>1. pnext \in [Block -> Block \cup {NoBlock}] /\ LinksTo(pnext, Parent[pindexNew])
      BY <1>0, <2>2 DEF TypeOK
    <3> QED  BY <1>0, <2>1, <2>2, <2>3, <3>1, AppendedLinks
  <2> QED  BY <2>1, <2>2, <2>4 DEF LinksInv
<1>4. ASSUME NEW b \in Block, SetBestChainInner(b) PROVE LinksInv'
  <2>1. call = "append" /\ UNCHANGED <<pnext, txdb, pindexNew, pindexBest>>
    BY <1>0, <1>4 DEF SetBestChainInner, memory, LoopInv
  <2> QED  BY <1>0, <2>1 DEF LinksInv, LinksTo, LoopInv
<1>5. CASE SetBestChain \/ DisconnectBlock \/ DisconnectedAll \/ ReorganizeFails \/ AppendFails
           \/ NewBestBlock \/ \E b \in Block : ReconnectBlock(b) \/ SecondaryFails(b)
  <2>1. UNCHANGED <<pnext, txdb>> /\ call' # "connected"
    BY <1>0, <1>5 DEF SetBestChain, DisconnectBlock, DisconnectedAll, ReorganizeFails, AppendFails,
                      NewBestBlock, ReconnectBlock, SecondaryFails, Return, memory
  <2> QED  BY <1>0, <2>1 DEF LinksInv, LinksTo
<1>6. CASE UNCHANGED vars
  BY <1>0, <1>6 DEF vars, LinksInv, LinksTo
<1> QED  BY <1>1, <1>2, <1>3, <1>4, <1>5, <1>6 DEF SteadyNext, Connecting

\* From any block of the best chain, pnext leads up to the best block, and no
\* other block has one (CBlockIndex's comment in main.h; Reorganize,
\* SetBestChainInner and AddToBlockIndex, which write it).
THEOREM LinksFollowBestChain == SteadySpec => []NextPointersLinkBestChain
<1>1. Init => LinksInv
  BY InitLinks
<1>2. LinksInv /\ AbstractInv' /\ [SteadyNext]_vars => LinksInv'
  BY LinksKept
<1>3. LinksInv => NextPointersLinkBestChain
  BY DEF LinksInv, LinksTo, AbstractInv, SteadyInv, NextPointersLinkBestChain
<1> QED  BY <1>1, <1>2, <1>3, AbstractInvariant, PTL DEF SteadySpec

-----------------------------------------------------------------------------
(***************************************************************************)
(* The index, through every crash.  The chain need not be valid: a         *)
(* crash may have left a block that does not connect as the best one in    *)
(* memory.  What holds all the same is where the index has its entries,    *)
(* and what the transaction that is open on it has done to them.           *)
(***************************************************************************)
\* What holds of the chain through every crash: types, what is stored and the
\* order of trust.
ChainInv == TypeInv /\ Stored /\ TrustInv

LEMMA NextChain ==
    ASSUME ChainInv, [CrashNext]_vars
    PROVE  ChainInv'
<1>1. TypeInv' /\ Stored'
  BY NextTypes, NextStored DEF ChainInv
<1>2. RestartFindsBlocks
  BY DEF ChainInv, Stored, RestartFindsBlocks, TypeInv, TypeOK
<1>3. TrustInv'
  BY <1>2, NextTrust DEF ChainInv, CrashNext, FaultyNext
<1> QED  BY <1>1, <1>3 DEF ChainInv

\* Every entry is for a block under b that has the transaction.
Placed(index, b) ==
    \A t \in Tx : ContainsTx(index, t) =>
       index.pos[t] \in Ancestors[b] /\ t \in BlockTxs(index.pos[t])

PlacedInv ==
    /\ Placed(txdb.index, txdb.best)
    /\ call \in {"idle", "begin", "append", "disconnect", "reconnect"}
          => txdb.best \in Ancestors[pindexBest]
    /\ call \in {"disconnect", "reconnect"} => Placed(txn.index, cursor)
    /\ call = "secondary" => txdb.best = cursor
    /\ call = "connected" => Placed(txn.index, txn.best)
    /\ call = "finish" => txdb.best \in Ancestors[pindexNew]

\* What has been disconnected is gone from the index, and what is there without
\* having been connected was there before.
OpenInv ==
    /\ call \in {"idle", "begin", "append", "secondary"} => txn = txdb
    /\ call = "disconnect" =>
          \A t \in Tx : ContainsTx(txn.index, t) =>
             /\ ContainsTx(txdb.index, t)
             /\ \A d \in Ancestors[pindexBest] \ Ancestors[cursor] : t \notin BlockTxs(d)
    /\ call = "reconnect" =>
          /\ pfork \in Ancestors[cursor]
          /\ \A t \in Tx : ContainsTx(txn.index, t) =>
                \/ \E a \in Ancestors[cursor] \ Ancestors[pfork] : t \in BlockTxs(a)
                \/ /\ ContainsTx(txdb.index, t)
                   /\ \A d \in Ancestors[pindexBest] \ Ancestors[pfork] : t \notin BlockTxs(d)
    /\ call = "connected" =>
          \A t \in Tx : ContainsTx(txn.index, t) =>
             ContainsTx(txdb.index, t) \/ t \in BlockTxs(txn.best)

LEMMA PlacedAbove ==
    ASSUME NEW index, NEW a \in Block, NEW b \in Block, a \in Ancestors[b], Placed(index, a)
    PROVE  Placed(index, b)
<1>1. Ancestors[a] \subseteq Ancestors[b]
  BY TreeAssumption
<1> QED  BY <1>1 DEF Placed

LEMMA ConnectedPlaced ==
    ASSUME NEW b \in Block \ {Genesis}, NEW index \in TxIndex, Placed(index, Parent[b])
    PROVE  /\ Placed(Connected(index, b), b)
           /\ \A t \in Tx : ContainsTx(Connected(index, b), t)
                                 <=> t \in BlockTxs(b) \/ ContainsTx(index, t)
<1>1. Ancestors[b] = {b} \cup Ancestors[Parent[b]] /\ b # NoBlock
  BY TreeAssumption
<1>2. \A t \in Tx : Connected(index, b).pos[t] = IF t \in BlockTxs(b) THEN b ELSE index.pos[t]
  BY DEF Connected
<1> QED  BY <1>1, <1>2 DEF Placed, ContainsTx

LEMMA DisconnectedPlaced ==
    ASSUME NEW b \in Block \ {Genesis}, NEW index \in TxIndex, Placed(index, b)
    PROVE  /\ Placed(Disconnected(index, b), Parent[b])
           /\ \A t \in Tx : ContainsTx(Disconnected(index, b), t)
                                 <=> t \notin BlockTxs(b) /\ ContainsTx(index, t)
<1>1. Ancestors[b] = {b} \cup Ancestors[Parent[b]]
  BY TreeAssumption
<1>2. \A t \in Tx : Disconnected(index, b).pos[t] = IF t \in BlockTxs(b) THEN NoBlock ELSE index.pos[t]
  BY DEF Disconnected
<1> QED  BY <1>1, <1>2 DEF Placed, ContainsTx

\* The invariants of the chain state that the pool and the miner rest on.
IndexInv == ChainInv /\ PlacedInv /\ OpenInv

LEMMA InitIndex == Init => IndexInv
<1> SUFFICES ASSUME Init PROVE IndexInv
  OBVIOUS
<1>1. ChainInv
  BY InitTypes, InitStored, InitTrust DEF ChainInv
<1>2. \A t \in Tx : ~ContainsTx(txdb.index, t)
  BY DEF Init, EmptyIndex, ContainsTx
<1>3. Genesis \in Ancestors[Genesis]
  BY TreeAssumption
<1> QED  BY <1>1, <1>2, <1>3 DEF Init, IndexInv, PlacedInv, Placed, OpenInv

LEMMA NextIndex ==
    ASSUME IndexInv, [CrashNext]_vars
    PROVE  IndexInv'
<1>1. ChainInv' /\ ChainInv
  BY NextChain DEF IndexInv
<1> SUFFICES PlacedInv' /\ OpenInv'
  BY <1>1 DEF IndexInv
<1>0. /\ TypeInv /\ TypeOK /\ TrustInv /\ PlacedInv /\ OpenInv
      /\ pindexNew \in Block /\ pindexBest \in Block /\ cursor \in Block /\ txdb.best \in Block
      /\ txdb \in [best : Block, index : TxIndex] /\ txn \in [best : Block, index : TxIndex]
      /\ txdb.index \in TxIndex /\ txn.index \in TxIndex
      /\ pfork \in Block /\ IsFork(pfork, pindexIntermediate)
      /\ pindexIntermediate \in Block /\ pindexIntermediate \in Ancestors[pindexNew]
      /\ \A b \in Block : b \in Ancestors[b]
  BY <1>1, PathsExist, SelfAncestor DEF IndexInv, ChainInv, TypeInv, TypeOK, IsIntermediate
<1>2. ASSUME NEW b \in Block, AddToBlockIndex(b) PROVE PlacedInv' /\ OpenInv'
  <2>1. /\ call = "idle" /\ call' \in {"idle", "begin"}
        /\ UNCHANGED <<pindexBest, txdb, txn>>
    BY <1>2 DEF AddToBlockIndex
  <2> QED  BY <1>0, <2>1 DEF PlacedInv, OpenInv
<1>3. CASE SetBestChain
  <2>1. /\ call = "begin" /\ call' \in {"append", "disconnect"} /\ cursor' = pindexBest
        /\ UNCHANGED <<pindexBest, pindexNew, txdb, txn>>
    BY <1>3 DEF SetBestChain, memory
  <2>2. Placed(txn.index, pindexBest) /\ txn = txdb
    BY <1>0, <2>1, PlacedAbove DEF PlacedInv, OpenInv
  <2> QED  BY <1>0, <2>1, <2>2 DEF PlacedInv, OpenInv
<1>4. CASE DisconnectBlock
  <2>1. /\ call = "disconnect" /\ call' = call /\ cursor' = Parent[cursor] /\ cursor # pfork
        /\ txn'.index = Disconnected(txn.index, cursor)
        /\ UNCHANGED <<pindexBest, txdb>>
    BY <1>0, <1>4 DEF DisconnectBlock, memory
  <2>2. cursor \in Block \ {Genesis} /\ Ancestors[cursor] = {cursor} \cup Ancestors[Parent[cursor]]
    BY <1>0, <2>1, DisconnectStays, TreeAssumption
  <2>3. /\ Placed(txn'.index, cursor')
        /\ \A t \in Tx : ContainsTx(txn'.index, t)
                            => t \notin BlockTxs(cursor) /\ ContainsTx(txn.index, t)
    BY <1>0, <2>1, <2>2, DisconnectedPlaced DEF PlacedInv
  <2> QED  BY <1>0, <2>1, <2>2, <2>3 DEF PlacedInv, OpenInv
<1>5. CASE DisconnectedAll
  <2>1. /\ call = "disconnect" /\ call' = "reconnect" /\ cursor = pfork /\ cursor' = cursor
        /\ UNCHANGED <<pindexBest, pindexNew, txdb, txn>>
    BY <1>5 DEF DisconnectedAll, memory
  <2>2. pfork' = pfork
    BY <2>1, PathsKept
  <2> QED  BY <1>0, <2>1, <2>2 DEF PlacedInv, OpenInv
<1>6. ASSUME NEW b \in Block, ReconnectBlock(b) PROVE PlacedInv' /\ OpenInv'
  <2>1. /\ call = "reconnect" /\ call' = call /\ cursor' = b /\ Parent[b] = cursor /\ b # Genesis
        /\ txn'.index = Connected(txn.index, b)
        /\ UNCHANGED <<pindexBest, pindexNew, txdb>>
    BY <1>0, <1>6 DEF ReconnectBlock, IsNextTo, memory
  <2>2. /\ Placed(txn'.index, b)
        /\ \A t \in Tx : ContainsTx(txn'.index, t) => t \in BlockTxs(b) \/ ContainsTx(txn.index, t)
    BY <1>0, <2>1, ConnectedPlaced DEF PlacedInv
  <2>3. /\ Ancestors[b] = {b} \cup Ancestors[cursor] /\ b \notin Ancestors[cursor]
        /\ pfork \in Ancestors[cursor] /\ Ancestors[pfork] \subseteq Ancestors[cursor]
    BY <1>0, <2>1, TreeAssumption DEF OpenInv
  <2>4. pfork' = pfork
    BY <2>1, PathsKept
  <2>5. \A t \in Tx : ContainsTx(txn'.index, t) =>
           \/ \E a \in Ancestors[b] \ Ancestors[pfork] : t \in BlockTxs(a)
           \/ /\ ContainsTx(txdb.index, t)
              /\ \A d \in Ancestors[pindexBest] \ Ancestors[pfork] : t \notin BlockTxs(d)
    BY <1>0, <2>1, <2>2, <2>3 DEF OpenInv
  <2> QED  BY <1>0, <2>1, <2>2, <2>3, <2>4, <2>5 DEF PlacedInv, OpenInv
<1>7. CASE ReorganizeFails \/ AppendFails
  <2>1. /\ call \in {"disconnect", "reconnect", "append"} /\ call' = "idle"
        /\ txn' = txdb /\ UNCHANGED <<pindexBest, txdb>>
    BY <1>7 DEF ReorganizeFails, AppendFails, Return, memory
  <2> QED  BY <1>0, <2>1 DEF PlacedInv, OpenInv
<1>8. CASE ReorganizeCommits
  <2>1. /\ call = "reconnect" /\ call' \in {"finish", "secondary"} /\ cursor' = cursor
        /\ cursor = pindexIntermediate /\ pindexNew' = pindexNew
        /\ txdb' = txn' /\ txn'.index = txn.index /\ txn'.best = cursor
    BY <1>0, <1>8 DEF ReorganizeCommits
  <2> QED  BY <1>0, <2>1 DEF PlacedInv, OpenInv
<1>9. ASSUME NEW b \in Block, SetBestChainInner(b) PROVE PlacedInv' /\ OpenInv'
  <2>1. /\ call \in {"append", "secondary"} /\ call' = "connected" /\ b # Genesis /\ Parent[b] = cursor
        /\ txn' = [best |-> b, index |-> Connected(txn.index, b)] /\ txdb' = txdb
    BY <1>9 DEF SetBestChainInner, IsNextTo
  <2>2. txn = txdb /\ Placed(txn.index, cursor)
    BY <1>0, <2>1, PlacedAbove DEF OpenInv, PlacedInv, TrustInv
  <2>3. /\ Placed(txn'.index, b)
        /\ \A t \in Tx : ContainsTx(txn'.index, t) => t \in BlockTxs(b) \/ ContainsTx(txn.index, t)
    BY <1>0, <2>1, <2>2, ConnectedPlaced
  <2> QED  BY <1>0, <2>1, <2>2, <2>3 DEF PlacedInv, OpenInv
<1>10. CASE SetBestChainInnerCommits
  <2>1. /\ call = "connected" /\ call' = IF txn.best = pindexNew THEN "finish" ELSE "secondary"
        /\ txdb' = txn /\ txn' = txn /\ cursor' = txn.best /\ pindexNew' = pindexNew
    BY <1>10 DEF SetBestChainInnerCommits
  <2> QED  BY <1>0, <2>1 DEF PlacedInv, OpenInv
<1>11. ASSUME NEW b \in Block, SecondaryFails(b) PROVE PlacedInv' /\ OpenInv'
  <2>1. /\ call = "secondary" /\ call' = "finish" /\ UNCHANGED <<txdb, pindexNew>>
    BY <1>11 DEF SecondaryFails
  <2> QED  BY <1>0, <2>1 DEF PlacedInv, OpenInv, TrustInv
<1>12. CASE NewBestBlock
  <2>1. /\ call = "finish" /\ call' = "idle" /\ pindexBest' = pindexNew
        /\ txn' = txdb /\ txdb' = txdb
    BY <1>12 DEF NewBestBlock, Return
  <2> QED  BY <1>0, <2>1 DEF PlacedInv, OpenInv
<1>13. CASE CrashAndLoadBlockIndex
  <2>1. call' = "idle" /\ pindexBest' = txdb.best /\ txn' = txdb /\ txdb' = txdb
    BY <1>13 DEF CrashAndLoadBlockIndex, Return
  <2> QED  BY <1>0, <2>1 DEF PlacedInv, OpenInv
<1>14. CASE UNCHANGED vars
  <2>1. pfork' = pfork
    BY <1>14, PathsKept DEF vars
  <2> QED  BY <1>0, <1>14, <2>1 DEF vars, PlacedInv, OpenInv
<1> QED
  BY <1>2, <1>3, <1>4, <1>5, <1>6, <1>7, <1>8, <1>9, <1>10, <1>11, <1>12, <1>13, <1>14
     DEF CrashNext, SteadyNext, Connecting
-----------------------------------------------------------------------------
(***************************************************************************)
(* The ledger, through every crash.  SteadyInv without its trust: what is  *)
(* committed and what the open transaction has made of it.  It needs that  *)
(* the block in memory is the committed one between two calls, which the   *)
(* code loses only where a postponed block does not connect.               *)
(***************************************************************************)
ConnectedInv ==
    /\ TypeInv
    /\ IndexOf(txdb.index, txdb.best) /\ ValidChain(txdb.best, rule)
    /\ call \in {"idle", "begin", "append", "secondary"} => txn = txdb
    /\ call \in {"idle", "begin", "append", "disconnect", "reconnect"} => txdb.best = pindexBest
    /\ call = "append" => cursor = pindexBest /\ Parent[pindexNew] = pindexBest
    /\ call = "secondary" => cursor = txdb.best
    /\ call = "disconnect" => IndexOf(txn.index, cursor)
    /\ call = "reconnect" =>
          /\ cursor \in Ancestors[pindexIntermediate]
          /\ IndexOf(txn.index, cursor) /\ ValidChain(cursor, rule)
    /\ call = "connected" => IndexOf(txn.index, txn.best) /\ ValidChain(txn.best, rule)

LEMMA InitConnected == Init => ConnectedInv
  BY InitTypes, GenesisValid DEF Init, ConnectedInv

\* A step of the node between two states in which nothing is amiss.
LEMMA NextConnected ==
    ASSUME ConnectedInv, [CrashNext]_vars, BestIsConnected'
    PROVE  ConnectedInv'
<1>0. /\ TypeInv /\ TypeOK
      /\ pindexNew \in Block /\ pindexBest \in Block /\ cursor \in Block
      /\ txdb.best \in Block /\ txdb.index \in TxIndex /\ txn.index \in TxIndex
      /\ txdb \in [best : Block, index : TxIndex] /\ txn \in [best : Block, index : TxIndex]
      /\ pfork \in Block /\ IsFork(pfork, pindexIntermediate)
  BY PathsExist DEF ConnectedInv, TypeInv, TypeOK
<1>t. TypeInv'
  BY <1>0, NextTypes
<1>1. ASSUME NEW b \in Block, AddToBlockIndex(b) PROVE ConnectedInv'
  <2>1. /\ call = "idle" /\ call' \in {"idle", "begin"}
        /\ UNCHANGED <<pindexBest, txdb, txn, rule>>
    BY <1>1 DEF AddToBlockIndex
  <2> QED  BY <1>t, <2>1 DEF ConnectedInv
<1>2. CASE SetBestChain
  <2>1. /\ call = "begin" /\ cursor' = pindexBest
        /\ call' = IF Parent[pindexNew] = pindexBest THEN "append" ELSE "disconnect"
        /\ UNCHANGED <<pindexBest, pindexNew, txdb, txn, rule>>
    BY <1>2 DEF SetBestChain, memory
  <2> QED  BY <1>t, <2>1 DEF ConnectedInv
<1>3. CASE DisconnectBlock
  <2>1. /\ call = "disconnect" /\ cursor # pfork /\ call' = call
        /\ txn'.index = Disconnected(txn.index, cursor) /\ cursor' = Parent[cursor]
        /\ UNCHANGED <<pindexBest, txdb, rule>>
    BY <1>0, <1>3 DEF DisconnectBlock, memory
  <2>2. cursor \in Block \ {Genesis} /\ cursor \in Ancestors[pindexBest]
    BY <1>0, <2>1, DisconnectStays DEF TypeInv, AboveFork
  <2>3. ValidLedger(cursor)
    BY <1>0, <2>1, <2>2, ValidPrefix DEF ConnectedInv, ValidChain
  <2>4. IndexOf(txn'.index, cursor')
    BY <1>0, <2>1, <2>2, <2>3, DisconnectUndoes DEF ConnectedInv
  <2> QED  BY <1>t, <2>1, <2>4 DEF ConnectedInv
<1>4. CASE DisconnectedAll
  <2>1. /\ call = "disconnect" /\ cursor = pfork /\ call' = "reconnect"
        /\ UNCHANGED <<pindexBest, pindexNew, cursor, txn, txdb, rule>>
    BY <1>4 DEF DisconnectedAll, memory
  <2>2. /\ cursor \in Ancestors[pindexIntermediate] /\ cursor \in Ancestors[pindexBest]
        /\ pindexIntermediate' = pindexIntermediate
    BY <1>0, <2>1, PathsKept DEF IsFork
  <2>3. ValidChain(cursor, rule)
    BY <1>0, <2>1, <2>2, ValidChainPrefix DEF ConnectedInv
  <2> QED  BY <1>t, <2>1, <2>2, <2>3 DEF ConnectedInv
<1>5. ASSUME NEW b \in Block, ReconnectBlock(b) PROVE ConnectedInv'
  <2>1. /\ call = "reconnect" /\ call' = call /\ cursor' = b
        /\ b \in Ancestors[pindexIntermediate] \ {Genesis} /\ Parent[b] = cursor
        /\ ConnectBlockOk(txn.index, b) /\ txn'.index = Connected(txn.index, b)
        /\ UNCHANGED <<pindexBest, pindexNew, txdb, rule>>
    BY <1>0, <1>5 DEF ReconnectBlock, IsNextTo, memory
  <2>2. IndexOf(Connected(txn.index, b), b) /\ ValidChain(b, rule)
    BY <1>0, <2>1, ConnectExtends DEF ConnectedInv
  <2>3. pindexIntermediate' = pindexIntermediate
    BY <2>1, PathsKept
  <2> QED  BY <1>t, <2>1, <2>2, <2>3 DEF ConnectedInv
<1>6. CASE ReorganizeFails \/ AppendFails \/ CrashAndLoadBlockIndex
  <2>1. call' = "idle" /\ txn' = txdb /\ UNCHANGED <<txdb, rule>>
    BY <1>6 DEF ReorganizeFails, AppendFails, CrashAndLoadBlockIndex, Return
  <2> QED  BY <1>t, <2>1 DEF ConnectedInv, BestIsConnected
<1>7. CASE ReorganizeCommits
  <2>1. /\ call = "reconnect" /\ call' \in {"finish", "secondary"} /\ cursor' = cursor
        /\ txdb'.best = cursor /\ txdb'.index = txn.index /\ txn' = txdb' /\ rule' = rule
    BY <1>0, <1>7 DEF ReorganizeCommits
  <2> QED  BY <1>t, <2>1 DEF ConnectedInv
<1>8. ASSUME NEW b \in Block, SetBestChainInner(b) PROVE ConnectedInv'
  <2>1. /\ call \in {"append", "secondary"} /\ call' = "connected"
        /\ b \in Block \ {Genesis} /\ Parent[b] = cursor /\ ConnectBlockOk(txn.index, b)
        /\ txn'.best = b /\ txn'.index = Connected(txn.index, b) /\ UNCHANGED <<txdb, rule>>
    BY <1>8 DEF SetBestChainInner, IsNextTo
  <2>2. txn = txdb /\ cursor = txdb.best
    BY <2>1 DEF ConnectedInv
  <2>3. IndexOf(Connected(txn.index, b), b) /\ ValidChain(b, rule)
    BY <1>0, <2>1, <2>2, ConnectExtends DEF ConnectedInv
  <2> QED  BY <1>t, <2>1, <2>3 DEF ConnectedInv
<1>9. CASE SetBestChainInnerCommits
  <2>1. /\ call = "connected" /\ call' \in {"finish", "secondary"}
        /\ cursor' = txn.best /\ txdb' = txn /\ txn' = txn /\ rule' = rule
    BY <1>9 DEF SetBestChainInnerCommits
  <2> QED  BY <1>t, <2>1 DEF ConnectedInv
<1>10. ASSUME NEW b \in Block, SecondaryFails(b) PROVE ConnectedInv'
  <2>1. call' = "finish" /\ UNCHANGED <<txdb, rule>>
    BY <1>10 DEF SecondaryFails
  <2> QED  BY <1>t, <2>1 DEF ConnectedInv
<1>11. CASE NewBestBlock
  <2>1. call' = "idle" /\ txn' = txdb /\ UNCHANGED <<txdb, rule>>
    BY <1>11 DEF NewBestBlock, Return
  <2> QED  BY <1>t, <2>1 DEF ConnectedInv, BestIsConnected
<1>12. CASE UNCHANGED vars
  <2>1. pindexIntermediate' = pindexIntermediate
    BY <1>12, PathsKept DEF vars
  <2> QED  BY <1>t, <1>12, <2>1 DEF vars, ConnectedInv
<1> QED
  BY <1>1, <1>2, <1>3, <1>4, <1>5, <1>6, <1>7, <1>8, <1>9, <1>10, <1>11, <1>12
     DEF CrashNext, SteadyNext, Connecting

\* The invariant of the node that crashes, and what every step of it does to
\* the committed chain.
LEMMA ConnectedInvariant == CrashSpec /\ []BestIsConnected => [](ConnectedInv /\ ChainInv)
<1>1. Init => ConnectedInv /\ ChainInv
  BY InitConnected, InitTypes, InitStored, InitTrust DEF ChainInv
<1>2. ConnectedInv /\ ChainInv /\ [CrashNext]_vars /\ BestIsConnected'
        => ConnectedInv' /\ ChainInv'
  BY NextConnected, NextChain
<1> QED  BY <1>1, <1>2, PTL DEF CrashSpec

\* A node that crashes at any point and as often as it likes keeps an index of
\* exactly its committed chain, and a valid chain: they are lost, if at all,
\* with the agreement of memory and disk between two calls (SetBestChain, where
\* it goes on after a postponed block that failed).
THEOREM CrashesKeepLedger ==
    CrashSpec /\ []BestIsConnected => [](LedgerIsOfBestChain /\ OnlyValidChains)
<1>1. ConnectedInv => LedgerIsOfBestChain /\ OnlyValidChains
  BY DEF ConnectedInv, LedgerIsOfBestChain, OnlyValidChains
<1> QED  BY <1>1, ConnectedInvariant, PTL

\* No action of the node with crashes has anything to do with the rules.
LEMMA RuleStays == [CrashNext]_vars => rule' = rule
  BY DEF CrashNext, SteadyNext, Connecting, AddToBlockIndex, SetBestChain, DisconnectBlock,
         DisconnectedAll, ReconnectBlock, ReorganizeFails, ReorganizeCommits, SetBestChainInner,
         SetBestChainInnerCommits, AppendFails, SecondaryFails, NewBestBlock,
         CrashAndLoadBlockIndex, vars

\* What the databases say changes with the commits and with AddToBlockIndex.
LEMMA OnlyCommitsShow ==
    ASSUME TypeOK, [CrashNext]_vars
    PROVE  \/ UNCHANGED <<blkdb.blocks, txdb>>
           \/ /\ ReorganizeCommits \/ SetBestChainInnerCommits
              /\ blkdb.blocks' = blkdb.blocks
           \/ \E b \in Block : AddToBlockIndex(b)
<1>1. ASSUME DisconnectBlock \/ (\E b \in Block : ReconnectBlock(b) \/ SetBestChainInner(b))
             \/ ReorganizeFails \/ AppendFails \/ \E b \in Block : SecondaryFails(b)
      PROVE  UNCHANGED <<blkdb.blocks, txdb>>
  BY <1>1 DEF TypeOK, DisconnectBlock, ReconnectBlock, ReorganizeFails, SetBestChainInner,
              AppendFails, SecondaryFails, ConnectBlockRefuses, BlkdbRecord, BlkdbConnected
<1>2. ASSUME SetBestChain \/ DisconnectedAll \/ NewBestBlock \/ CrashAndLoadBlockIndex
             \/ UNCHANGED vars
      PROVE  UNCHANGED <<blkdb.blocks, txdb>>
  BY <1>2 DEF SetBestChain, DisconnectedAll, NewBestBlock, CrashAndLoadBlockIndex, vars
<1>3. ASSUME ReorganizeCommits \/ SetBestChainInnerCommits PROVE blkdb.blocks' = blkdb.blocks
  BY <1>3 DEF ReorganizeCommits, SetBestChainInnerCommits
<1> QED  BY <1>1, <1>2, <1>3 DEF CrashNext, SteadyNext, Connecting

LEMMA CrashStepsMap ==
    ASSUME ConnectedInv, ConnectedInv', ChainInv, ChainInv', rule = FALSE, [CrashNext]_vars
    PROVE  [Abstract!Next]_(Abstract!vars)
<1>0. /\ TypeOK /\ TypeOK' /\ RestartFindsBlocks
      /\ txdb'.best \in Block /\ txdb'.best \in blkdb'.blocks
  BY DEF ConnectedInv, ChainInv, Stored, TypeInv, TypeOK, RestartFindsBlocks
<1>1. CASE UNCHANGED <<blkdb.blocks, txdb>>
  BY <1>1 DEF Abstract!vars
<1>2. CASE /\ ReorganizeCommits \/ SetBestChainInnerCommits
           /\ blkdb.blocks' = blkdb.blocks
  <2>1. CASE txdb'.best = txdb.best
    BY <1>2, <2>1 DEF Abstract!vars
  <2>2. CASE txdb'.best # txdb.best
    <3>1. Trust[txdb'.best] > Trust[txdb.best]
      BY <1>0, <2>2, NextTrust DEF ChainInv, CrashNext, FaultyNext
    <3>2. ValidChain(txdb'.best, FALSE)
      BY RuleStays DEF ConnectedInv
    <3>3. Abstract!ValidChain(txdb'.best, FALSE)
      BY <1>0, <3>2, SameValidity
    <3>4. Abstract!Switch(txdb'.best)
      BY <1>0, <1>2, <3>1, <3>3 DEF Abstract!Switch
    <3> QED  BY <1>0, <3>4 DEF Abstract!Next
  <2> QED  BY <2>1, <2>2
<1>3. ASSUME NEW b \in Block, AddToBlockIndex(b) PROVE Abstract!Next
  <2>1. Abstract!Learn(b)
    BY <1>3 DEF AddToBlockIndex, BlkdbAdded, ChainInv, Stored, Abstract!Learn
  <2> QED  BY <2>1 DEF Abstract!Next
<1> QED  BY <1>0, <1>1, <1>2, <1>3, OnlyCommitsShow

\* ... and moves it as BestChain says: every commit, the last of a
\* reorganization and each of a postponed block alike, is one move to a stored
\* and valid chain with more trust, and a restart is none.
THEOREM CrashesImplementBestChain == CrashSpec /\ []BestIsConnected => MovesToValidChains
<1>1. Init => Abstract!Init
  BY DEF Init, Abstract!Init
<1>2. CrashSpec => [](rule = FALSE)
  <2>1. Init => rule = FALSE
    BY DEF Init
  <2>2. rule = FALSE /\ [CrashNext]_vars => (rule = FALSE)'
    BY RuleStays
  <2> QED  BY <2>1, <2>2, PTL DEF CrashSpec
<1>3. /\ ConnectedInv /\ ChainInv /\ (ConnectedInv /\ ChainInv)' /\ rule = FALSE
      /\ [CrashNext]_vars
      => [Abstract!Next]_(Abstract!vars)
  BY CrashStepsMap
<1> QED
  BY <1>1, <1>2, <1>3, ConnectedInvariant, PTL
     DEF CrashSpec, MovesToValidChains, Abstract!SafeSpec

-----------------------------------------------------------------------------
(***************************************************************************)
(* A tree of valid blocks.  Nothing is ever refused on it, and then memory *)
(* and disk do agree whenever SetBestChain has returned.                   *)
(***************************************************************************)
AllChainsAreValid == \A b \in Block : ValidChain(b, FALSE)

FinishedInv == call = "finish" => txdb.best = pindexNew

\* Neither Reorganize, nor an append, nor a postponed block fails.
LEMMA NothingIsRefused ==
    ASSUME AllChainsAreValid, ConnectedInv, rule = FALSE
    PROVE  ~ReorganizeFails /\ ~AppendFails /\ \A b \in Block : ~SecondaryFails(b)
<1>0. /\ TypeInv /\ TypeOK
      /\ pindexNew \in Block /\ pindexBest \in Block /\ cursor \in Block
      /\ txdb.best \in Block /\ txn.index \in TxIndex
      /\ pindexIntermediate \in Block
  BY PathsExist DEF ConnectedInv, TypeInv, TypeOK
<1>1. ASSUME NEW top \in Block, NEW b \in Ancestors[top] \ {Genesis}, IndexOf(txn.index, Parent[b])
      PROVE  ConnectBlockOk(txn.index, b)
  BY <1>0, <1>1, RefusedIsInvalid DEF AllChainsAreValid
<1>2. ASSUME ReorganizeFails PROVE FALSE
  <2>1. CASE call = "disconnect" /\ cursor # pfork /\ ~CanDisconnect(txn.index, cursor)
    <3>1. cursor \in Block \ {Genesis} /\ ValidLedger(cursor)
      BY <1>0, <2>1, DisconnectStays DEF AllChainsAreValid, ValidChain
    <3> QED  BY <1>0, <2>1, <3>1, DisconnectUndoes DEF ConnectedInv
  <2>2. ASSUME NEW b \in Block, call = "reconnect", IsNextTo(b, pindexIntermediate),
               ~ConnectBlockOk(txn.index, b)
        PROVE  FALSE
    BY <1>0, <1>1, <2>2 DEF ConnectedInv, IsNextTo
  <2> QED  BY <1>2, <2>1, <2>2 DEF ReorganizeFails, ConnectBlockRefuses
<1>3. ASSUME NEW b \in Block, call \in {"append", "secondary"}, IsNextTo(b, pindexNew)
      PROVE  ConnectBlockOk(txn.index, b)
  <2>1. IndexOf(txn.index, cursor)
    BY <1>3 DEF ConnectedInv
  <2> QED  BY <1>0, <1>1, <1>3, <2>1 DEF IsNextTo
<1>4. ASSUME AppendFails PROVE FALSE
  <2>1. call = "append" /\ ~ConnectBlockOk(txn.index, pindexNew)
    BY <1>4 DEF AppendFails, ConnectBlockRefuses
  <2>2. pindexNew # Genesis /\ pindexNew \in Ancestors[pindexNew] /\ Parent[pindexNew] = cursor
    BY <1>0, <2>1, SelfAncestor, TreeAssumption DEF ConnectedInv
  <2> QED  BY <1>0, <1>3, <2>1, <2>2 DEF IsNextTo
<1> QED  BY <1>2, <1>3, <1>4 DEF SecondaryFails, ConnectBlockRefuses

\* SetBestChain ends with its argument committed.
LEMMA NextFinished ==
    ASSUME AllChainsAreValid, ConnectedInv, FinishedInv, rule = FALSE, [CrashNext]_vars
    PROVE  FinishedInv' /\ BestIsConnected'
<1>0. /\ TypeOK /\ ~ReorganizeFails /\ ~AppendFails /\ \A b \in Block : ~SecondaryFails(b)
  BY NothingIsRefused DEF ConnectedInv, TypeInv
<1>1. CASE ReorganizeCommits
  BY <1>0, <1>1 DEF ReorganizeCommits, FinishedInv, BestIsConnected, TypeOK
<1>2. CASE SetBestChainInnerCommits
  BY <1>2 DEF SetBestChainInnerCommits, FinishedInv, BestIsConnected
<1>3. CASE NewBestBlock
  BY <1>3 DEF NewBestBlock, Return, FinishedInv, BestIsConnected
<1>4. CASE CrashAndLoadBlockIndex
  BY <1>4 DEF CrashAndLoadBlockIndex, Return, FinishedInv, BestIsConnected
<1>5. ASSUME NEW b \in Block, AddToBlockIndex(b) PROVE FinishedInv' /\ BestIsConnected'
  BY <1>5 DEF AddToBlockIndex, FinishedInv, BestIsConnected, ConnectedInv
<1>6. CASE SetBestChain \/ DisconnectBlock \/ DisconnectedAll
           \/ \E b \in Block : ReconnectBlock(b) \/ SetBestChainInner(b)
  <2>1. call' \notin {"idle", "finish"}
    BY <1>6 DEF SetBestChain, DisconnectBlock, DisconnectedAll, ReconnectBlock, SetBestChainInner
  <2> QED  BY <2>1 DEF FinishedInv, BestIsConnected
<1>7. CASE UNCHANGED vars
  BY <1>7 DEF vars, FinishedInv, BestIsConnected, ConnectedInv
<1> QED
  BY <1>0, <1>1, <1>2, <1>3, <1>4, <1>5, <1>6, <1>7 DEF CrashNext, SteadyNext, Connecting

\* On a tree of valid blocks the hypothesis of the two theorems above is met by
\* every behaviour: the best block in memory is the committed one whenever
\* SetBestChain has returned, wherever the node crashed before.
THEOREM CrashesKeepBestConnected ==
    ASSUME AllChainsAreValid
    PROVE  CrashSpec => []BestIsConnected
<1> DEFINE ValidInv == ConnectedInv /\ FinishedInv /\ rule = FALSE
<1>1. Init => ValidInv
  BY InitConnected DEF Init, FinishedInv
<1>2. ValidInv /\ [CrashNext]_vars => ValidInv'
  BY NextConnected, NextFinished, RuleStays
<1>3. ValidInv => BestIsConnected
  BY DEF ConnectedInv, BestIsConnected
<1> HIDE DEF ValidInv
<1> QED  BY <1>1, <1>2, <1>3, PTL DEF CrashSpec

-----------------------------------------------------------------------------
(***************************************************************************)
(* The links, in memory and on disk, when the process ends only between    *)
(* two calls of SetBestChain and the tree is of valid blocks.  In memory   *)
(* they are those of the committed chain; in blkindex.dat those of the     *)
(* chain that the loops have reached, because hashNext is written block by *)
(* block with no transaction open on it.  With the two in one state again  *)
(* when SetBestChain has returned, a restart reads the right ones.         *)
(***************************************************************************)
DiskTop ==
    IF call \in {"disconnect", "reconnect"} THEN cursor
    ELSE IF call = "connected" THEN txn.best ELSE txdb.best

DiskLinksInv ==
    /\ LinksTo(pnext, txdb.best)
    /\ LinksTo(blkdb.next, DiskTop)
    /\ call = "reconnect" => pfork \in Ancestors[cursor]
    /\ call = "connected" => txn.best # Genesis /\ Parent[txn.best] = txdb.best

\* hashNext of the block below is cleared.
LEMMA CutLinks ==
    ASSUME NEW b \in Block \ {Genesis}, NEW next \in [Block -> Block \cup {NoBlock}],
           LinksTo(next, b)
    PROVE  LinksTo([next EXCEPT ![Parent[b]] = NoBlock], Parent[b])
<1> DEFINE after == [next EXCEPT ![Parent[b]] = NoBlock]
<1>1. Parent[b] \in Block /\ Ancestors[b] = {b} \cup Ancestors[Parent[b]]
  BY TreeAssumption
<1> SUFFICES ASSUME NEW p \in Block
             PROVE  IF p \in Ancestors[Parent[b]] \ {Parent[b]}
                    THEN after[p] \in Ancestors[Parent[b]] /\ Parent[after[p]] = p
                    ELSE after[p] = NoBlock
  BY DEF LinksTo
<1>2. CASE p = Parent[b]
  BY <1>1, <1>2
<1>3. CASE p # Parent[b]
  <2>1. after[p] = next[p]
    BY <1>1, <1>3
  <2>2. b \notin Ancestors[Parent[b]]
    BY TreeAssumption
  <2> QED  BY <1>1, <1>3, <2>1, <2>2 DEF LinksTo
<1> QED  BY <1>2, <1>3

\* The links of a chain are kept when a block above it or beside it loses the
\* one it has not got.
LEMMA ClearedLinks ==
    ASSUME NEW top \in Block, NEW b \in Block, b \notin Ancestors[top],
           NEW next \in [Block -> Block \cup {NoBlock}], LinksTo(next, top)
    PROVE  [next EXCEPT ![b] = NoBlock] = next /\ next[b] = NoBlock
<1>1. next[b] = NoBlock
  BY DEF LinksTo
<1> QED  BY <1>1

\* What ConnectBlock leaves in blkindex.dat links the chain that ends in b.
LEMMA ConnectedLinks ==
    ASSUME TypeOK, NEW b \in Block \ {Genesis}, LinksTo(blkdb.next, Parent[b]), pnext[b] = NoBlock
    PROVE  LinksTo(BlkdbConnected(b).next, b)
<1>1. /\ blkdb.next \in [Block -> Block \cup {NoBlock}]
      /\ blkdb \in [blocks : SUBSET Block, next : [Block -> Block \cup {NoBlock}]]
      /\ Parent[b] \in Block /\ b \notin Ancestors[Parent[b]]
  BY TreeAssumption DEF TypeOK
<1>2. [blkdb.next EXCEPT ![b] = pnext[b]] = blkdb.next
  BY <1>1, ClearedLinks
<1>3. BlkdbConnected(b).next = [blkdb.next EXCEPT ![Parent[b]] = b]
  BY <1>1, <1>2 DEF BlkdbConnected
<1> QED  BY <1>1, <1>3, AppendedLinks

LEMMA InitDiskLinks == Init => DiskLinksInv
<1> SUFFICES ASSUME Init PROVE DiskLinksInv
  OBVIOUS
<1>1. Ancestors[Genesis] = {Genesis}
  BY TreeAssumption
<1> QED  BY <1>1 DEF Init, DiskLinksInv, DiskTop, LinksTo

RestartNext == SteadyNext \/ (call = "idle" /\ CrashAndLoadBlockIndex)

LEMMA NextDiskLinks ==
    ASSUME AllChainsAreValid, ConnectedInv, Stored, rule = FALSE, DiskLinksInv, [RestartNext]_vars
    PROVE  DiskLinksInv'
<1>0. /\ TypeInv /\ TypeOK
      /\ pindexNew \in Block /\ pindexBest \in Block /\ cursor \in Block /\ txdb.best \in Block
      /\ txdb \in [best : Block, index : TxIndex] /\ txn \in [best : Block, index : TxIndex]
      /\ pnext \in [Block -> Block \cup {NoBlock}]
      /\ blkdb \in [blocks : SUBSET Block, next : [Block -> Block \cup {NoBlock}]]
      /\ blkdb.next \in [Block -> Block \cup {NoBlock}]
      /\ pfork \in Block /\ IsFork(pfork, pindexIntermediate)
      /\ ~ReorganizeFails /\ ~AppendFails /\ \A b \in Block : ~SecondaryFails(b)
  BY PathsExist, NothingIsRefused DEF ConnectedInv, TypeInv, TypeOK
<1>1. ASSUME NEW b \in Block, AddToBlockIndex(b) PROVE DiskLinksInv'
  <2>1. /\ call = "idle" /\ call' \in {"idle", "begin"} /\ b \notin mapBlockIndex
        /\ pnext' = [pnext EXCEPT ![b] = NoBlock] /\ txdb' = txdb
        /\ blkdb'.next = [blkdb.next EXCEPT ![b] = NoBlock]
    BY <1>1 DEF AddToBlockIndex, BlkdbAdded
  <2>2. b \notin Ancestors[txdb.best]
    BY <2>1 DEF Stored
  <2>3. pnext' = pnext
    BY <1>0, <2>1, <2>2, ClearedLinks DEF DiskLinksInv
  <2>4. blkdb'.next = blkdb.next
    BY <1>0, <2>1, <2>2, ClearedLinks DEF DiskLinksInv, DiskTop
  <2> QED  BY <2>1, <2>3, <2>4 DEF DiskLinksInv, DiskTop, LinksTo
<1>2. CASE SetBestChain
  <2>1. /\ call = "begin" /\ call' \in {"append", "disconnect"} /\ cursor' = pindexBest
        /\ UNCHANGED <<pnext, txdb, blkdb>>
    BY <1>2 DEF SetBestChain, memory
  <2>2. txdb.best = pindexBest
    BY <2>1 DEF ConnectedInv
  <2> QED  BY <2>1, <2>2 DEF DiskLinksInv, DiskTop, LinksTo
<1>3. CASE DisconnectBlock
  <2>1. /\ call = "disconnect" /\ call' = call /\ cursor # pfork /\ cursor' = Parent[cursor]
        /\ UNCHANGED <<pnext, txdb>>
        /\ blkdb'.next = [blkdb.next EXCEPT ![Parent[cursor]] = NoBlock]
    BY <1>0, <1>3 DEF DisconnectBlock, memory
  <2>2. cursor \in Block \ {Genesis}
    BY <1>0, <2>1, DisconnectStays
  <2>3. LinksTo([blkdb.next EXCEPT ![Parent[cursor]] = NoBlock], Parent[cursor])
    BY <1>0, <2>1, <2>2, CutLinks DEF DiskLinksInv, DiskTop
  <2> QED  BY <2>1, <2>3 DEF DiskLinksInv, DiskTop, LinksTo
<1>4. CASE DisconnectedAll
  <2>1. /\ call = "disconnect" /\ call' = "reconnect" /\ cursor = pfork
        /\ UNCHANGED <<pnext, txdb, blkdb, cursor, pindexBest, pindexNew>>
    BY <1>4 DEF DisconnectedAll, memory
  <2>2. pfork' = pfork /\ pfork \in Ancestors[pfork]
    BY <1>0, <2>1, PathsKept, SelfAncestor
  <2> QED  BY <2>1, <2>2 DEF DiskLinksInv, DiskTop, LinksTo
<1>5. ASSUME NEW b \in Block, ReconnectBlock(b) PROVE DiskLinksInv'
  <2>1. /\ call = "reconnect" /\ call' = call /\ cursor' = b
        /\ b \in Ancestors[pindexIntermediate] \ {Genesis} /\ Parent[b] = cursor
        /\ blkdb' = BlkdbConnected(b)
        /\ UNCHANGED <<pnext, txdb, pindexBest, pindexNew>>
    BY <1>5 DEF ReconnectBlock, IsNextTo, memory
  <2>2. /\ Ancestors[b] = {b} \cup Ancestors[cursor] /\ b \notin Ancestors[cursor]
        /\ pfork \in Ancestors[cursor] /\ Ancestors[pfork] \subseteq Ancestors[cursor]
    BY <1>0, <2>1, TreeAssumption DEF DiskLinksInv
  <2>3. b \notin Ancestors[pindexBest] /\ txdb.best = pindexBest
    BY <1>0, <2>1, <2>2 DEF IsFork, ConnectedInv
  <2>4. pnext[b] = NoBlock
    BY <1>0, <2>3, ClearedLinks DEF DiskLinksInv
  <2>5. LinksTo(BlkdbConnected(b).next, b)
    BY <1>0, <2>1, <2>4, ConnectedLinks DEF DiskLinksInv, DiskTop
  <2>6. pfork' = pfork
    BY <2>1, PathsKept
  <2> QED  BY <2>1, <2>2, <2>5, <2>6 DEF DiskLinksInv, DiskTop, LinksTo
<1>6. CASE ReorganizeCommits
  <2>1. /\ cursor = pindexIntermediate /\ call = "reconnect" /\ txdb'.best = cursor
        /\ pnext' = Relinked(Ancestors[pindexBest] \ Ancestors[pfork],
                             Ancestors[cursor] \ Ancestors[pfork])
        /\ call' \in {"finish", "secondary"} /\ blkdb' = blkdb
    BY <1>0, <1>6 DEF ReorganizeCommits
  <2>2. IsFork(pfork, cursor) /\ txdb.best = pindexBest
    BY <1>0, <2>1 DEF ConnectedInv
  <2>3. LinksTo(pnext', cursor)
    BY <1>0, <2>1, <2>2, RelinkedLinks DEF IsFork, DiskLinksInv
  <2> QED  BY <2>1, <2>3 DEF DiskLinksInv, DiskTop, LinksTo
<1>7. ASSUME NEW b \in Block, SetBestChainInner(b) PROVE DiskLinksInv'
  <2>1. /\ call \in {"append", "secondary"} /\ call' = "connected"
        /\ b # Genesis /\ Parent[b] = cursor
        /\ txn'.best = b /\ blkdb' = BlkdbConnected(b) /\ UNCHANGED <<pnext, txdb>>
    BY <1>7 DEF SetBestChainInner, IsNextTo, memory
  <2>2. Parent[b] = txdb.best /\ b \notin Ancestors[txdb.best]
    BY <2>1, TreeAssumption DEF ConnectedInv
  <2>3. pnext[b] = NoBlock
    BY <1>0, <2>2, ClearedLinks DEF DiskLinksInv
  <2>4. LinksTo(BlkdbConnected(b).next, b)
    BY <1>0, <2>1, <2>2, <2>3, ConnectedLinks DEF DiskLinksInv, DiskTop
  <2> QED  BY <2>1, <2>2, <2>4 DEF DiskLinksInv, DiskTop, LinksTo
<1>8. CASE SetBestChainInnerCommits
  <2>1. /\ call = "connected" /\ txdb' = txn /\ txn' = txn /\ blkdb' = blkdb
        /\ pnext' = [pnext EXCEPT ![Parent[txn.best]] = txn.best]
        /\ call' \in {"finish", "secondary"}
    BY <1>8 DEF SetBestChainInnerCommits
  <2>2. txn.best \in Block \ {Genesis} /\ Parent[txn.best] = txdb.best
    BY <1>0, <2>1 DEF DiskLinksInv
  <2>3. LinksTo([pnext EXCEPT ![Parent[txn.best]] = txn.best], txn.best)
    BY <1>0, <2>2, AppendedLinks DEF DiskLinksInv
  <2> QED  BY <2>1, <2>3 DEF DiskLinksInv, DiskTop, LinksTo
<1>9. CASE NewBestBlock
  <2>1. call = "finish" /\ call' = "idle" /\ UNCHANGED <<pnext, txdb, blkdb>>
    BY <1>9 DEF NewBestBlock, Return
  <2> QED  BY <2>1 DEF DiskLinksInv, DiskTop, LinksTo
<1>10. CASE call = "idle" /\ CrashAndLoadBlockIndex
  <2>1. call' = "idle" /\ pnext' = blkdb.next /\ UNCHANGED <<txdb, blkdb>>
    BY <1>10 DEF CrashAndLoadBlockIndex, Return
  <2> QED  BY <1>10, <2>1 DEF DiskLinksInv, DiskTop, LinksTo
<1>11. CASE UNCHANGED vars
  <2>1. pfork' = pfork
    BY <1>11, PathsKept DEF vars
  <2> QED  BY <1>11, <2>1 DEF vars, DiskLinksInv, DiskTop, LinksTo
<1> QED
  BY <1>0, <1>1, <1>2, <1>3, <1>4, <1>5, <1>6, <1>7, <1>8, <1>9, <1>10, <1>11
     DEF RestartNext, SteadyNext, Connecting

\* The node with restarts between its calls, on a tree of valid blocks.
ValidInv == ConnectedInv /\ Stored /\ FinishedInv /\ rule = FALSE /\ DiskLinksInv

LEMMA InitValid == Init => ValidInv
  BY InitConnected, InitStored, InitDiskLinks DEF Init, FinishedInv, ValidInv

LEMMA NextValid ==
    ASSUME AllChainsAreValid, ValidInv, [RestartNext]_vars
    PROVE  ValidInv'
<1>1. [CrashNext]_vars
  BY DEF RestartNext, CrashNext
<1>2. FinishedInv' /\ BestIsConnected' /\ rule' = rule
  BY <1>1, NextFinished, RuleStays DEF ValidInv
<1>3. ConnectedInv'
  BY <1>1, <1>2, NextConnected DEF ValidInv
<1>4. Stored'
  BY <1>1, NextStored DEF ValidInv, ConnectedInv
<1>5. DiskLinksInv'
  BY NextDiskLinks DEF ValidInv
<1> QED  BY <1>2, <1>3, <1>4, <1>5 DEF ValidInv

LEMMA ValidIsLinked == ValidInv => NextPointersLinkBestChain
  BY DEF ValidInv, ConnectedInv, DiskLinksInv, LinksTo, NextPointersLinkBestChain

\* A restart between two calls reads from blkindex.dat the links it had in
\* memory: pnext leads through the best chain still, and nowhere else
\* (DisconnectBlock and ConnectBlock, which write hashNext, LoadBlockIndex,
\* which reads it).
THEOREM RestartsKeepLinks ==
    ASSUME AllChainsAreValid
    PROVE  Init /\ [][RestartNext]_vars => []NextPointersLinkBestChain
<1>1. ValidInv /\ [RestartNext]_vars => ValidInv'
  BY NextValid
<1> QED  BY <1>1, InitValid, ValidIsLinked, PTL
=============================================================================
