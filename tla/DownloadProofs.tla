--------------------------- MODULE DownloadProofs ---------------------------
(***************************************************************************)
(* Theorems about OrphanBlocks, for every block tree, any stakes, any      *)
(* blocks that AcceptBlock refuses and any order of arrival, with restarts *)
(* at any point or, in the second, at any point outside SetBestChain.      *)
(*                                                                         *)
(* And about Download, for any peers and any growth of their chains: it    *)
(* does with blocks what ProcessBlock alone does, and keeps sight of those *)
(* announced to it.                                                        *)
(***************************************************************************)
EXTENDS Download, ChainStateProofs

\* ProcessBlock of any block at any time; the messages of Download only choose
\* which and when.
OrphanBlocksNext ==
    \/ Processing
    \/ \E b \in Block : ReceiveBlock(b) \/ ReceiveOrphan(b)
    \/ Restart

OrphanBlocksSpec == InitOrphanBlocks /\ [][OrphanBlocksNext]_orphanVars

-----------------------------------------------------------------------------
(***************************************************************************)
(* Inside ProcessBlock the two maps do not agree: the orphans of the       *)
(* queue's head are taken out of mapOrphanBlocks one by one, and out of    *)
(* mapOrphanBlocksByPrev together, when the next of the queue is taken.    *)
(* What is left of them is orphansLeft, with the one AcceptBlock works on; *)
(* under every other block the maps agree.  No block is queued twice, or   *)
(* the second time would find the entries of the first.                    *)
(***************************************************************************)
OrphanTypes ==
    /\ mapOrphanBlocks \subseteq Block
    /\ mapOrphanBlocksByPrev \in [Block -> SUBSET Block]
    /\ vWorkQueue \in Seq(Block)
    /\ orphansLeft \subseteq Block
    /\ accepting \in Block \cup {NoBlock}

\* The orphans that wait for p.
Waiting(p) == {b \in mapOrphanBlocks : Parent[b] = p}

\* Those of the queue's head that have not been dealt with.
Remaining == orphansLeft \cup ({accepting} \ {NoBlock})

HeadInv ==
    IF vWorkQueue = << >>
    THEN /\ orphansLeft = {}
         /\ accepting \notin mapOrphanBlocks
         /\ mapOrphanBlocks \cap mapBlockIndex = {}
         /\ \A p \in Block : mapOrphanBlocksByPrev[p] = Waiting(p)
    ELSE /\ mapOrphanBlocks \cap mapBlockIndex \subseteq {accepting}
         /\ Waiting(Head(vWorkQueue)) = Remaining /\ accepting \notin orphansLeft
         /\ \A p \in Block \ {Head(vWorkQueue)} : mapOrphanBlocksByPrev[p] = Waiting(p)

QueueInv ==
    /\ \A i \in 1..Len(vWorkQueue) : vWorkQueue[i] \notin mapOrphanBlocks
    /\ \A i, j \in 1..Len(vWorkQueue) : vWorkQueue[i] = vWorkQueue[j] => i = j

StakeInv == setStakeSeenOrphan \subseteq StakesOf(mapOrphanBlocks)

OrphanInv == OrphanTypes /\ HeadInv /\ QueueInv /\ StakeInv

LEMMA InitOrphanInv == InitOrphanBlocks => OrphanInv
  BY TreeAssumption
     DEF InitOrphanBlocks, OrphanInv, OrphanTypes, HeadInv, QueueInv, StakeInv, Waiting

\* SetBestChain indexes nothing.
LEMMA ChainStepIndexes == ChainStep => UNCHANGED mapBlockIndex
  BY DEF ChainStep, ReorganizeFails, AppendFails, SetBestChain, DisconnectBlock, DisconnectedAll,
     ReconnectBlock, ReorganizeCommits, SetBestChainInner, SetBestChainInnerCommits,
     SecondaryFails, NewBestBlock, memory

LEMMA ErasedStakes ==
    ASSUME StakeInv, NEW b, OrphanErased(b)
    PROVE  StakeInv'
  BY DEF StakeInv, StakesOf, OrphanErased

LEMMA NextOrphanInv ==
    ASSUME OrphanInv, [OrphanBlocksNext]_orphanVars
    PROVE  OrphanInv'
<1> USE DEF OrphanInv
<1>0. NoBlock \notin Block /\ \A b \in Block \ {Genesis} : Parent[b] \in Block
  BY TreeAssumption
<1>1. CASE UNCHANGED <<orphanMaps, vWorkQueue, orphansLeft, accepting, mapBlockIndex>>
  BY <1>1 DEF orphanMaps, OrphanTypes, HeadInv, QueueInv, StakeInv, Waiting, Remaining
<1>2. CASE ChainStep
  BY <1>1, <1>2, ChainStepIndexes DEF ChainStep
<1>3. CASE ReceivedReturns
  <2>1. /\ vWorkQueue = << >> /\ accepting \in Block /\ accepting' = NoBlock
        /\ UNCHANGED <<mapOrphanBlocks, mapOrphanBlocksByPrev, setStakeSeenOrphan, mapBlockIndex>>
    BY <1>3 DEF ReceivedReturns, OrphanTypes, vars, orphanMaps
  <2>2. CASE accepted
    <3>1. vWorkQueue' = <<accepting>> /\ orphansLeft' = mapOrphanBlocksByPrev[accepting]
      BY <1>3, <2>2 DEF ReceivedReturns
    <3>2. OrphanTypes'
      BY <2>1, <3>1 DEF OrphanTypes
    <3>a. vWorkQueue' # << >> /\ Head(vWorkQueue') = accepting
      BY <3>1
    <3>b. \A p \in Block : Waiting(p)' = Waiting(p) /\ mapOrphanBlocksByPrev[p] = Waiting(p)
      BY <2>1 DEF HeadInv, Waiting
    <3>c. orphansLeft' = Waiting(accepting) /\ NoBlock \notin orphansLeft'
      BY <1>0, <2>1, <3>1, <3>b DEF OrphanTypes, Waiting
    <3>d. Remaining' = Waiting(accepting)
      BY <2>1, <3>c DEF Remaining
    <3>e. mapOrphanBlocks' \cap mapBlockIndex' = {}
      BY <2>1 DEF HeadInv
    <3>3. HeadInv'
      BY <2>1, <3>a, <3>b, <3>c, <3>d, <3>e DEF HeadInv
    <3>4. QueueInv' /\ StakeInv'
      BY <2>1, <3>1 DEF HeadInv, QueueInv, StakeInv
    <3> QED  BY <3>2, <3>3, <3>4
  <2>3. CASE ~accepted
    <3>1. UNCHANGED <<vWorkQueue, orphansLeft>>
      BY <1>3, <2>3 DEF ReceivedReturns
    <3> QED  BY <1>0, <2>1, <3>1 DEF OrphanTypes, HeadInv, QueueInv, StakeInv, Waiting
  <2> QED  BY <2>2, <2>3
<1>4. ASSUME NEW b \in Block, TryOrphan(b) PROVE OrphanInv'
  <2>1. /\ b \in orphansLeft /\ orphansLeft' = orphansLeft \ {b}
        /\ accepting = NoBlock /\ accepting' = b
        /\ mapBlockIndex' = mapBlockIndex \cup {b} /\ b \notin mapBlockIndex
        /\ UNCHANGED <<mapOrphanBlocks, mapOrphanBlocksByPrev, setStakeSeenOrphan, vWorkQueue>>
    BY <1>4 DEF TryOrphan, AcceptBlock, AddToBlockIndex, orphanMaps
  <2>2. vWorkQueue # << >>
    BY <2>1 DEF HeadInv
  <2>3. Remaining' = Remaining
    BY <1>0, <2>1 DEF Remaining
  <2>4. HeadInv'
    BY <1>0, <2>1, <2>2, <2>3 DEF HeadInv, Waiting, OrphanTypes
  <2> QED  BY <2>1, <2>4 DEF OrphanTypes, QueueInv, StakeInv
<1>5. ASSUME NEW b \in Block, OrphanRefused(b) PROVE OrphanInv'
  <2>1. /\ b \in orphansLeft /\ orphansLeft' = orphansLeft \ {b}
        /\ accepting = NoBlock /\ mapOrphanBlocks' = mapOrphanBlocks \ {b}
        /\ OrphanErased(b)
        /\ UNCHANGED <<mapBlockIndex, mapOrphanBlocksByPrev, vWorkQueue, accepting>>
    BY <1>5 DEF OrphanRefused, OrphanErased, vars
  <2>2. vWorkQueue # << >> /\ Parent[b] = Head(vWorkQueue)
    BY <2>1 DEF HeadInv, Waiting, Remaining
  <2>3. HeadInv'
    BY <1>0, <2>1, <2>2 DEF HeadInv, Waiting, Remaining
  <2> QED  BY <2>1, <2>3, ErasedStakes DEF OrphanTypes, QueueInv
<1>6. CASE OrphanReturns
  <2>1. /\ accepting \in Block /\ accepting' = NoBlock /\ vWorkQueue # << >>
        /\ mapOrphanBlocks' = mapOrphanBlocks \ {accepting}
        /\ OrphanErased(accepting)
        /\ vWorkQueue' = IF accepted THEN Append(vWorkQueue, accepting) ELSE vWorkQueue
        /\ UNCHANGED <<mapBlockIndex, mapOrphanBlocksByPrev, orphansLeft>>
    BY <1>6 DEF OrphanReturns, OrphanErased, OrphanTypes, vars
  <2>2. vWorkQueue' \in Seq(Block) /\ vWorkQueue' # << >> /\ Head(vWorkQueue') = Head(vWorkQueue)
    BY <2>1 DEF OrphanTypes
  <2>3. accepting \in mapOrphanBlocks /\ Parent[accepting] = Head(vWorkQueue)
    BY <1>0, <2>1 DEF HeadInv, Waiting, Remaining
  <2>4. accepting \notin orphansLeft
    BY <2>1 DEF HeadInv
  <2>a. \A p \in Block \ {Head(vWorkQueue)} : Waiting(p)' = Waiting(p)
    BY <2>1, <2>3 DEF Waiting
  <2>b. \A p \in Block : p = Head(vWorkQueue) => Waiting(p)' = orphansLeft
    BY <1>0, <2>1, <2>4 DEF HeadInv, Waiting, Remaining
  <2>c. Remaining' = orphansLeft /\ NoBlock \notin orphansLeft
    BY <1>0, <2>1 DEF Remaining, OrphanTypes
  <2>d. mapOrphanBlocks' \cap mapBlockIndex' = {}
    BY <2>1 DEF HeadInv
  <2>e. \A p \in Block \ {Head(vWorkQueue)} : mapOrphanBlocksByPrev'[p] = Waiting(p)'
    BY <2>1, <2>a DEF HeadInv
  <2>f. Head(vWorkQueue) \in Block
    BY <2>1 DEF OrphanTypes
  <2>5. HeadInv'
    BY <2>1, <2>2, <2>b, <2>c, <2>d, <2>e, <2>f DEF HeadInv
  <2>6. QueueInv'
    BY <2>1, <2>3 DEF QueueInv, OrphanTypes
  <2> QED  BY <1>0, <2>1, <2>2, <2>5, <2>6, ErasedStakes DEF OrphanTypes
<1>7. CASE NextOfQueue
  <2> DEFINE h == Head(vWorkQueue)
  <2>1. /\ vWorkQueue # << >> /\ orphansLeft = {} /\ accepting = NoBlock
        /\ mapOrphanBlocksByPrev' = [mapOrphanBlocksByPrev EXCEPT ![h] = {}]
        /\ vWorkQueue' = Tail(vWorkQueue)
        /\ orphansLeft' = IF Len(vWorkQueue) > 1 THEN mapOrphanBlocksByPrev[vWorkQueue[2]] ELSE {}
        /\ UNCHANGED <<mapOrphanBlocks, setStakeSeenOrphan, mapBlockIndex, accepting>>
    BY <1>7 DEF NextOfQueue, vars
  <2>2. h \in Block /\ Waiting(h) = {} /\ mapOrphanBlocks \cap mapBlockIndex = {}
    BY <1>0, <2>1 DEF HeadInv, Remaining, OrphanTypes
  <2>3. \A p \in Block : mapOrphanBlocksByPrev'[p] = Waiting(p)
    BY <2>1, <2>2 DEF HeadInv, OrphanTypes
  <2>4. CASE Len(vWorkQueue) > 1
    <3>1. /\ vWorkQueue[2] \in Block /\ vWorkQueue[2] # h
          /\ vWorkQueue' # << >> /\ Head(vWorkQueue') = vWorkQueue[2]
          /\ vWorkQueue' \in Seq(Block)
      BY <2>1, <2>4 DEF QueueInv, OrphanTypes
    <3>2. orphansLeft' = Waiting(vWorkQueue[2])
      BY <2>1, <2>4, <3>1 DEF HeadInv
    <3>a. \A p \in Block : Waiting(p)' = Waiting(p)
      BY <2>1 DEF Waiting
    <3>b. NoBlock \notin orphansLeft' /\ Remaining' = orphansLeft'
      BY <1>0, <2>1, <3>2 DEF Remaining, Waiting, OrphanTypes
    <3>c. mapOrphanBlocks' \cap mapBlockIndex' = {}
      BY <2>1, <2>2
    <3>3. HeadInv'
      BY <2>1, <2>3, <3>1, <3>2, <3>a, <3>b, <3>c DEF HeadInv
    <3>4. QueueInv'
      BY <2>1, <2>4 DEF QueueInv, OrphanTypes
    <3> QED  BY <1>0, <2>1, <3>1, <3>2, <3>3, <3>4 DEF OrphanTypes, StakeInv, Waiting
  <2>5. CASE ~(Len(vWorkQueue) > 1)
    <3>1. vWorkQueue' = << >> /\ orphansLeft' = {}
      BY <2>1, <2>5 DEF OrphanTypes
    <3>2. HeadInv'
      BY <1>0, <2>1, <2>2, <2>3, <3>1 DEF HeadInv, Waiting, OrphanTypes
    <3> QED  BY <2>1, <3>1, <3>2 DEF OrphanTypes, QueueInv, StakeInv
  <2> QED  BY <2>4, <2>5
<1>8. ASSUME NEW b \in Block, ReceiveBlock(b) PROVE OrphanInv'
  <2>1. /\ vWorkQueue = << >> /\ accepting' = b /\ b \notin mapOrphanBlocks
        /\ mapBlockIndex' = mapBlockIndex \cup {b}
        /\ UNCHANGED <<mapOrphanBlocks, mapOrphanBlocksByPrev, setStakeSeenOrphan, vWorkQueue, orphansLeft>>
    BY <1>8 DEF ReceiveBlock, NewBlock, MainFree, AcceptBlock, AddToBlockIndex, orphanMaps
  <2> QED  BY <2>1 DEF OrphanTypes, HeadInv, QueueInv, StakeInv, Waiting
<1>9. ASSUME NEW b \in Block, ReceiveOrphan(b) PROVE OrphanInv'
  <2>1. /\ vWorkQueue = << >> /\ accepting = NoBlock /\ b # Genesis /\ b \notin mapBlockIndex
        /\ mapOrphanBlocks' = mapOrphanBlocks \cup {b}
        /\ mapOrphanBlocksByPrev' = [mapOrphanBlocksByPrev EXCEPT ![Parent[b]] = @ \cup {b}]
        /\ setStakeSeenOrphan' = setStakeSeenOrphan \cup StakesOf({b})
        /\ UNCHANGED <<mapBlockIndex, vWorkQueue, orphansLeft, accepting>>
    BY <1>9 DEF ReceiveOrphan, NewBlock, MainFree, vars, processing
  <2>2. Parent[b] \in Block
    BY <1>0, <2>1
  <2>3. HeadInv' /\ OrphanTypes'
    BY <1>0, <2>1, <2>2 DEF HeadInv, OrphanTypes, Waiting
  <2> QED  BY <2>1, <2>3 DEF QueueInv, StakeInv, StakesOf, OrphanTypes
<1>10. CASE Restart
  BY <1>0, <1>10 DEF Restart, OrphanTypes, HeadInv, QueueInv, StakeInv, Waiting
<1>11. CASE UNCHANGED orphanVars
  BY <1>1, <1>11 DEF orphanVars, vars, processing
<1> QED
  BY <1>2, <1>3, <1>4, <1>5, <1>6, <1>7, <1>8, <1>9, <1>10, <1>11
     DEF OrphanBlocksNext, Processing

\* Whenever ProcessBlock has returned, the two maps of orphans agree, no orphan
\* is indexed and no stake is held for one that is gone (the loop "Recursively
\* process any orphan blocks", with its erasures).
THEOREM OrphansStayLinked == OrphanBlocksSpec => []OrphansAreLinked
<1>1. InitOrphanBlocks => OrphanInv
  BY InitOrphanInv
<1>2. OrphanInv /\ [OrphanBlocksNext]_orphanVars => OrphanInv'
  BY NextOrphanInv
<1>3. OrphanInv => OrphansAreLinked
  BY DEF OrphanInv, HeadInv, StakeInv, Waiting, OrphansAreLinked, MainFree, OrphanTypes
<1> QED  BY <1>1, <1>2, <1>3, PTL DEF OrphanBlocksSpec

-----------------------------------------------------------------------------
(***************************************************************************)
(* What is left behind.  This needs the chain state: AcceptBlock fails for *)
(* an indexed block only when the chain to it is invalid, which is so as   *)
(* long as the process does not die inside SetBestChain.  A crash there    *)
(* leaves an indexed block that has not had its SetBestChain; a later one  *)
(* may postpone it, make a block that does not connect the best one in     *)
(* memory and fail to disconnect it afterwards, whatever the new chain.    *)
(***************************************************************************)
CalmNext ==
    \/ Processing
    \/ \E b \in Block : ReceiveBlock(b) \/ ReceiveOrphan(b)
    \/ call = "idle" /\ Restart

CalmSpec == InitOrphanBlocks /\ [][CalmNext]_orphanVars

\* An orphan whose parent is indexed waits for AcceptBlock to return, or for
\* its turn in the queue, unless the parent was found to be invalid.
AwaitInv ==
    /\ call # "idle" => accepting = pindexNew /\ accepted
    /\ accepting # NoBlock /\ ~accepted => ~ValidChain(accepting, rule)
    /\ \A b \in mapOrphanBlocks :
          Parent[b] \in mapBlockIndex =>
             \/ ~ValidChain(Parent[b], rule)
             \/ accepting # NoBlock /\ Parent[b] = accepting
             \/ \E i \in 1..Len(vWorkQueue) : Parent[b] = vWorkQueue[i]

CalmInv == OrphanInv /\ AbstractInv /\ AwaitInv

LEMMA InitCalm == InitOrphanBlocks => CalmInv
<1> SUFFICES ASSUME InitOrphanBlocks PROVE CalmInv
  OBVIOUS
<1>1. OrphanInv
  BY InitOrphanInv
<1>2. AbstractInv
  BY InitSteady, InitStored DEF InitOrphanBlocks, AbstractInv, Init
<1> QED  BY <1>1, <1>2 DEF CalmInv, AwaitInv, InitOrphanBlocks, Init

\* What the chain state does meanwhile.
LEMMA CalmChain ==
    ASSUME AbstractInv, [CalmNext]_orphanVars
    PROVE  AbstractInv' /\ rule' = rule
<1> SUFFICES AbstractInv'
  BY DEF AbstractInv
<1>1. ASSUME [SteadyNext]_vars PROVE AbstractInv'
  <2>1. SteadyInv' /\ Stored'
    BY <1>1, SteadyNextKeeps, NextStored DEF AbstractInv, SteadyInv, CrashNext
  <2>2. rule' = rule
    BY <1>1 DEF SteadyNext, Connecting, AddToBlockIndex, SetBestChain, DisconnectBlock,
       DisconnectedAll, ReconnectBlock, ReorganizeFails, ReorganizeCommits, SetBestChainInner,
       SetBestChainInnerCommits, AppendFails, SecondaryFails, NewBestBlock, vars
  <2> QED  BY <2>1, <2>2 DEF AbstractInv
<1>2. CASE Processing
  <2>1. [SteadyNext]_vars
    BY <1>2 DEF Processing, ChainStep, ReceivedReturns, TryOrphan, AcceptBlock, OrphanRefused,
       OrphanReturns, NextOfQueue, SteadyNext, Connecting
  <2> QED  BY <1>1, <2>1 DEF AbstractInv
<1>3. ASSUME NEW b \in Block, ReceiveBlock(b) \/ ReceiveOrphan(b) PROVE AbstractInv'
  <2>1. [SteadyNext]_vars
    BY <1>3 DEF ReceiveBlock, ReceiveOrphan, AcceptBlock, SteadyNext
  <2> QED  BY <1>1, <2>1
<1>4. CASE call = "idle" /\ Restart
  <2>1. CrashAndLoadBlockIndex
    BY <1>4 DEF Restart
  <2>2. TypeInv' /\ Stored'
    BY <2>1, NextTypes, NextStored DEF AbstractInv, SteadyInv, CrashNext
  <2>3. /\ mapBlockIndex' = mapBlockIndex /\ pindexBest' = pindexBest /\ txdb' = txdb
        /\ call' = "idle" /\ txn' = txdb /\ rule' = rule
    BY <1>4, <2>1 DEF CrashAndLoadBlockIndex, Return, AbstractInv, SteadyInv, Stored
  <2>4. SteadyInv'
    BY <1>4, <2>2, <2>3 DEF AbstractInv, SteadyInv, LoopInv, SteadilySettled
  <2> QED  BY <2>2, <2>3, <2>4 DEF AbstractInv
<1>5. CASE UNCHANGED orphanVars
  BY <1>1, <1>5 DEF orphanVars
<1> QED  BY <1>2, <1>3, <1>4, <1>5 DEF CalmNext

\* SetBestChain returns false for an invalid chain only: had it been valid, the
\* node would have settled for less than it has indexed.
LEMMA FailureIsInvalid ==
    ASSUME AbstractInv, AbstractInv', ReorganizeFails \/ AppendFails
    PROVE  ~ValidChain(pindexNew, rule)
<1>1. /\ call # "idle" /\ call' = "idle"
      /\ UNCHANGED <<pindexBest, mapBlockIndex, rule>>
  BY DEF ReorganizeFails, AppendFails, Return, memory
<1>2. /\ pindexNew \in mapBlockIndex /\ Trust[pindexNew] > Trust[pindexBest]
      /\ pindexNew \in Block /\ pindexBest \in Block
  BY <1>1 DEF AbstractInv, SteadyInv, TypeInv, TypeOK
<1>3. ValidChain(pindexNew, rule) => Trust[pindexNew] <= Trust[pindexBest]
  <2>1. \A b \in Block : (SteadilySettled(b)' /\ ValidChain(b, rule')) => Trust[b] <= Trust[pindexBest']
    BY DEF AbstractInv, SteadyInv
  <2> QED  BY <1>1, <1>2, <2>1 DEF SteadilySettled
<1>4. Trust[pindexNew] \in Nat /\ Trust[pindexBest] \in Nat
  BY <1>2, TreeAssumption
<1> QED  BY <1>2, <1>3, <1>4

LEMMA NextAwait ==
    ASSUME CalmInv, OrphanInv', AbstractInv', rule' = rule, [CalmNext]_orphanVars
    PROVE  AwaitInv'
<1>0. /\ OrphanTypes /\ OrphanTypes' /\ HeadInv /\ AwaitInv /\ AbstractInv
      /\ NoBlock \notin Block
  BY TreeAssumption DEF CalmInv, OrphanInv
<1>1. CASE ChainStep
  <2>1. UNCHANGED <<mapBlockIndex, mapOrphanBlocks, accepting, vWorkQueue>>
    BY <1>1, ChainStepIndexes DEF ChainStep, orphanMaps
  <2>2. CASE ReorganizeFails \/ AppendFails
    <3>1. ~ValidChain(pindexNew, rule) /\ call # "idle" /\ call' = "idle"
      BY <1>0, <2>2, FailureIsInvalid DEF ReorganizeFails, AppendFails, Return
    <3> QED  BY <1>0, <2>1, <3>1 DEF AwaitInv
  <2>3. CASE ~(ReorganizeFails \/ AppendFails)
    <3>1. accepted' = accepted /\ call # "idle" /\ (call' = "idle" \/ pindexNew' = pindexNew)
      BY <1>1, <2>3 DEF ChainStep, SetBestChain, DisconnectBlock, DisconnectedAll, ReconnectBlock,
         ReorganizeCommits, SetBestChainInner, SetBestChainInnerCommits, SecondaryFails,
         NewBestBlock, Return
    <3> QED  BY <1>0, <2>1, <3>1 DEF AwaitInv
  <2> QED  BY <2>2, <2>3
<1>2. CASE ReceivedReturns
  <2>1. /\ call = "idle" /\ accepting \in Block /\ accepting' = NoBlock /\ vWorkQueue = << >>
        /\ UNCHANGED <<mapBlockIndex, mapOrphanBlocks, call>>
        /\ vWorkQueue' = IF accepted THEN <<accepting>> ELSE << >>
    BY <1>0, <1>2 DEF ReceivedReturns, OrphanTypes, vars, orphanMaps
  <2>2. ASSUME NEW b \in mapOrphanBlocks, Parent[b] \in mapBlockIndex, ValidChain(Parent[b], rule)
        PROVE  \E i \in 1..Len(vWorkQueue') : Parent[b] = vWorkQueue'[i]
    <3>1. Parent[b] = accepting
      BY <1>0, <2>1, <2>2 DEF AwaitInv
    <3>2. vWorkQueue' = <<accepting>>
      BY <1>0, <2>1, <2>2, <3>1 DEF AwaitInv
    <3> QED  BY <3>1, <3>2
  <2> QED  BY <2>1, <2>2 DEF AwaitInv
<1>3. CASE OrphanReturns
  <2>1. /\ call = "idle" /\ accepting \in Block /\ accepting' = NoBlock
        /\ mapOrphanBlocks' \subseteq mapOrphanBlocks
        /\ UNCHANGED <<mapBlockIndex, call>>
        /\ vWorkQueue' = IF accepted THEN Append(vWorkQueue, accepting) ELSE vWorkQueue
    BY <1>0, <1>3 DEF OrphanReturns, OrphanErased, OrphanTypes, vars
  <2>2. ASSUME NEW b \in mapOrphanBlocks, Parent[b] \in mapBlockIndex, ValidChain(Parent[b], rule)
        PROVE  \E i \in 1..Len(vWorkQueue') : Parent[b] = vWorkQueue'[i]
    <3>1. CASE Parent[b] = accepting
      <4>1. accepted
        BY <1>0, <2>1, <2>2, <3>1 DEF AwaitInv
      <4>2. vWorkQueue' = Append(vWorkQueue, accepting)
        BY <2>1, <4>1
      <4>3. Len(vWorkQueue') = Len(vWorkQueue) + 1 /\ Len(vWorkQueue) \in Nat
            /\ vWorkQueue'[Len(vWorkQueue) + 1] = accepting
        BY <1>0, <2>1, <4>2 DEF OrphanTypes
      <4>4. Len(vWorkQueue) + 1 \in 1..Len(vWorkQueue')
        BY <4>3
      <4> QED  BY <3>1, <4>3, <4>4
    <3>2. CASE Parent[b] # accepting
      <4>1. PICK i \in 1..Len(vWorkQueue) : Parent[b] = vWorkQueue[i]
        BY <1>0, <2>2, <3>2 DEF AwaitInv
      <4>2. i \in 1..Len(vWorkQueue') /\ vWorkQueue'[i] = vWorkQueue[i]
        BY <1>0, <2>1 DEF OrphanTypes
      <4> QED  BY <4>1, <4>2
    <3> QED  BY <3>1, <3>2
  <2> QED  BY <2>1, <2>2 DEF AwaitInv
<1>4. ASSUME NEW b \in Block, TryOrphan(b) \/ ReceiveBlock(b) PROVE AwaitInv'
  <2>1. /\ call = "idle" /\ accepting = NoBlock /\ accepting' = b /\ accepted'
        /\ mapBlockIndex' = mapBlockIndex \cup {b}
        /\ call' = "idle" \/ pindexNew' = b
        /\ UNCHANGED <<mapOrphanBlocks, vWorkQueue>>
    BY <1>4 DEF TryOrphan, ReceiveBlock, NewBlock, MainFree, AcceptBlock, AddToBlockIndex, orphanMaps
  <2> QED  BY <1>0, <2>1 DEF AwaitInv
<1>5. ASSUME NEW b \in Block, OrphanRefused(b) PROVE AwaitInv'
  <2>1. /\ mapOrphanBlocks' \subseteq mapOrphanBlocks
        /\ UNCHANGED <<mapBlockIndex, call, pindexNew, accepting, accepted, vWorkQueue>>
    BY <1>5 DEF OrphanRefused, OrphanErased, vars
  <2> QED  BY <1>0, <2>1 DEF AwaitInv
<1>6. CASE NextOfQueue
  <2>1. /\ vWorkQueue # << >> /\ orphansLeft = {} /\ accepting = NoBlock
        /\ vWorkQueue' = Tail(vWorkQueue)
        /\ UNCHANGED <<mapOrphanBlocks, mapBlockIndex, call, pindexNew, accepting, accepted>>
    BY <1>6 DEF NextOfQueue, vars
  <2>2. \A b \in mapOrphanBlocks : Parent[b] # Head(vWorkQueue)
    BY <1>0, <2>1 DEF HeadInv, Remaining, Waiting
  <2>3. ASSUME NEW b \in mapOrphanBlocks, NEW i \in 1..Len(vWorkQueue), Parent[b] = vWorkQueue[i]
        PROVE  \E j \in 1..Len(vWorkQueue') : Parent[b] = vWorkQueue'[j]
    <3>1. i # 1
      BY <1>0, <2>1, <2>2, <2>3 DEF OrphanTypes
    <3>2. i - 1 \in 1..Len(vWorkQueue') /\ vWorkQueue'[i - 1] = vWorkQueue[i]
      BY <1>0, <2>1, <3>1 DEF OrphanTypes
    <3> QED  BY <2>3, <3>2
  <2> QED  BY <1>0, <2>1, <2>3 DEF AwaitInv
<1>7. ASSUME NEW b \in Block, ReceiveOrphan(b) PROVE AwaitInv'
  <2>1. /\ Parent[b] \notin mapBlockIndex /\ mapOrphanBlocks' = mapOrphanBlocks \cup {b}
        /\ UNCHANGED <<mapBlockIndex, call, pindexNew, accepting, accepted, vWorkQueue>>
    BY <1>7 DEF ReceiveOrphan, vars, processing
  <2> QED  BY <1>0, <2>1 DEF AwaitInv
<1>8. CASE Restart
  BY <1>8 DEF Restart, CrashAndLoadBlockIndex, Return, AwaitInv
<1>9. CASE UNCHANGED orphanVars
  BY <1>0, <1>9 DEF orphanVars, vars, orphanMaps, processing, AwaitInv
<1> QED
  BY <1>1, <1>2, <1>3, <1>4, <1>5, <1>6, <1>7, <1>8, <1>9 DEF CalmNext, Processing

\* Whatever the order blocks came in, ProcessBlock leaves an orphan behind only
\* while its parent is unknown or above an invalid chain (the recursion over
\* mapOrphanBlocksByPrev, and AddToBlockIndex's result, which it depends on).
THEOREM OrphansWaitForParents == CalmSpec => []OrphansAwaitParent
<1>1. InitOrphanBlocks => CalmInv
  BY InitCalm
<1>2. CalmInv /\ [CalmNext]_orphanVars => CalmInv'
  <2> SUFFICES ASSUME CalmInv, [CalmNext]_orphanVars PROVE CalmInv'
    OBVIOUS
  <2>1. AbstractInv' /\ rule' = rule
    BY CalmChain DEF CalmInv
  <2>2. OrphanInv'
    BY NextOrphanInv DEF CalmInv, CalmNext, OrphanBlocksNext
  <2>3. AwaitInv'
    BY <2>1, <2>2, NextAwait
  <2> QED  BY <2>1, <2>2, <2>3 DEF CalmInv
<1>3. CalmInv => OrphansAwaitParent
  <2> SUFFICES ASSUME CalmInv, MainFree, NEW b \in mapOrphanBlocks, Parent[b] \in mapBlockIndex,
                      ValidChain(Parent[b], rule)
               PROVE  FALSE
    BY DEF OrphansAwaitParent
  <2> QED  BY DEF CalmInv, AwaitInv, MainFree
<1> QED  BY <1>1, <1>2, <1>3, PTL DEF CalmSpec

-----------------------------------------------------------------------------
(***************************************************************************)
(* The loops of the handlers.  A loop over a sequence is a function of the *)
(* number of its elements that have been dealt with.                       *)
(***************************************************************************)
Loop(f, n, c, F) == f = [i \in 0..n |-> IF i = 0 THEN c ELSE F[i][f[i - 1]]]

LEMMA LoopExists ==
    ASSUME NEW n \in Nat, NEW c, NEW F
    PROVE  \E f : Loop(f, n, c, F)
<1> DEFINE T == {k \in Nat : ~ \E f : Loop(f, k, c, F)}
<1>1. SUFFICES ASSUME T # {} PROVE FALSE
  OBVIOUS
<1>2. PICK k \in T : \A j \in T : k <= j
  <2>1. T \in SUBSET Nat
    OBVIOUS
  <2> HIDE DEF T
  <2> QED  BY <1>1, <2>1, LeastNatural
<1>3. CASE k = 0
  <2> DEFINE f == [i \in 0..0 |-> c]
  <2>1. f = [i \in 0..0 |-> IF i = 0 THEN c ELSE F[i][f[i - 1]]]
    OBVIOUS
  <2> HIDE DEF f
  <2> QED  BY <1>3, <2>1 DEF Loop
<1>4. CASE k # 0
  <2>1. k \in Nat /\ k - 1 \in Nat /\ k - 1 \notin T
    BY <1>2, <1>4
  <2>2. PICK g : Loop(g, k - 1, c, F)
    BY <2>1
  <2> DEFINE f == [i \in 0..k |-> IF i = 0 THEN c ELSE F[i][g[i - 1]]]
  <2>3. \A i \in 0..(k - 1) : g[i] = IF i = 0 THEN c ELSE F[i][g[i - 1]]
    BY <2>2 DEF Loop
  <2>4. \A i \in 0..(k - 1) : f[i] = g[i]
    BY <2>1, <2>3
  <2>5. \A i \in 0..k : i # 0 => i - 1 \in 0..(k - 1)
    BY <2>1
  <2>6. f = [i \in 0..k |-> IF i = 0 THEN c ELSE F[i][f[i - 1]]]
    <3>1. \A i \in 0..k : i # 0 => f[i - 1] = g[i - 1]
      BY <2>4, <2>5
    <3> DEFINE h == f
    <3>2. \A i \in 0..k : i # 0 => h[i - 1] = g[i - 1]
      BY <3>1
    <3> HIDE DEF h
    <3>3. f = [i \in 0..k |-> IF i = 0 THEN c ELSE F[i][h[i - 1]]]
      BY <3>2
    <3> QED  BY <3>3 DEF h
  <2> HIDE DEF f
  <2> QED  BY <2>6 DEF Loop
<1> QED  BY <1>3, <1>4

\* What holds at the start of a loop and is kept by its body holds at its end.
LEMMA LoopKeeps ==
    ASSUME NEW n \in Nat, NEW T, 0 \in T, \A i \in 1..n : i - 1 \in T => i \in T
    PROVE  n \in T
<1> DEFINE Out == {k \in 0..n : k \notin T}
<1>1. SUFFICES ASSUME Out # {} PROVE FALSE
  OBVIOUS
<1>2. Out \in SUBSET Nat
  OBVIOUS
<1>3. PICK k \in Out : \A j \in Out : k <= j
  <2> HIDE DEF Out
  <2> QED  BY <1>1, <1>2, LeastNatural
<1>4. k \in 1..n
  OBVIOUS
<1>5. k - 1 \in T
  BY <1>3, <1>4
<1> QED  BY <1>4, <1>5

LEMMA ArrayIsSeq ==
    ASSUME NEW n \in Nat, NEW S, NEW f \in [1..n -> S]
    PROVE  f \in Seq(S) /\ Len(f) = n
OBVIOUS

LEMMA SeqRange ==
    ASSUME NEW S, NEW s \in Seq(S)
    PROVE  /\ Range(s) \subseteq S
           /\ \A e \in S : Append(s, e) \in Seq(S) /\ Range(Append(s, e)) = Range(s) \cup {e}
           /\ s # << >> => /\ Head(s) \in S /\ Tail(s) \in Seq(S)
                           /\ Range(s) = {Head(s)} \cup Range(Tail(s))
           /\ \A x : x \in Range(s) <=> \E i \in 1..Len(s) : x = s[i]
<1>1. Len(s) \in Nat /\ DOMAIN s = 1..Len(s) /\ \A i \in 1..Len(s) : s[i] \in S
  OBVIOUS
<1>2. ASSUME NEW e \in S PROVE Append(s, e) \in Seq(S) /\ Range(Append(s, e)) = Range(s) \cup {e}
  <2> DEFINE t == Append(s, e)
  <2>1. /\ t \in Seq(S) /\ DOMAIN t = 1..(Len(s) + 1) /\ t[Len(s) + 1] = e
        /\ \A i \in 1..Len(s) : t[i] = s[i]
    OBVIOUS
  <2> HIDE DEF t
  <2> QED  BY <1>1, <2>1 DEF Range
<1>3. ASSUME s # << >>
      PROVE  /\ Head(s) \in S /\ Tail(s) \in Seq(S)
             /\ Range(s) = {Head(s)} \cup Range(Tail(s))
  <2> DEFINE t == Tail(s)
  <2>1. /\ Head(s) = s[1] /\ 1 \in 1..Len(s) /\ t \in Seq(S) /\ DOMAIN t = 1..(Len(s) - 1)
        /\ \A i \in 1..(Len(s) - 1) : t[i] = s[i + 1]
    BY <1>3
  <2>2. ASSUME NEW i \in 1..Len(s) PROVE s[i] \in {s[1]} \cup Range(t)
    <3>1. CASE i = 1  BY <3>1
    <3>2. CASE i # 1
      <4>1. i - 1 \in 1..(Len(s) - 1) /\ t[i - 1] = s[i]
        BY <2>1, <3>2
      <4> QED  BY <2>1, <4>1 DEF Range
    <3> QED  BY <3>1, <3>2
  <2>3. \A i \in 1..(Len(s) - 1) : i + 1 \in 1..Len(s)
    BY <1>1
  <2> HIDE DEF t
  <2> QED  BY <1>1, <2>1, <2>2, <2>3 DEF Range
<1> QED  BY <1>1, <1>2, <1>3 DEF Range

-----------------------------------------------------------------------------
\* The blocks that a peer ever has.
Chains == UNION {Ancestors[b] : b \in PeerBest}

ToPeer == [type : {"getblocks"}, begin : Block, stop : Block \cup {NoBlock}]
             \cup [type : {"getdata"}, blocks : Seq(Block)]

ToNode == [type : {"block"}, block : Block] \cup [type : {"inv"}, blocks : Seq(Block)]

Connection ==
    [up : BOOLEAN, nStartingHeight : Nat, lastGetBlocks : Seq(Block \cup {NoBlock}),
     askNow : Seq(Block), askLater : SUBSET Block,
     setInventoryKnown : SUBSET Block, vInventoryToSend : Seq(Block),
     hashContinue : Block \cup {NoBlock}, toPeer : Seq(ToPeer), toNode : Seq(ToNode)]

\* d has lost nothing of what pursues a block in c, and announced nothing more.
Keeps(c, d) ==
    /\ d.setInventoryKnown = c.setInventoryKnown
    /\ Range(c.askNow) \subseteq Range(d.askNow) /\ c.askLater \subseteq d.askLater
    /\ Range(c.toPeer) \subseteq Range(d.toPeer)
    /\ Range(c.toNode) \subseteq Range(d.toNode)

LEMMA KeepsPursued ==
    ASSUME NEW c, NEW d, Keeps(c, d), NEW b, Pursued(c, b)
    PROVE  Pursued(d, b)
  BY DEF Keeps, Pursued

LEMMA GetBlocksKeeps ==
    ASSUME NEW c \in Connection, NEW begin \in Block, NEW end \in Block \cup {NoBlock}
    PROVE  LET d == PushGetBlocks(c, begin, end) IN
           /\ d \in Connection /\ Keeps(c, d) /\ d.vInventoryToSend = c.vInventoryToSend
           /\ d.askNow = c.askNow /\ d.askLater = c.askLater
<1> DEFINE msg == [type |-> "getblocks", begin |-> begin, stop |-> end]
           t == Append(c.toPeer, msg)
           l == <<begin, end>>
           d == [c EXCEPT !.lastGetBlocks = l, !.toPeer = t]
<1>1. msg \in ToPeer /\ c.toPeer \in Seq(ToPeer)
  BY DEF ToPeer, Connection
<1>2. t \in Seq(ToPeer) /\ Range(c.toPeer) \subseteq Range(t)
  <2> HIDE DEF msg
  <2> QED  BY <1>1, SeqRange
<1>3. l \in Seq(Block \cup {NoBlock})
  OBVIOUS
<1>4. PushGetBlocks(c, begin, end) = IF c.lastGetBlocks = l THEN c ELSE d
  BY DEF PushGetBlocks, Connection
<1> HIDE DEF t, l, msg
<1>5. d \in Connection /\ Keeps(c, d) /\ d.vInventoryToSend = c.vInventoryToSend
      /\ d.askNow = c.askNow /\ d.askLater = c.askLater
  BY <1>2, <1>3 DEF Connection, Keeps
<1> HIDE DEF d
<1> QED  BY <1>4, <1>5 DEF Keeps

LEMMA AskForKeeps ==
    ASSUME NEW c \in Connection, NEW b \in Block
    PROVE  LET d == AskFor(c, b) IN
           /\ d \in Connection /\ Keeps(c, d) /\ d.vInventoryToSend = c.vInventoryToSend
           /\ b \in Range(d.askNow) \cup d.askLater
<1> DEFINE s == Append(c.askNow, b)
           d == [c EXCEPT !.askLater = @ \cup {b}]
           e == [c EXCEPT !.askNow = s]
<1>1. s \in Seq(Block) /\ Range(s) = Range(c.askNow) \cup {b}
  BY SeqRange DEF Connection
<1>2. AskFor(c, b) = IF b \in mapAlreadyAskedFor THEN d ELSE e
  BY DEF AskFor
<1> HIDE DEF s
<1>3. /\ d \in Connection /\ Keeps(c, d) /\ d.vInventoryToSend = c.vInventoryToSend
      /\ b \in Range(d.askNow) \cup d.askLater
  BY DEF Connection, Keeps
<1>4. /\ e \in Connection /\ Keeps(c, e) /\ e.vInventoryToSend = c.vInventoryToSend
      /\ b \in Range(e.askNow) \cup e.askLater
  BY <1>1 DEF Connection, Keeps
<1> HIDE DEF d, e
<1> QED  BY <1>2, <1>3, <1>4

-----------------------------------------------------------------------------
\* The chain of orphans that ends with an orphan has a first one.
LEMMA RootExists ==
    ASSUME NEW orphans \in SUBSET Block, Genesis \notin orphans, NEW b \in orphans
    PROVE  GetOrphanRoot(b, orphans) \in Block \ {Genesis}
<1> DEFINE Linked(a) == \A k \in Ancestors[b] \ {b} : a \in Ancestors[k] => k \in orphans
           G == {a \in Ancestors[b] : Linked(a)}
           H == {Height[a] : a \in G}
           root == GetOrphanRoot(b, orphans)
<1>1. /\ b \in Block /\ Ancestors[b] \subseteq Block /\ b \in Ancestors[b] /\ b # Genesis
      /\ Genesis \in Ancestors[b] /\ Genesis \in Ancestors[Genesis]
  BY SelfAncestor, GenesisUnderAll, TreeAssumption
<1>2. b \in G
  <2> SUFFICES ASSUME NEW k \in Ancestors[b] \ {b}, b \in Ancestors[k] PROVE FALSE
    BY <1>1
  <2>1. k \in Block /\ Height[k] \in Nat /\ Height[b] \in Nat
    BY <1>1, TreeAssumption
  <2>2. Height[k] < Height[b] /\ Height[b] < Height[k]
    BY <1>1, <2>1, TreeAssumption
  <2> QED  BY <2>1, <2>2
<1>3. PICK m \in H : \A n \in H : m <= n
  <2>1. H \in SUBSET Nat /\ H # {}
    BY <1>1, <1>2, TreeAssumption
  <2> HIDE DEF H
  <2> QED  BY <2>1, LeastNatural
<1>4. PICK a \in G : Height[a] = m
  OBVIOUS
<1>5. \A c \in G : Height[a] <= Height[c]
  BY <1>3, <1>4
<1>6. a # Genesis
  BY <1>1, <1>4
<1>7. a \in Block /\ Parent[a] \in Block /\ Parent[a] \in Ancestors[a] /\ Parent[a] \in Ancestors[b]
      /\ Height[a] = Height[Parent[a]] + 1 /\ Height[Parent[a]] \in Nat
  BY <1>1, <1>4, <1>6, SelfAncestor, TreeAssumption
<1>8. Parent[a] \notin orphans
  <2> SUFFICES ASSUME Parent[a] \in orphans PROVE FALSE
    OBVIOUS
  <2>1. ~ Linked(Parent[a])
    <3>1. Parent[a] \notin G
      BY <1>5, <1>7
    <3> QED  BY <1>7, <3>1
  <2>2. PICK k \in Ancestors[b] \ {b} : Parent[a] \in Ancestors[k] /\ k \notin orphans
    BY <2>1
  <2>3. k \in Block /\ a \notin Ancestors[k]
    BY <1>1, <1>4, <2>2
  <2>4. k \in Ancestors[a] /\ k # a
    BY <1>1, <1>4, <2>2, <2>3, SelfAncestor, TreeAssumption
  <2>5. k \in Ancestors[Parent[a]]
    BY <1>6, <1>7, <2>4, TreeAssumption
  <2>6. k # Parent[a]
    BY <2>2
  <2>7. Height[k] < Height[Parent[a]] /\ Height[Parent[a]] < Height[k]
    BY <1>7, <2>2, <2>3, <2>5, <2>6, TreeAssumption
  <2>8. Height[k] \in Nat
    BY <2>3, TreeAssumption
  <2> QED  BY <1>7, <2>7, <2>8
<1>9. \E c \in Ancestors[b] : Parent[c] \notin orphans /\ Linked(c)
  BY <1>4, <1>8
<1>10. root \in Ancestors[b] /\ Linked(root)
  BY <1>9 DEF GetOrphanRoot
<1> HIDE DEF root
<1>11. root # Genesis
  BY <1>1, <1>10
<1> QED  BY <1>1, <1>10, <1>11 DEF root

\* What the maps of blocks are between two messages.
BlocksKnown ==
    /\ mapBlockIndex \subseteq Block /\ pindexBest \in Block
    /\ mapOrphanBlocks \subseteq Block /\ Genesis \notin mapOrphanBlocks

LEMMA HeardKeeps ==
    ASSUME BlocksKnown, NEW p, NEW c \in Connection, NEW blocks \in Seq(Block),
           NEW i \in 1..Len(blocks)
    PROVE  LET d == HeardInv(p, c, blocks, i) IN
           /\ d \in Connection /\ Keeps(c, d) /\ d.vInventoryToSend = c.vInventoryToSend
           /\ AlreadyHave(blocks[i]) \/ blocks[i] \in Range(d.askNow) \cup d.askLater
<1> DEFINE b == blocks[i]
           d == HeardInv(p, c, blocks, i)
           Goal(e) == /\ e \in Connection /\ Keeps(c, e)
                      /\ e.vInventoryToSend = c.vInventoryToSend
                      /\ AlreadyHave(b) \/ b \in Range(e.askNow) \cup e.askLater
<1>1. b \in Block /\ Keeps(c, c)
  BY DEF Keeps
<1>2. CASE ~AlreadyHave(b)
  <2>1. d = AskFor(c, b)
    BY <1>2 DEF HeardInv, AlreadyHave
  <2> HIDE DEF b
  <2> QED  BY <1>1, <2>1, AskForKeeps DEF b
<1>3. CASE AlreadyHave(b)
  <2>1. \/ d = c
        \/ b \in mapOrphanBlocks /\ d = PushGetBlocks(c, pindexBest, GetOrphanRoot(b, mapOrphanBlocks))
        \/ d = PushGetBlocks(c, b, NoBlock)
    <3> HIDE DEF d
    <3>1. d = CASE ~AlreadyHave(b) -> AskFor(c, b)
      [] b \in mapOrphanBlocks /\ MayPush(p) ->
            PushGetBlocks(c, pindexBest, GetOrphanRoot(b, mapOrphanBlocks))
      [] b \in mapBlockIndex /\ i = Len(blocks) /\ MayPush(p) -> PushGetBlocks(c, b, NoBlock)
      [] OTHER -> c
      BY DEF d, HeardInv
    <3> HIDE DEF b
    <3> QED  BY <1>3, <3>1
  <2>2. CASE d = c
    BY <1>1, <1>3, <2>2
  <2>3. CASE b \in mapOrphanBlocks
             /\ d = PushGetBlocks(c, pindexBest, GetOrphanRoot(b, mapOrphanBlocks))
    <3>1. GetOrphanRoot(b, mapOrphanBlocks) \in Block
      BY <2>3, RootExists DEF BlocksKnown
    <3>2. pindexBest \in Block
      BY DEF BlocksKnown
    <3> HIDE DEF b
    <3>3. Goal(PushGetBlocks(c, pindexBest, GetOrphanRoot(b, mapOrphanBlocks)))
      BY <1>3, <3>1, <3>2, GetBlocksKeeps
    <3> HIDE DEF d
    <3> QED  BY <2>3, <3>3 DEF b, d
  <2>4. CASE d = PushGetBlocks(c, b, NoBlock)
    <3> HIDE DEF b
    <3>3. Goal(PushGetBlocks(c, b, NoBlock))
      BY <1>1, <1>3, GetBlocksKeeps
    <3> HIDE DEF d
    <3> QED  BY <2>4, <3>3 DEF b, d
  <2> QED  BY <2>1, <2>2, <2>3, <2>4
<1> QED  BY <1>2, <1>3

-----------------------------------------------------------------------------
Hearing(f, p, c, blocks) ==
    f = [i \in 0..Len(blocks) |->
            IF i = 0 THEN c ELSE HeardInv(p, f[i - 1], blocks, i)]

\* After an inv each of its blocks is here or will be requested.
LEMMA HeardAll ==
    ASSUME BlocksKnown, NEW p, NEW c \in Connection, NEW blocks \in Seq(Block)
    PROVE  LET d == Heard(p, c, blocks) IN
           /\ d \in Connection /\ Keeps(c, d) /\ d.vInventoryToSend = c.vInventoryToSend
           /\ \A b \in Range(blocks) : AlreadyHave(b) \/ b \in Range(d.askNow) \cup d.askLater
<1> DEFINE n == Len(blocks)
           F == [i \in 1..n |-> [x \in Connection |-> HeardInv(p, x, blocks, i)]]
           f == CHOOSE g : Hearing(g, p, c, blocks)
<1>1. n \in Nat /\ Keeps(c, c) /\ \A i \in 1..n : i - 1 \in 0..n /\ i \in 0..n /\ i # 0
  BY DEF Keeps
<1>2. \E g : Hearing(g, p, c, blocks)
  <2>1. PICK g : Loop(g, n, c, F)
    BY <1>1, LoopExists
  <2> DEFINE T == {i \in 0..n : g[i] \in Connection}
  <2>2. g[0] = c /\ \A i \in 1..n : g[i] = F[i][g[i - 1]]
    <3> HIDE DEF F, n
    <3> QED  BY <1>1, <2>1 DEF Loop
  <2>3. \A i \in 1..n : i - 1 \in T => g[i] = HeardInv(p, g[i - 1], blocks, i)
    BY <2>2
  <2>4. \A i \in 1..n : i - 1 \in T => i \in T
    BY <1>1, <2>3, HeardKeeps
  <2>5. ASSUME NEW k \in 0..n PROVE k \in T
    <3>1. k \in Nat /\ 0 \in T /\ \A i \in 1..k : i - 1 \in T => i \in T
      BY <1>1, <2>2, <2>4
    <3> HIDE DEF T
    <3> QED  BY <3>1, LoopKeeps
  <2>6. \A i \in 0..n : g[i] = IF i = 0 THEN c ELSE HeardInv(p, g[i - 1], blocks, i)
    <3>1. \A i \in 0..n : i # 0 => i \in 1..n /\ i - 1 \in 0..n
      BY <1>1
    <3> HIDE DEF T, n
    <3> QED  BY <2>2, <2>3, <2>5, <3>1
  <2> HIDE DEF F
  <2>7. g = [i \in 0..n |-> g[i]]
    BY <2>1 DEF Loop
  <2> QED  BY <2>6, <2>7 DEF Hearing
<1>3. Heard(p, c, blocks) = f[n]
  BY DEF Heard, Hearing
<1>4. Hearing(f, p, c, blocks)
  BY <1>2
<1> HIDE DEF f
<1>5. f[0] = c /\ \A i \in 1..n : f[i] = HeardInv(p, f[i - 1], blocks, i)
  BY <1>1, <1>4 DEF Hearing
<1> DEFINE Done(d, i) ==
              /\ d \in Connection /\ Keeps(c, d) /\ d.vInventoryToSend = c.vInventoryToSend
              /\ \A j \in 1..i : AlreadyHave(blocks[j]) \/ blocks[j] \in Range(d.askNow) \cup d.askLater
           T == {i \in 0..n : Done(f[i], i)}
<1>6. 0 \in T
  BY <1>1, <1>5
<1>7. ASSUME NEW i \in 1..n, i - 1 \in T PROVE i \in T
  <2>1. Done(f[i - 1], i - 1) /\ f[i - 1] \in Connection /\ Keeps(c, f[i - 1])
    BY <1>7
  <2>2. /\ f[i] \in Connection /\ Keeps(f[i - 1], f[i])
        /\ f[i].vInventoryToSend = f[i - 1].vInventoryToSend
        /\ AlreadyHave(blocks[i]) \/ blocks[i] \in Range(f[i].askNow) \cup f[i].askLater
    BY <1>5, <2>1, HeardKeeps
  <2>3. Keeps(c, f[i])
    BY <2>1, <2>2 DEF Keeps
  <2>4. \A j \in 1..i : j = i \/ j \in 1..(i - 1)
    OBVIOUS
  <2>5. Done(f[i], i)
    BY <2>1, <2>2, <2>3, <2>4 DEF Keeps
  <2> QED  BY <2>5
<1>8. n \in T
  <2> HIDE DEF T, n
  <2> QED  BY <1>1, <1>6, <1>7, LoopKeeps
<1>9. Done(f[n], n)
  BY <1>8
<1>10. \A b \in Range(blocks) : \E j \in 1..n : b = blocks[j]
  BY SeqRange
<1> QED  BY <1>3, <1>9, <1>10

AddWanted(s, b) == IF AlreadyHave(b) THEN s ELSE Append(s, b)

Wanting(f, blocks) ==
    f = [i \in 0..Len(blocks) |->
            IF i = 0 THEN << >> ELSE AddWanted(f[i - 1], blocks[i])]

\* What is not requested any more has come.
LEMMA WantedAll ==
    ASSUME NEW blocks \in Seq(Block)
    PROVE  /\ Wanted(blocks) \in Seq(Block)
           /\ \A b \in Range(blocks) : AlreadyHave(b) \/ b \in Range(Wanted(blocks))
<1> DEFINE n == Len(blocks)
           F == [i \in 1..n |-> [x \in Seq(Block) |-> AddWanted(x, blocks[i])]]
           f == CHOOSE g : Wanting(g, blocks)
           empty == << >>
<1>1. n \in Nat /\ \A i \in 1..n : i - 1 \in 0..n /\ i \in 0..n /\ i # 0 /\ blocks[i] \in Block
  OBVIOUS
<1>0. /\ empty \in Seq(Block)
      /\ \A s \in Seq(Block), b \in Block :
            LET t == AddWanted(s, b) IN
            /\ t \in Seq(Block) /\ Range(s) \subseteq Range(t)
            /\ AlreadyHave(b) \/ b \in Range(t)
  BY SeqRange DEF AddWanted
<1> HIDE DEF empty
<1>2. \E g : Wanting(g, blocks)
  <2>1. PICK g : Loop(g, n, empty, F)
    BY <1>1, LoopExists
  <2> DEFINE T == {i \in 0..n : g[i] \in Seq(Block)}
  <2>2. g[0] = empty /\ \A i \in 1..n : g[i] = F[i][g[i - 1]]
    <3> HIDE DEF F, n
    <3> QED  BY <1>1, <2>1 DEF Loop
  <2>3. \A i \in 1..n : i - 1 \in T =>
           g[i] = AddWanted(g[i - 1], blocks[i])
    BY <2>2
  <2>4. \A i \in 1..n : i - 1 \in T => i \in T
    BY <1>0, <1>1, <2>3
  <2>5. ASSUME NEW k \in 0..n PROVE k \in T
    <3>1. k \in Nat /\ 0 \in T /\ \A i \in 1..k : i - 1 \in T => i \in T
      BY <1>0, <1>1, <2>2, <2>4
    <3> HIDE DEF T
    <3> QED  BY <3>1, LoopKeeps
  <2>6. \A i \in 0..n : g[i] = IF i = 0 THEN empty ELSE AddWanted(g[i - 1], blocks[i])
    <3>1. \A i \in 0..n : i # 0 => i \in 1..n /\ i - 1 \in 0..n
      BY <1>1
    <3> HIDE DEF T, n
    <3> QED  BY <2>2, <2>3, <2>5, <3>1
  <2> HIDE DEF F
  <2>7. g = [i \in 0..n |-> g[i]]
    BY <2>1 DEF Loop
  <2> QED  BY <2>6, <2>7 DEF Wanting, empty
<1>3. Wanted(blocks) = f[n]
  BY DEF Wanted, Wanting, AddWanted
<1>4. Wanting(f, blocks)
  BY <1>2
<1> HIDE DEF f
<1>5. f[0] = empty /\ \A i \in 1..n : f[i] = AddWanted(f[i - 1], blocks[i])
  BY <1>1, <1>4 DEF Wanting, empty
<1> DEFINE Done(s, i) == /\ s \in Seq(Block)
                         /\ \A j \in 1..i : AlreadyHave(blocks[j]) \/ blocks[j] \in Range(s)
           T == {i \in 0..n : Done(f[i], i)}
<1>6. 0 \in T
  BY <1>0, <1>1, <1>5
<1>7. ASSUME NEW i \in 1..n, i - 1 \in T PROVE i \in T
  <2>1. Done(f[i - 1], i - 1) /\ f[i - 1] \in Seq(Block) /\ blocks[i] \in Block
    BY <1>7
  <2>2. /\ f[i] \in Seq(Block) /\ Range(f[i - 1]) \subseteq Range(f[i])
        /\ AlreadyHave(blocks[i]) \/ blocks[i] \in Range(f[i])
    BY <1>0, <1>5, <2>1
  <2>3. \A j \in 1..i : j = i \/ j \in 1..(i - 1)
    OBVIOUS
  <2>4. Done(f[i], i)
    BY <2>1, <2>2, <2>3
  <2> QED  BY <2>4
<1>8. n \in T
  <2> HIDE DEF T, n
  <2> QED  BY <1>1, <1>6, <1>7, LoopKeeps
<1>9. Done(f[n], n)
  BY <1>8
<1>10. \A b \in Range(blocks) : \E j \in 1..n : b = blocks[j]
  BY SeqRange
<1> QED  BY <1>3, <1>9, <1>10

-----------------------------------------------------------------------------
(* The peer's loops and its walks along its best chain. *)

LEMMA PushKeeps ==
    ASSUME NEW c \in Connection, NEW S \in SUBSET Block, Range(c.vInventoryToSend) \subseteq S,
           NEW b \in S
    PROVE  LET d == PushInventory(c, b) IN
           d \in Connection /\ Keeps(c, d) /\ Range(d.vInventoryToSend) \subseteq S
<1> DEFINE s == Append(c.vInventoryToSend, b)
           d == [c EXCEPT !.vInventoryToSend = s]
<1>1. s \in Seq(Block) /\ Range(s) \subseteq S
  BY SeqRange DEF Connection
<1>2. PushInventory(c, b) \in {c, d}
  BY DEF PushInventory
<1>3. Keeps(c, c)
  BY DEF Keeps
<1> HIDE DEF s
<1>4. d \in Connection /\ Keeps(c, d) /\ d.vInventoryToSend = s
  BY <1>1 DEF Connection, Keeps
<1> HIDE DEF d
<1> QED  BY <1>1, <1>2, <1>3, <1>4

Pushing(f, c, blocks) ==
    f = [i \in 0..Len(blocks) |->
            IF i = 0 THEN c ELSE PushInventory(f[i - 1], blocks[i])]

\* Announcements are queued beside what is under way, and of these blocks only.
LEMMA PushedAll ==
    ASSUME NEW c \in Connection, NEW S \in SUBSET Block, Range(c.vInventoryToSend) \subseteq S,
           NEW blocks \in Seq(S)
    PROVE  LET d == PushAll(c, blocks) IN
           d \in Connection /\ Keeps(c, d) /\ Range(d.vInventoryToSend) \subseteq S
<1> DEFINE n == Len(blocks)
           X == {d \in Connection : Keeps(c, d) /\ Range(d.vInventoryToSend) \subseteq S}
           F == [i \in 1..n |-> [x \in X |-> PushInventory(x, blocks[i])]]
           f == CHOOSE g : Pushing(g, c, blocks)
<1>1. /\ n \in Nat /\ \A i \in 1..n : i - 1 \in 0..n /\ i \in 0..n /\ i # 0 /\ blocks[i] \in S
  OBVIOUS
<1>2. c \in X /\ \A x \in X, b \in S : PushInventory(x, b) \in X
  <2>1. c \in X
    BY DEF Keeps
  <2>2. ASSUME NEW x \in X, NEW b \in S PROVE PushInventory(x, b) \in X
    <3>1. LET d == PushInventory(x, b) IN
          d \in Connection /\ Keeps(x, d) /\ Range(d.vInventoryToSend) \subseteq S
      BY PushKeeps
    <3>2. Keeps(c, PushInventory(x, b))
      BY <3>1 DEF Keeps
    <3> QED  BY <3>1, <3>2
  <2> QED  BY <2>1, <2>2
<1> HIDE DEF X
<1>3. \E g : Pushing(g, c, blocks)
  <2>1. PICK g : Loop(g, n, c, F)
    BY <1>1, LoopExists
  <2> DEFINE T == {i \in 0..n : g[i] \in X}
  <2>2. g[0] = c /\ \A i \in 1..n : g[i] = F[i][g[i - 1]]
    <3> HIDE DEF F, n
    <3> QED  BY <1>1, <2>1 DEF Loop
  <2>3. \A i \in 1..n : i - 1 \in T => g[i] = PushInventory(g[i - 1], blocks[i])
    BY <2>2
  <2>4. \A i \in 1..n : i - 1 \in T => i \in T
    BY <1>1, <1>2, <2>3
  <2>5. ASSUME NEW k \in 0..n PROVE k \in T
    <3>1. k \in Nat /\ 0 \in T /\ \A i \in 1..k : i - 1 \in T => i \in T
      BY <1>1, <1>2, <2>2, <2>4
    <3> HIDE DEF T
    <3> QED  BY <3>1, LoopKeeps
  <2>6. \A i \in 0..n : g[i] = IF i = 0 THEN c ELSE PushInventory(g[i - 1], blocks[i])
    <3>1. \A i \in 0..n : i # 0 => i \in 1..n /\ i - 1 \in 0..n
      BY <1>1
    <3> HIDE DEF T, n
    <3> QED  BY <2>2, <2>3, <2>5, <3>1
  <2> HIDE DEF F
  <2>7. g = [i \in 0..n |-> g[i]]
    BY <2>1 DEF Loop
  <2> QED  BY <2>6, <2>7 DEF Pushing
<1>4. PushAll(c, blocks) = f[n]
  BY DEF PushAll, Pushing
<1>5. Pushing(f, c, blocks)
  BY <1>3
<1> HIDE DEF f
<1>6. f[0] = c /\ \A i \in 1..n : f[i] = PushInventory(f[i - 1], blocks[i])
  BY <1>1, <1>5 DEF Pushing
<1> DEFINE T == {i \in 0..n : f[i] \in X}
<1>7. 0 \in T /\ \A i \in 1..n : i - 1 \in T => i \in T
  BY <1>1, <1>2, <1>6
<1>8. n \in T
  <2> HIDE DEF T, n
  <2> QED  BY <1>1, <1>7, LoopKeeps
<1> QED  BY <1>4, <1>8 DEF X

LEMMA HighestExists ==
    ASSUME NEW b \in Block, NEW S \in SUBSET Ancestors[b], S # {}
    PROVE  \E a \in S : \A k \in S : Height[k] <= Height[a]
<1> DEFINE Depth == {Height[b] - Height[a] : a \in S}
<1>1. \A a \in S : Height[a] \in Nat /\ Height[b] \in Nat /\ Height[b] - Height[a] \in Nat
  <2> TAKE a \in S
  <2>1. a \in Block /\ Height[a] \in Nat /\ Height[b] \in Nat
    BY TreeAssumption
  <2>2. a = b \/ Height[a] < Height[b]
    BY TreeAssumption
  <2> QED  BY <2>1, <2>2
<1>2. PICK m \in Depth : \A n \in Depth : m <= n
  <2>1. Depth \in SUBSET Nat /\ Depth # {}
    BY <1>1
  <2> HIDE DEF Depth
  <2> QED  BY <2>1, LeastNatural
<1>3. PICK a \in S : m = Height[b] - Height[a]
  OBVIOUS
<1>4. \A k \in S : Height[b] - Height[a] <= Height[b] - Height[k]
  BY <1>2, <1>3
<1> QED  BY <1>1, <1>3, <1>4

\* A chain has a block at each height.
LEMMA EveryHeight ==
    ASSUME NEW b \in Block, NEW a \in Ancestors[b], NEW h \in Nat,
           Height[a] <= h, h <= Height[b]
    PROVE  \E c \in Ancestors[b] : Height[c] = h
<1> DEFINE H == {Height[x] : x \in {y \in Ancestors[b] : Height[y] >= h}}
<1>1. /\ Ancestors[b] \subseteq Block /\ b \in Ancestors[b]
      /\ \A x \in Ancestors[b] : Height[x] \in Nat
  BY SelfAncestor, TreeAssumption
<1>2. PICK m \in H : \A n \in H : m <= n
  <2>1. H \in SUBSET Nat /\ H # {}
    BY <1>1
  <2> HIDE DEF H
  <2> QED  BY <2>1, LeastNatural
<1>3. PICK x \in Ancestors[b] : Height[x] = m /\ Height[x] >= h
  OBVIOUS
<1>4. CASE Height[x] = h
  BY <1>4
<1>5. CASE Height[x] # h
  <2>1. x # Genesis
    <3>1. Genesis \in Ancestors[a] /\ a \in Block
      BY <1>1, GenesisUnderAll
    <3>2. Height[Genesis] <= Height[a]
      BY <1>1, <3>1, TreeAssumption
    <3> QED  BY <1>1, <1>3, <1>5, <3>1, <3>2, TreeAssumption
  <2>2. Parent[x] \in Ancestors[b] /\ Height[x] = Height[Parent[x]] + 1
    BY <1>1, <1>3, <2>1, SelfAncestor, TreeAssumption
  <2>3. Height[Parent[x]] >= h /\ Height[Parent[x]] < Height[x]
    BY <1>1, <1>3, <1>5, <2>2
  <2>4. Height[Parent[x]] \in H
    BY <2>2, <2>3
  <2> QED  BY <1>1, <1>2, <1>3, <2>2, <2>3, <2>4
<1> QED  BY <1>4, <1>5

LEMMA RestIsOfChain ==
    ASSUME NEW p, best[p] \in Block, NEW begin \in Block
    PROVE  RestOfChain(p, begin) \in Seq(Ancestors[best[p]])
<1> DEFINE b == best[p]
           from == LocatedBlock(p, begin)
           both == Locator(begin) \cap Ancestors[b]
           n == Height[b] - Height[from]
<1>1. Genesis \in both /\ both \in SUBSET Ancestors[b]
  BY GenesisUnderAll DEF Locator
<1>2. \E a \in both : \A k \in both : Height[k] <= Height[a]
  <2> HIDE DEF both, b
  <2> QED  BY <1>1, HighestExists DEF b
<1>3. from \in Ancestors[b]
  BY <1>2 DEF LocatedBlock
<1> HIDE DEF from, both
<1>4. /\ from \in Block /\ Height[b] \in Nat /\ Height[from] \in Nat
      /\ from = b \/ Height[from] < Height[b]
  BY <1>3, TreeAssumption
<1>5. n \in Nat
  BY <1>4
<1>6. \A k \in 1..n : \E a \in Ancestors[b] : Height[a] = Height[from] + k
  <2> TAKE k \in 1..n
  <2>1. Height[from] + k \in Nat /\ Height[from] <= Height[from] + k /\ Height[from] + k <= Height[b]
    BY <1>4
  <2> HIDE DEF b
  <2> QED  BY <1>3, <2>1, EveryHeight DEF b
<1>7. \A k \in 1..n : (CHOOSE a \in Ancestors[b] : Height[a] = Height[from] + k) \in Ancestors[b]
  BY <1>6
<1>8. RestOfChain(p, begin) =
         [k \in 1..n |-> CHOOSE a \in Ancestors[b] : Height[a] = Height[from] + k]
  BY DEF RestOfChain, from
<1> DEFINE r == [k \in 1..n |-> CHOOSE a \in Ancestors[b] : Height[a] = Height[from] + k]
<1>9. r \in [1..n -> Ancestors[b]]
  BY <1>7
<1> HIDE DEF n, r, b
<1>10. r \in Seq(Ancestors[b])
  BY <1>5, <1>9, ArrayIsSeq
<1> QED  BY <1>8, <1>10 DEF r, b

\* One block of a getdata.
LEMMA SendKeeps ==
    ASSUME NEW p, best[p] \in Block, NEW c \in Connection, NEW b \in Block
    PROVE  LET d == SendBlock(p, c, b) IN
           /\ d \in Connection /\ Keeps(c, d) /\ d.vInventoryToSend = c.vInventoryToSend
           /\ b \in has[p] => \E msg \in Range(d.toNode) : msg.type = "block" /\ msg.block = b
<1> DEFINE msg == [type |-> "block", block |-> b]
           sent == Append(c.toNode, msg)
           work == LastProofOfWork(p)
           more == [type |-> "inv", blocks |-> <<work>>]
           both == Append(sent, more)
           d == [c EXCEPT !.toNode = sent]
           e == [c EXCEPT !.toNode = both, !.hashContinue = NoBlock]
<1>1. work \in Block
  <2> DEFINE works == {a \in Ancestors[best[p]] : a = Genesis \/ ProofOfStake[a] = NoStake}
  <2>1. Genesis \in works /\ works \in SUBSET Ancestors[best[p]] /\ Ancestors[best[p]] \subseteq Block
    BY GenesisUnderAll, TreeAssumption
  <2>2. \E a \in works : \A k \in works : Height[k] <= Height[a]
    <3> HIDE DEF works
    <3> QED  BY <2>1, HighestExists
  <2>3. work \in works
    BY <2>2 DEF LastProofOfWork
  <2> QED  BY <2>1, <2>3
<1> HIDE DEF work
<1>2. msg \in ToNode /\ more \in ToNode /\ msg.type = "block" /\ msg.block = b
  BY <1>1 DEF ToNode
<1> HIDE DEF msg, more
<1>3. sent \in Seq(ToNode) /\ Range(sent) = Range(c.toNode) \cup {msg}
  BY <1>2, SeqRange DEF Connection
<1> HIDE DEF sent
<1>4. both \in Seq(ToNode) /\ Range(both) = Range(c.toNode) \cup {msg, more}
  BY <1>2, <1>3, SeqRange
<1> HIDE DEF both
<1>5. /\ d \in Connection /\ Keeps(c, d) /\ d.vInventoryToSend = c.vInventoryToSend
      /\ msg \in Range(d.toNode)
  BY <1>3 DEF Connection, Keeps
<1>6. /\ e \in Connection /\ Keeps(c, e) /\ e.vInventoryToSend = c.vInventoryToSend
      /\ msg \in Range(e.toNode)
  BY <1>4 DEF Connection, Keeps
<1>7. SendBlock(p, c, b) = CASE b \notin has[p] -> c
         [] b \in has[p] /\ b # c.hashContinue -> d
         [] OTHER -> e
  BY DEF SendBlock, msg, more, work, sent, both
<1>8. Keeps(c, c)
  BY DEF Keeps
<1> HIDE DEF d, e
<1>9. CASE b \notin has[p]
  <2>1. SendBlock(p, c, b) = c
    BY <1>7, <1>9
  <2> QED  BY <1>8, <1>9, <2>1
<1>10. CASE b \in has[p] /\ b # c.hashContinue
  <2>1. SendBlock(p, c, b) = d
    BY <1>7, <1>10
  <2> QED  BY <1>2, <1>5, <2>1
<1>11. CASE b \in has[p] /\ b = c.hashContinue
  <2>1. SendBlock(p, c, b) = e
    BY <1>7, <1>11
  <2> QED  BY <1>2, <1>6, <2>1
<1> QED  BY <1>9, <1>10, <1>11

Sending(f, p, c, blocks) ==
    f = [i \in 0..Len(blocks) |->
            IF i = 0 THEN c ELSE SendBlock(p, f[i - 1], blocks[i])]

\* Every block of a getdata that the peer has is sent.
LEMMA SentAll ==
    ASSUME NEW p, best[p] \in Block, NEW c \in Connection, NEW blocks \in Seq(Block)
    PROVE  LET d == SendBlocks(p, c, blocks) IN
           /\ d \in Connection /\ Keeps(c, d) /\ d.vInventoryToSend = c.vInventoryToSend
           /\ \A b \in Range(blocks) \cap has[p] :
                 \E msg \in Range(d.toNode) : msg.type = "block" /\ msg.block = b
<1> DEFINE n == Len(blocks)
           F == [i \in 1..n |-> [x \in Connection |-> SendBlock(p, x, blocks[i])]]
           f == CHOOSE g : Sending(g, p, c, blocks)
           On(d, b) == \E msg \in Range(d.toNode) : msg.type = "block" /\ msg.block = b
<1>1. /\ n \in Nat /\ Keeps(c, c)
      /\ \A i \in 1..n : i - 1 \in 0..n /\ i \in 0..n /\ i # 0 /\ blocks[i] \in Block
  BY DEF Keeps
<1>2. \E g : Sending(g, p, c, blocks)
  <2>1. PICK g : Loop(g, n, c, F)
    BY <1>1, LoopExists
  <2> DEFINE T == {i \in 0..n : g[i] \in Connection}
  <2>2. g[0] = c /\ \A i \in 1..n : g[i] = F[i][g[i - 1]]
    <3> HIDE DEF F, n
    <3> QED  BY <1>1, <2>1 DEF Loop
  <2>3. \A i \in 1..n : i - 1 \in T => g[i] = SendBlock(p, g[i - 1], blocks[i])
    BY <2>2
  <2>4. \A i \in 1..n : i - 1 \in T => i \in T
    <3>1. \A x \in Connection, i \in 1..n : SendBlock(p, x, blocks[i]) \in Connection
      BY <1>1, SendKeeps
    <3> QED  BY <1>1, <2>3, <3>1
  <2>5. ASSUME NEW k \in 0..n PROVE k \in T
    <3>1. k \in Nat /\ 0 \in T /\ \A i \in 1..k : i - 1 \in T => i \in T
      BY <1>1, <2>2, <2>4
    <3> HIDE DEF T
    <3> QED  BY <3>1, LoopKeeps
  <2>6. \A i \in 0..n : g[i] = IF i = 0 THEN c ELSE SendBlock(p, g[i - 1], blocks[i])
    <3>1. \A i \in 0..n : i # 0 => i \in 1..n /\ i - 1 \in 0..n
      BY <1>1
    <3> HIDE DEF T, n
    <3> QED  BY <2>2, <2>3, <2>5, <3>1
  <2> HIDE DEF F
  <2>7. g = [i \in 0..n |-> g[i]]
    BY <2>1 DEF Loop
  <2> QED  BY <2>6, <2>7 DEF Sending
<1>3. SendBlocks(p, c, blocks) = f[n]
  BY DEF SendBlocks, Sending
<1>4. Sending(f, p, c, blocks)
  BY <1>2
<1> HIDE DEF f
<1>5. f[0] = c /\ \A i \in 1..n : f[i] = SendBlock(p, f[i - 1], blocks[i])
  BY <1>1, <1>4 DEF Sending
<1>6. ASSUME NEW x \in Connection, NEW i \in 1..n, Keeps(c, x)
      PROVE  LET d == SendBlock(p, x, blocks[i]) IN
             /\ d \in Connection /\ Keeps(c, d) /\ d.vInventoryToSend = x.vInventoryToSend
             /\ \A b : On(x, b) => On(d, b)
             /\ blocks[i] \in has[p] => On(d, blocks[i])
  <2> DEFINE d == SendBlock(p, x, blocks[i])
  <2>1. /\ d \in Connection /\ Keeps(x, d) /\ d.vInventoryToSend = x.vInventoryToSend
        /\ blocks[i] \in has[p] => On(d, blocks[i])
    BY <1>1, SendKeeps
  <2> HIDE DEF d
  <2>2. Keeps(c, d) /\ \A b : On(x, b) => On(d, b)
    BY <1>6, <2>1 DEF Keeps
  <2> QED  BY <2>1, <2>2 DEF d
<1> HIDE DEF On
<1> DEFINE Done(d, i) ==
              /\ d \in Connection /\ Keeps(c, d) /\ d.vInventoryToSend = c.vInventoryToSend
              /\ \A j \in 1..i : blocks[j] \in has[p] => On(d, blocks[j])
           T == {i \in 0..n : Done(f[i], i)}
<1>7. 0 \in T
  BY <1>1, <1>5
<1>8. ASSUME NEW i \in 1..n, i - 1 \in T PROVE i \in T
  <2>1. Done(f[i - 1], i - 1)
    BY <1>8
  <2>2. \A j \in 1..i : j = i \/ j \in 1..(i - 1)
    OBVIOUS
  <2>3. Done(f[i], i)
    BY <1>5, <1>6, <2>1, <2>2
  <2> QED  BY <2>3
<1>9. n \in T
  <2> HIDE DEF T, n
  <2> QED  BY <1>1, <1>7, <1>8, LoopKeeps
<1>10. Done(f[n], n)
  BY <1>9
<1>11. \A b \in Range(blocks) : \E j \in 1..n : b = blocks[j]
  BY SeqRange
<1>12. \A b \in Range(blocks) \cap has[p] : On(f[n], b)
  BY <1>10, <1>11
<1> QED  BY <1>3, <1>10, <1>12 DEF On

-----------------------------------------------------------------------------
(***************************************************************************)
(* The steps of Download are steps of ProcessBlock, whose invariants hold  *)
(* therefore, and of the connections.                                      *)
(***************************************************************************)
PeersInv ==
    /\ best \in [Peer -> PeerBest] /\ has \in [Peer -> SUBSET Chains]
    /\ \A p \in Peer : Ancestors[best[p]] \subseteq has[p]

\* What a peer has announced, and will, it has.
ConnectionsInv ==
    /\ conn \in [Peer -> Connection]
    /\ \A p \in Peer :
          conn[p].setInventoryKnown \cup Range(conn[p].vInventoryToSend) \subseteq has[p]

AcceptedInv ==
    accepting # NoBlock =>
       accepting \in mapBlockIndex /\ StakesOf({accepting}) \subseteq setStakeSeen

DownloadInv == TypeInv /\ Stored /\ OrphanInv /\ AcceptedInv /\ PeersInv /\ ConnectionsInv

LEMMA ChainsAreBlocks ==
    /\ Chains \subseteq Block
    /\ \A b \in PeerBest : b \in Block /\ Ancestors[b] \subseteq Chains
  BY TreeAssumption, DownloadAssumption DEF Chains

LEMMA ClosedKeeps ==
    /\ Closed \in Connection /\ Closed.setInventoryKnown = {} /\ Range(Closed.vInventoryToSend) = {}
<1> DEFINE empty == << >>
<1>1. /\ empty \in Seq(Block) /\ empty \in Seq(Block \cup {NoBlock})
      /\ empty \in Seq(ToPeer) /\ empty \in Seq(ToNode) /\ Range(empty) = {}
  BY DEF Range
<1>2. Closed = [up |-> FALSE,
     nStartingHeight |-> 0, lastGetBlocks |-> empty, askNow |-> empty, askLater |-> {},
     setInventoryKnown |-> {}, vInventoryToSend |-> empty, hashContinue |-> NoBlock,
     toPeer |-> empty, toNode |-> empty]
  BY DEF Closed
<1> HIDE DEF empty
<1> QED  BY <1>1, <1>2 DEF Connection

-----------------------------------------------------------------------------
(***************************************************************************)
(* A block that is here, or was refused for its stake, stays so.  This     *)
(* needs two things of the blocks that peers have: AcceptBlock refuses     *)
(* none of them, as the peers run the same checks, and none has the stake  *)
(* of a block that AcceptBlock refuses.  Without the second an announced   *)
(* block would be refused for the stake of an orphan, the orphan erased,   *)
(* and the block not be asked for again.                                   *)
(***************************************************************************)
ChainsAreAcceptable ==
    Chains \cap Unacceptable = {} /\ StakesOf(Chains) \cap StakesOf(Unacceptable) = {}

Settled(b) ==
    ChainsAreAcceptable => AlreadyHave(b) \/ ProofOfStake[b] \in setStakeSeen \cup setStakeSeenOrphan

\* AnnouncedIsPursued, where the chains are acceptable.
InSight ==
    \A p \in Peer : \A b \in conn[p].setInventoryKnown : Settled(b) \/ Pursued(conn[p], b)

LEMMA InitDownloadInv == DownloadInit => DownloadInv /\ InSight
<1> SUFFICES ASSUME DownloadInit PROVE DownloadInv /\ InSight
  OBVIOUS
<1>1. TypeInv /\ Stored /\ OrphanInv
  BY InitTypes, InitStored, InitOrphanInv DEF DownloadInit, InitOrphanBlocks
<1>2. AcceptedInv
  BY DEF DownloadInit, InitOrphanBlocks, AcceptedInv
<1>3. PeersInv
  BY DownloadAssumption, TreeAssumption DEF DownloadInit, PeersInv, Chains
<1>4. ConnectionsInv /\ InSight
  BY ClosedKeeps DEF DownloadInit, ConnectionsInv, InSight
<1> QED  BY <1>1, <1>2, <1>3, <1>4 DEF DownloadInv

\* Every step of Download is one of ProcessBlock, of a known block, or none.
LEMMA DownloadSteps ==
    ASSUME ConnectionsInv, [DownloadNext]_allvars
    PROVE  [OrphanBlocksNext]_orphanVars
<1>1. CASE ProcessBlock
  BY <1>1 DEF ProcessBlock, OrphanBlocksNext
<1>2. ASSUME NEW p \in Peer, ReceiveNext(p) PROVE [OrphanBlocksNext]_orphanVars
  <2> DEFINE b == Head(conn[p].toNode).block
  <2>1. b \in Block
    <3> DEFINE s == conn[p].toNode
               msg == Head(s)
    <3>1. s \in Seq(ToNode) /\ s # << >>
      BY <1>2 DEF ReceiveNext, ConnectionsInv, Connection
    <3>2. msg \in ToNode /\ msg.type = "block"
      <4>1. msg \in ToNode
        <5> HIDE DEF s
        <5> QED  BY <3>1, SeqRange
      <4> QED  BY <1>2, <4>1 DEF ReceiveNext
    <3> HIDE DEF msg
    <3>3. msg.block \in Block
      BY <3>2 DEF ToNode
    <3> QED  BY <3>3 DEF msg
  <2>2. ProcessNext(b) \/ ReceiveOrphan(b)
    BY <1>2 DEF ReceiveNext
  <2> HIDE DEF b
  <2> QED  BY <2>1, <2>2 DEF ProcessNext, OrphanBlocksNext
<1>3. ASSUME NEW b \in Elsewhere, ReceiveElsewhere(b) PROVE [OrphanBlocksNext]_orphanVars
  BY <1>3, DownloadAssumption DEF ReceiveElsewhere, OrphanBlocksNext
<1>4. CASE DownloadRestart
  BY <1>4 DEF DownloadRestart, OrphanBlocksNext
<1>5. ASSUME UNCHANGED orphanVars PROVE [OrphanBlocksNext]_orphanVars
  BY <1>5
<1> QED
  BY <1>1, <1>2, <1>3, <1>4, <1>5
     DEF DownloadNext, NodeReceives, NodeSends, PeerAnswers, LeaveInitialDownload, PickNoNode,
         ReceiveInv, SendMessages, SendLater, PeerGetBlocks, PeerGetData, PeerSendsInv,
         PickCurrentBestNode, Connect, Disconnect, PeerGrows, allvars

LEMMA OrphanSteps == OrphanBlocksNext => [CrashNext]_vars
  BY DEF OrphanBlocksNext, Processing, ChainStep, ReceivedReturns, TryOrphan, AcceptBlock,
     OrphanRefused, OrphanReturns, NextOfQueue, ReceiveBlock, ReceiveOrphan, Restart, SteadyNext,
     Connecting, CrashNext

LEMMA NextAccepted ==
    ASSUME AcceptedInv, [OrphanBlocksNext]_orphanVars
    PROVE  AcceptedInv'
<1> USE DEF AcceptedInv
<1>1. CASE ChainStep
  BY <1>1, ChainStepIndexes DEF ChainStep
<1>2. ASSUME NEW b \in Block, TryOrphan(b) \/ ReceiveBlock(b) PROVE AcceptedInv'
  BY <1>2 DEF TryOrphan, ReceiveBlock, AcceptBlock, AddToBlockIndex
<1>3. CASE ReceivedReturns \/ OrphanReturns \/ Restart
  BY <1>3 DEF ReceivedReturns, OrphanReturns, Restart
<1>5. CASE NextOfQueue
  BY <1>5 DEF NextOfQueue, vars
<1>6. CASE UNCHANGED orphanVars
  BY <1>6 DEF orphanVars, vars, processing
<1>4. ASSUME NEW b \in Block, OrphanRefused(b) \/ ReceiveOrphan(b) PROVE AcceptedInv'
  BY <1>4 DEF OrphanRefused, ReceiveOrphan, vars, processing
<1> QED
  BY <1>1, <1>2, <1>3, <1>4, <1>5, <1>6 DEF OrphanBlocksNext, Processing

\* Between two messages the maps of blocks are right.
LEMMA KnownBetween ==
    ASSUME DownloadInv, MainFree
    PROVE  BlocksKnown
  BY DEF DownloadInv, TypeInv, TypeOK, Stored, OrphanInv, OrphanTypes, HeadInv, MainFree, BlocksKnown

-----------------------------------------------------------------------------
\* A step of ProcessBlock, or of none of it, without a crash.
GoesOn ==
    \/ Processing
    \/ \E b \in Block : ReceiveBlock(b) \/ ReceiveOrphan(b)
    \/ UNCHANGED orphanVars

LEMMA SettledStays ==
    ASSUME OrphanInv, AcceptedInv, GoesOn,
           NEW b \in Chains, Settled(b)
    PROVE  Settled(b)'
<1> SUFFICES ASSUME ChainsAreAcceptable PROVE Settled(b)'
  BY DEF Settled
<1> USE DEF Settled, AlreadyHave
<1>1. CASE ChainStep
  BY <1>1, ChainStepIndexes DEF ChainStep, orphanMaps
<1>2. ASSUME NEW k \in Block, TryOrphan(k) \/ ReceiveBlock(k) PROVE Settled(b)'
  BY <1>2 DEF TryOrphan, ReceiveBlock, AcceptBlock, AddToBlockIndex, orphanMaps
<1>3. CASE ReceivedReturns
  BY <1>3 DEF ReceivedReturns, vars, orphanMaps
<1>4. CASE NextOfQueue
  BY <1>4 DEF NextOfQueue, vars
<1>5. CASE OrphanReturns
  <2>1. /\ UNCHANGED <<mapBlockIndex, setStakeSeen>>
        /\ mapOrphanBlocks' = mapOrphanBlocks \ {accepting}
        /\ setStakeSeenOrphan' = setStakeSeenOrphan \ {ProofOfStake[accepting]}
        /\ accepting # NoBlock
    BY <1>5 DEF OrphanReturns, OrphanErased, vars
  <2>2. accepting \in mapBlockIndex /\ StakesOf({accepting}) \subseteq setStakeSeen
    BY <2>1 DEF AcceptedInv
  <2>3. NoStake \notin setStakeSeenOrphan
    BY DEF OrphanInv, StakeInv, StakesOf
  <2>4. ProofOfStake[accepting] = NoStake \/ ProofOfStake[accepting] \in setStakeSeen
    BY <2>2 DEF StakesOf
  <2> QED  BY <2>1, <2>2, <2>3, <2>4
<1>6. ASSUME NEW k \in Block, OrphanRefused(k) PROVE Settled(b)'
  <2>1. /\ UNCHANGED <<mapBlockIndex, setStakeSeen>>
        /\ mapOrphanBlocks' = mapOrphanBlocks \ {k}
        /\ setStakeSeenOrphan' = setStakeSeenOrphan \ {ProofOfStake[k]}
        /\ k \in Unacceptable
    BY <1>6 DEF OrphanRefused, OrphanErased, vars
  <2>2. b # k
    BY <2>1 DEF ChainsAreAcceptable
  <2>3. ProofOfStake[b] = NoStake \/ ProofOfStake[b] # ProofOfStake[k]
    BY <2>1 DEF ChainsAreAcceptable, StakesOf
  <2>4. NoStake \notin setStakeSeenOrphan
    BY DEF OrphanInv, StakeInv, StakesOf
  <2> QED  BY <2>1, <2>2, <2>3, <2>4
<1>7. ASSUME NEW k \in Block, ReceiveOrphan(k) PROVE Settled(b)'
  BY <1>7 DEF ReceiveOrphan, vars
<1>8. CASE UNCHANGED orphanVars
  BY <1>8 DEF orphanVars, vars, orphanMaps
<1> QED
  BY <1>1, <1>2, <1>3, <1>4, <1>5, <1>6, <1>7, <1>8 DEF GoesOn, Processing

\* A step that leaves all connections but p's as they are, and at p loses
\* nothing that is not settled.
LEMMA OneConnection ==
    ASSUME PeersInv, ConnectionsInv, InSight, NEW p \in Peer, NEW d \in Connection,
           conn' = [conn EXCEPT ![p] = d],
           \A q \in Peer : has[q] \subseteq has'[q],
           d.setInventoryKnown \cup Range(d.vInventoryToSend) \subseteq has'[p],
           \A b \in Chains : Settled(b) => Settled(b)',
           \A b \in d.setInventoryKnown : Settled(b)' \/ Pursued(d, b)
    PROVE  ConnectionsInv' /\ InSight'
<1>1. conn \in [Peer -> Connection] /\ conn'[p] = d /\ \A q \in Peer \ {p} : conn'[q] = conn[q]
  BY DEF ConnectionsInv
<1>2. ConnectionsInv'
  BY <1>1 DEF ConnectionsInv
<1>3. ASSUME NEW q \in Peer, NEW b \in conn'[q].setInventoryKnown
      PROVE  Settled(b)' \/ Pursued(conn'[q], b)
  <2>1. CASE q = p
    BY <1>1, <1>3, <2>1
  <2>2. CASE q # p
    <3>1. b \in conn[q].setInventoryKnown /\ b \in Chains
      BY <1>1, <1>3, <2>2 DEF ConnectionsInv, PeersInv
    <3>2. Settled(b) \/ Pursued(conn[q], b)
      BY <3>1 DEF InSight
    <3> QED  BY <1>1, <2>2, <3>1, <3>2
  <2> QED  BY <2>1, <2>2
<1>4. InSight'
  BY <1>3 DEF InSight
<1> QED  BY <1>2, <1>4

\* The same where ProcessBlock does nothing and no peer has more blocks.
LEMMA OneConnectionOnly ==
    ASSUME PeersInv, ConnectionsInv, InSight, NEW p \in Peer, NEW d \in Connection,
           conn' = [conn EXCEPT ![p] = d], UNCHANGED <<orphanVars, peers>>,
           d.setInventoryKnown \cup Range(d.vInventoryToSend) \subseteq has[p],
           \A b \in d.setInventoryKnown : Settled(b) \/ Pursued(d, b)
    PROVE  ConnectionsInv' /\ InSight'
<1>1. \A b : Settled(b) => Settled(b)'
  BY DEF orphanVars, vars, orphanMaps, Settled, AlreadyHave
<1>2. has' = has
  BY DEF peers
<1> QED  BY <1>1, <1>2, OneConnection

\* What p's connection is before a step.
LEMMA AtPeer ==
    ASSUME PeersInv, ConnectionsInv, InSight, NEW p \in Peer
    PROVE  /\ conn[p] \in Connection /\ best[p] \in Block /\ has[p] \subseteq Chains
           /\ Ancestors[best[p]] \subseteq has[p] /\ has[p] \subseteq Block
           /\ conn[p].setInventoryKnown \subseteq has[p]
           /\ Range(conn[p].vInventoryToSend) \subseteq has[p]
           /\ \A b \in conn[p].setInventoryKnown : Settled(b) \/ Pursued(conn[p], b)
  BY ChainsAreBlocks DEF InSight, PeersInv, ConnectionsInv

-----------------------------------------------------------------------------
LEMMA GetDataKeeps ==
    ASSUME NEW c \in Connection, NEW blocks \in Seq(Block)
    PROVE  LET d == SendGetData(c, blocks) IN
           /\ d \in Connection /\ Keeps(c, d) /\ d.vInventoryToSend = c.vInventoryToSend
           /\ \A b \in Range(blocks) : Pursued(d, b)
<1> DEFINE msg == [type |-> "getdata", blocks |-> blocks]
           t == Append(c.toPeer, msg)
           d == [c EXCEPT !.toPeer = t]
<1>1. msg \in ToPeer /\ msg.type = "getdata" /\ msg.blocks = blocks
  BY DEF ToPeer
<1>2. SendGetData(c, blocks) = IF blocks = << >> THEN c ELSE d
  BY DEF SendGetData
<1> HIDE DEF msg
<1>3. t \in Seq(ToPeer) /\ Range(t) = Range(c.toPeer) \cup {msg}
  BY <1>1, SeqRange DEF Connection
<1> HIDE DEF t
<1>4. /\ d \in Connection /\ Keeps(c, d) /\ d.vInventoryToSend = c.vInventoryToSend
      /\ msg \in Range(d.toPeer)
  BY <1>3 DEF Connection, Keeps
<1> HIDE DEF d
<1>5. \A b \in Range(blocks) : Pursued(d, b)
  BY <1>1, <1>4 DEF Pursued
<1>6. Keeps(c, c) /\ (blocks = << >> => Range(blocks) = {})
  BY DEF Keeps, Range
<1> QED  BY <1>2, <1>4, <1>5, <1>6

\* The requests leave the queue as one getdata.
LEMMA SendMessagesPursues ==
    ASSUME DownloadInv, InSight, NEW p \in Peer, SendMessages(p)
    PROVE  ConnectionsInv' /\ InSight'
<1> DEFINE c == conn[p]
           e == [c EXCEPT !.askNow = << >>]
           wanted == Wanted(c.askNow)
           d == SendGetData(e, wanted)
<1>1. PeersInv /\ ConnectionsInv
  BY DEF DownloadInv
<1>2. /\ c \in Connection /\ c.setInventoryKnown \subseteq has[p]
      /\ Range(c.vInventoryToSend) \subseteq has[p]
      /\ \A b \in c.setInventoryKnown : Settled(b) \/ Pursued(c, b)
  BY <1>1, AtPeer
<1>3. conn' = [conn EXCEPT ![p] = d] /\ UNCHANGED <<orphanVars, peers>>
  BY DEF SendMessages
<1>4. /\ e \in Connection /\ e.setInventoryKnown = c.setInventoryKnown
      /\ e.vInventoryToSend = c.vInventoryToSend /\ e.askLater = c.askLater
      /\ e.toPeer = c.toPeer /\ e.toNode = c.toNode
  <2> DEFINE empty == << >>
  <2>1. empty \in Seq(Block)
    OBVIOUS
  <2> HIDE DEF empty, c
  <2>2. [c EXCEPT !.askNow = empty] \in Connection
    BY <1>2, <2>1 DEF Connection
  <2> QED  BY <1>2, <2>2 DEF empty, Connection
<1>5. /\ wanted \in Seq(Block)
      /\ \A b \in Range(c.askNow) : AlreadyHave(b) \/ b \in Range(wanted)
  <2>1. c.askNow \in Seq(Block)
    BY <1>2 DEF Connection
  <2> HIDE DEF c
  <2> QED  BY <2>1, WantedAll
<1> HIDE DEF c, e, wanted
<1>6. /\ d \in Connection /\ Keeps(e, d) /\ d.vInventoryToSend = e.vInventoryToSend
      /\ \A b \in Range(wanted) : Pursued(d, b)
  BY <1>4, <1>5, GetDataKeeps
<1> HIDE DEF d
<1>7. d.setInventoryKnown = c.setInventoryKnown
  BY <1>4, <1>6 DEF Keeps
<1>8. ASSUME NEW b \in d.setInventoryKnown PROVE Settled(b) \/ Pursued(d, b)
  <2>1. Settled(b) \/ Pursued(c, b)
    BY <1>2, <1>7
  <2>2. CASE b \in Range(c.askNow)
    BY <1>5, <1>6, <2>2 DEF Settled
  <2>3. CASE b \notin Range(c.askNow) /\ Pursued(c, b)
    <3>1. Pursued(e, b)
      BY <1>4, <2>3 DEF Pursued
    <3> QED  BY <1>6, <3>1, KeepsPursued
  <2> QED  BY <2>1, <2>2, <2>3
<1> QED  BY <1>1, <1>2, <1>3, <1>4, <1>6, <1>7, <1>8, OneConnectionOnly

LEMMA SendLaterPursues ==
    ASSUME DownloadInv, InSight, NEW p \in Peer, NEW x \in conn[p].askLater, SendLater(p, x)
    PROVE  ConnectionsInv' /\ InSight'
<1> DEFINE c == conn[p]
           e == [c EXCEPT !.askLater = @ \ {x}]
           wanted == Wanted(<<x>>)
           d == SendGetData(e, wanted)
<1>1. PeersInv /\ ConnectionsInv
  BY DEF DownloadInv
<1>2. /\ c \in Connection /\ c.setInventoryKnown \subseteq has[p]
      /\ Range(c.vInventoryToSend) \subseteq has[p]
      /\ \A b \in c.setInventoryKnown : Settled(b) \/ Pursued(c, b)
  BY <1>1, AtPeer
<1>3. conn' = [conn EXCEPT ![p] = d] /\ UNCHANGED <<orphanVars, peers>>
  BY DEF SendLater
<1>4. /\ e \in Connection /\ e.setInventoryKnown = c.setInventoryKnown
      /\ e.vInventoryToSend = c.vInventoryToSend /\ e.askLater = c.askLater \ {x}
      /\ e.askNow = c.askNow /\ e.toPeer = c.toPeer /\ e.toNode = c.toNode
  BY <1>2 DEF Connection
<1>5. wanted \in Seq(Block) /\ (AlreadyHave(x) \/ x \in Range(wanted))
  <2> DEFINE one == <<x>>
  <2>1. x \in Block
    BY <1>2 DEF Connection
  <2>2. one \in Seq(Block) /\ x \in Range(one)
    BY <2>1 DEF Range
  <2> HIDE DEF one
  <2>3. /\ Wanted(one) \in Seq(Block)
        /\ \A b \in Range(one) : AlreadyHave(b) \/ b \in Range(Wanted(one))
    BY <2>2, WantedAll
  <2> QED  BY <2>2, <2>3 DEF one
<1> HIDE DEF c, e, wanted
<1>6. /\ d \in Connection /\ Keeps(e, d) /\ d.vInventoryToSend = e.vInventoryToSend
      /\ \A b \in Range(wanted) : Pursued(d, b)
  BY <1>4, <1>5, GetDataKeeps
<1> HIDE DEF d
<1>7. d.setInventoryKnown = c.setInventoryKnown
  BY <1>4, <1>6 DEF Keeps
<1>8. ASSUME NEW b \in d.setInventoryKnown PROVE Settled(b) \/ Pursued(d, b)
  <2>1. Settled(b) \/ Pursued(c, b)
    BY <1>2, <1>7
  <2>2. CASE b = x
    BY <1>5, <1>6, <2>2 DEF Settled
  <2>3. CASE b # x /\ Pursued(c, b)
    <3>1. Pursued(e, b)
      BY <1>4, <2>3 DEF Pursued
    <3> QED  BY <1>6, <3>1, KeepsPursued
  <2> QED  BY <2>1, <2>2, <2>3
<1> QED  BY <1>1, <1>2, <1>3, <1>4, <1>6, <1>7, <1>8, OneConnectionOnly

\* A connection that only gains messages.
LEMMA GainedPursues ==
    ASSUME DownloadInv, InSight, NEW p \in Peer, NEW d \in Connection,
           conn' = [conn EXCEPT ![p] = d], UNCHANGED <<orphanVars, peers>>,
           Keeps(conn[p], d), Range(d.vInventoryToSend) \subseteq has[p]
    PROVE  ConnectionsInv' /\ InSight'
<1>1. PeersInv /\ ConnectionsInv
  BY DEF DownloadInv
<1>2. /\ conn[p].setInventoryKnown \subseteq has[p] /\ d.setInventoryKnown = conn[p].setInventoryKnown
      /\ \A b \in conn[p].setInventoryKnown : Settled(b) \/ Pursued(conn[p], b)
  BY <1>1, AtPeer DEF Keeps
<1>3. \A b \in d.setInventoryKnown : Settled(b) \/ Pursued(d, b)
  BY <1>2, KeepsPursued
<1> QED  BY <1>1, <1>2, <1>3, OneConnectionOnly

LEMMA PickPursues ==
    ASSUME DownloadInv, InSight, NEW p \in Peer, PickCurrentBestNode(p)
    PROVE  ConnectionsInv' /\ InSight'
<1> DEFINE c == conn[p]
           d == PushGetBlocks(c, pindexBest, NoBlock)
<1>1. PeersInv /\ ConnectionsInv /\ pindexBest \in Block /\ UNCHANGED <<orphanVars, peers>>
  BY DEF DownloadInv, TypeInv, TypeOK, PickCurrentBestNode
<1>2. conn' = conn \/ conn' = [conn EXCEPT ![p] = d]
  BY DEF PickCurrentBestNode
<1>3. c \in Connection /\ Range(c.vInventoryToSend) \subseteq has[p] /\ Keeps(c, c)
  BY <1>1, AtPeer DEF Keeps
<1>4. d \in Connection /\ Keeps(c, d) /\ d.vInventoryToSend = c.vInventoryToSend
  <2> HIDE DEF c
  <2> QED  BY <1>1, <1>3, GetBlocksKeeps
<1>5. CASE conn' = conn
  <2>1. conn' = [conn EXCEPT ![p] = c]
    BY <1>1, <1>5 DEF ConnectionsInv
  <2> HIDE DEF c
  <2> QED  BY <1>1, <1>3, <2>1, GainedPursues DEF c
<1>6. CASE conn' = [conn EXCEPT ![p] = d]
  <2> HIDE DEF d
  <2> QED  BY <1>1, <1>3, <1>4, <1>6, GainedPursues
<1> QED  BY <1>2, <1>5, <1>6

LEMMA ConnectPursues ==
    ASSUME DownloadInv, InSight, NEW p \in Peer, Connect(p) \/ Disconnect(p)
    PROVE  ConnectionsInv' /\ InSight'
<1> DEFINE c == [Closed EXCEPT !.up = TRUE, !.nStartingHeight = Height[best[p]]]
           d == PushGetBlocks(c, pindexBest, NoBlock)
<1>1. PeersInv /\ ConnectionsInv /\ pindexBest \in Block /\ UNCHANGED <<orphanVars, peers>>
  BY DEF DownloadInv, TypeInv, TypeOK, Connect, Disconnect
<1>2. \E e \in {Closed, c, d} : conn' = [conn EXCEPT ![p] = e]
  BY DEF Connect, Disconnect
<1>3. Height[best[p]] \in Nat
  BY <1>1, AtPeer, TreeAssumption
<1>4. c \in Connection /\ c.setInventoryKnown = {} /\ c.vInventoryToSend = Closed.vInventoryToSend
  BY <1>3, ClosedKeeps DEF Connection
<1> HIDE DEF c
<1>5. d \in Connection /\ d.setInventoryKnown = {} /\ d.vInventoryToSend = Closed.vInventoryToSend
  BY <1>1, <1>4, GetBlocksKeeps DEF Keeps
<1> HIDE DEF d
<1>6. PICK e \in {Closed, c, d} : conn' = [conn EXCEPT ![p] = e]
  BY <1>2
<1>7. e \in Connection /\ e.setInventoryKnown = {} /\ Range(e.vInventoryToSend) = {}
  BY <1>4, <1>5, ClosedKeeps
<1> QED  BY <1>1, <1>6, <1>7, OneConnectionOnly

\* An inv is received: its blocks are here or will be requested.
LEMMA ReceiveInvPursues ==
    ASSUME DownloadInv, InSight, NEW p \in Peer, ReceiveInv(p)
    PROVE  ConnectionsInv' /\ InSight'
<1> DEFINE o == conn[p]
           s == o.toNode
           t == Tail(s)
           msg == Head(s)
           blocks == msg.blocks
           c == [o EXCEPT !.toNode = t]
           d == Heard(p, c, blocks)
<1>1. PeersInv /\ ConnectionsInv /\ BlocksKnown
  BY KnownBetween DEF DownloadInv, ReceiveInv
<1>2. /\ o \in Connection /\ o.setInventoryKnown \subseteq has[p]
      /\ Range(o.vInventoryToSend) \subseteq has[p]
      /\ \A b \in o.setInventoryKnown : Settled(b) \/ Pursued(o, b)
  BY <1>1, AtPeer
<1>3. /\ conn' = [conn EXCEPT ![p] = d] /\ UNCHANGED <<orphanVars, peers>>
      /\ s # << >> /\ msg.type = "inv"
  BY DEF ReceiveInv
<1>4. s \in Seq(ToNode)
  BY <1>2 DEF Connection
<1> HIDE DEF o, s
<1>5. msg \in ToNode /\ t \in Seq(ToNode) /\ Range(s) = {msg} \cup Range(t)
  BY <1>3, <1>4, SeqRange
<1> HIDE DEF t, msg
<1>6. blocks \in Seq(Block)
  BY <1>3, <1>5 DEF ToNode
<1>7. /\ c \in Connection /\ c.setInventoryKnown = o.setInventoryKnown
      /\ c.vInventoryToSend = o.vInventoryToSend /\ c.askLater = o.askLater
      /\ c.askNow = o.askNow /\ c.toPeer = o.toPeer /\ c.toNode = t
  BY <1>2, <1>5 DEF Connection
<1> HIDE DEF c, blocks
<1>8. /\ d \in Connection /\ Keeps(c, d) /\ d.vInventoryToSend = c.vInventoryToSend
      /\ \A b \in Range(blocks) : AlreadyHave(b) \/ b \in Range(d.askNow) \cup d.askLater
  BY <1>1, <1>6, <1>7, HeardAll
<1> HIDE DEF d
<1>9. ASSUME NEW b \in d.setInventoryKnown PROVE Settled(b) \/ Pursued(d, b)
  <2>1. Settled(b) \/ Pursued(o, b)
    BY <1>2, <1>7, <1>8, <1>9 DEF Keeps
  <2>2. CASE b \in Range(blocks)
    BY <1>8, <2>2 DEF Settled, Pursued
  <2>3. CASE b \notin Range(blocks) /\ Pursued(o, b)
    <3>1. Pursued(c, b)
      BY <1>3, <1>5, <1>7, <2>3 DEF Pursued, s, blocks
    <3> QED  BY <1>8, <3>1, KeepsPursued
  <2> QED  BY <2>1, <2>2, <2>3
<1>10. d.setInventoryKnown \cup Range(d.vInventoryToSend) \subseteq has[p]
  BY <1>2, <1>7, <1>8 DEF Keeps
<1> QED  BY <1>1, <1>3, <1>8, <1>9, <1>10, OneConnectionOnly

\* A getblocks is answered with announcements of the peer's best chain.
LEMMA GetBlocksPursues ==
    ASSUME DownloadInv, InSight, NEW p \in Peer, PeerGetBlocks(p)
    PROVE  ConnectionsInv' /\ InSight'
<1> DEFINE o == conn[p]
           s == o.toPeer
           t == Tail(s)
           msg == Head(s)
           rest == RestOfChain(p, msg.begin)
           c == [o EXCEPT !.toPeer = t]
           e == [c EXCEPT !.hashContinue = rest[Limit]]
           S == has[p]
<1>1. PeersInv /\ ConnectionsInv
  BY DEF DownloadInv
<1>2. /\ o \in Connection /\ o.setInventoryKnown \subseteq S
      /\ Range(o.vInventoryToSend) \subseteq S
      /\ \A b \in o.setInventoryKnown : Settled(b) \/ Pursued(o, b)
      /\ best[p] \in Block /\ Ancestors[best[p]] \subseteq S /\ S \in SUBSET Block
  BY <1>1, AtPeer
<1>3. s # << >> /\ msg.type = "getblocks" /\ UNCHANGED <<orphanVars, peers>>
  BY DEF PeerGetBlocks
<1>4. s \in Seq(ToPeer)
  BY <1>2 DEF Connection
<1>5. \/ \E k \in 1..Len(rest), latest \in {<< >>} \cup {<<b>> : b \in {best[p]} \ {msg.stop}} :
            conn' = [conn EXCEPT ![p] = PushAll(c, SubSeq(rest, 1, k - 1) \o latest)]
      \/ conn' = [conn EXCEPT ![p] = PushAll(c, rest)]
      \/ /\ Len(rest) >= Limit
         /\ conn' = [conn EXCEPT ![p] = PushAll(e, SubSeq(rest, 1, Limit))]
  BY DEF PeerGetBlocks
<1> HIDE DEF o, s
<1>6. msg \in ToPeer /\ t \in Seq(ToPeer) /\ Range(s) = {msg} \cup Range(t)
  BY <1>3, <1>4, SeqRange
<1> HIDE DEF t
<1>7. msg.begin \in Block
  <2> HIDE DEF msg
  <2> QED  BY <1>3, <1>6 DEF ToPeer
<1>8. rest \in Seq(S) /\ best[p] \in S
  <2>1. rest \in Seq(Ancestors[best[p]])
    <3> HIDE DEF msg
    <3> QED  BY <1>2, <1>7, RestIsOfChain
  <2> HIDE DEF rest, S
  <2> QED  BY <1>2, <2>1, SelfAncestor
<1> HIDE DEF rest, S
<1>9. /\ c \in Connection /\ c.setInventoryKnown = o.setInventoryKnown
      /\ c.vInventoryToSend = o.vInventoryToSend /\ c.askLater = o.askLater
      /\ c.askNow = o.askNow /\ c.toPeer = t /\ c.toNode = o.toNode
  BY <1>2, <1>6 DEF Connection
<1> HIDE DEF c
<1>10. \E d \in Connection : /\ conn' = [conn EXCEPT ![p] = d]
                             /\ Keeps(c, d) /\ Range(d.vInventoryToSend) \subseteq S
  <2>1. ASSUME NEW blocks \in Seq(S)
        PROVE  LET d == PushAll(c, blocks) IN
               d \in Connection /\ Keeps(c, d) /\ Range(d.vInventoryToSend) \subseteq S
    BY <1>2, <1>9, PushedAll
  <2>2. CASE \E k \in 1..Len(rest), latest \in {<< >>} \cup {<<b>> : b \in {best[p]} \ {msg.stop}} :
            conn' = [conn EXCEPT ![p] = PushAll(c, SubSeq(rest, 1, k - 1) \o latest)]
    <3>1. PICK k \in 1..Len(rest), latest \in {<< >>} \cup {<<b>> : b \in {best[p]} \ {msg.stop}} :
            conn' = [conn EXCEPT ![p] = PushAll(c, SubSeq(rest, 1, k - 1) \o latest)]
      BY <2>2
    <3>2. latest \in Seq(S)
      <4>1. latest = << >> \/ latest = <<best[p]>>
        OBVIOUS
      <4>2. CASE latest = << >>
        BY <4>2
      <4>3. CASE latest = <<best[p]>>
        BY <1>8, <4>3
      <4> QED  BY <4>1, <4>2, <4>3
    <3>3. SubSeq(rest, 1, k - 1) \in Seq(S)
      BY <1>8
    <3> DEFINE blocks == SubSeq(rest, 1, k - 1) \o latest
    <3>4. blocks \in Seq(S)
      BY <3>2, <3>3
    <3> HIDE DEF blocks
    <3>5. conn' = [conn EXCEPT ![p] = PushAll(c, blocks)]
      BY <3>1 DEF blocks
    <3> QED  BY <2>1, <3>4, <3>5
  <2>3. CASE conn' = [conn EXCEPT ![p] = PushAll(c, rest)]
    BY <1>8, <2>1, <2>3
  <2>4. CASE /\ Len(rest) >= Limit
             /\ conn' = [conn EXCEPT ![p] = PushAll(e, SubSeq(rest, 1, Limit))]
    <3> DEFINE blocks == SubSeq(rest, 1, Limit)
               d == PushAll(e, blocks)
    <3>1. Limit \in 1..Len(rest)
      BY <1>8, <2>4, DownloadAssumption
    <3>2. rest[Limit] \in S /\ blocks \in Seq(S)
      BY <1>8, <3>1
    <3> HIDE DEF blocks
    <3>3. e \in Connection /\ Keeps(c, e) /\ e.vInventoryToSend = c.vInventoryToSend
      BY <1>2, <1>9, <3>2 DEF Connection, Keeps
    <3> HIDE DEF e
    <3>4. d \in Connection /\ Keeps(e, d) /\ Range(d.vInventoryToSend) \subseteq S
      BY <1>2, <1>9, <3>2, <3>3, PushedAll
    <3> HIDE DEF d
    <3>5. Keeps(c, d)
      BY <3>3, <3>4 DEF Keeps
    <3> QED  BY <2>4, <3>4, <3>5 DEF d, blocks
  <2> QED  BY <1>5, <2>2, <2>3, <2>4
<1>11. PICK d \in Connection : /\ conn' = [conn EXCEPT ![p] = d]
                               /\ Keeps(c, d) /\ Range(d.vInventoryToSend) \subseteq S
  BY <1>10
<1>12. ASSUME NEW b \in d.setInventoryKnown PROVE Settled(b) \/ Pursued(d, b)
  <2>1. Settled(b) \/ Pursued(o, b)
    BY <1>2, <1>9, <1>11, <1>12 DEF Keeps
  <2>2. Pursued(o, b) => Pursued(c, b)
    BY <1>3, <1>6, <1>9 DEF Pursued, s
  <2> QED  BY <1>11, <2>1, <2>2, KeepsPursued
<1>13. d.setInventoryKnown \cup Range(d.vInventoryToSend) \subseteq has[p]
  BY <1>2, <1>9, <1>11 DEF Keeps, S
<1> QED  BY <1>1, <1>3, <1>11, <1>12, <1>13, OneConnectionOnly

\* A getdata is answered: the blocks announced are ones the peer has.
LEMMA GetDataPursues ==
    ASSUME DownloadInv, InSight, NEW p \in Peer, PeerGetData(p)
    PROVE  ConnectionsInv' /\ InSight'
<1> DEFINE o == conn[p]
           s == o.toPeer
           t == Tail(s)
           msg == Head(s)
           blocks == msg.blocks
           c == [o EXCEPT !.toPeer = t]
           d == SendBlocks(p, c, blocks)
<1>1. PeersInv /\ ConnectionsInv
  BY DEF DownloadInv
<1>2. /\ o \in Connection /\ o.setInventoryKnown \subseteq has[p]
      /\ Range(o.vInventoryToSend) \subseteq has[p] /\ best[p] \in Block
      /\ \A b \in o.setInventoryKnown : Settled(b) \/ Pursued(o, b)
  BY <1>1, AtPeer
<1>3. /\ conn' = [conn EXCEPT ![p] = d] /\ UNCHANGED <<orphanVars, peers>>
      /\ s # << >> /\ msg.type = "getdata"
  BY DEF PeerGetData
<1>4. s \in Seq(ToPeer)
  BY <1>2 DEF Connection
<1> HIDE DEF o, s
<1>5. msg \in ToPeer /\ t \in Seq(ToPeer) /\ Range(s) = {msg} \cup Range(t)
  BY <1>3, <1>4, SeqRange
<1> HIDE DEF t, msg
<1>6. blocks \in Seq(Block)
  BY <1>3, <1>5 DEF ToPeer
<1>7. /\ c \in Connection /\ c.setInventoryKnown = o.setInventoryKnown
      /\ c.vInventoryToSend = o.vInventoryToSend /\ c.askLater = o.askLater
      /\ c.askNow = o.askNow /\ c.toPeer = t /\ c.toNode = o.toNode
  BY <1>2, <1>5 DEF Connection
<1> HIDE DEF c, blocks
<1>8. /\ d \in Connection /\ Keeps(c, d) /\ d.vInventoryToSend = c.vInventoryToSend
      /\ \A b \in Range(blocks) \cap has[p] :
            \E m \in Range(d.toNode) : m.type = "block" /\ m.block = b
  BY <1>2, <1>6, <1>7, SentAll
<1> HIDE DEF d
<1>9. ASSUME NEW b \in d.setInventoryKnown PROVE Settled(b) \/ Pursued(d, b)
  <2>1. (Settled(b) \/ Pursued(o, b)) /\ b \in has[p]
    BY <1>2, <1>7, <1>8, <1>9 DEF Keeps
  <2>2. CASE b \in Range(blocks)
    BY <1>8, <2>1, <2>2 DEF Pursued
  <2>3. CASE b \notin Range(blocks) /\ Pursued(o, b)
    <3>1. Pursued(c, b)
      BY <1>5, <1>7, <2>3 DEF Pursued, s, blocks
    <3> QED  BY <1>8, <3>1, KeepsPursued
  <2> QED  BY <2>1, <2>2, <2>3
<1>10. d.setInventoryKnown \cup Range(d.vInventoryToSend) \subseteq has[p]
  BY <1>2, <1>7, <1>8 DEF Keeps
<1> QED  BY <1>1, <1>3, <1>8, <1>9, <1>10, OneConnectionOnly

\* What is announced from now on is in the inv that announces it.
LEMMA SendsInvPursues ==
    ASSUME DownloadInv, InSight, NEW p \in Peer, PeerSendsInv(p)
    PROVE  ConnectionsInv' /\ InSight'
<1> DEFINE c == conn[p]
           blocks == c.vInventoryToSend
           empty == << >>
           known == c.setInventoryKnown \cup Range(blocks)
           msg == [type |-> "inv", blocks |-> blocks]
           t == Append(c.toNode, msg)
           d == [c EXCEPT !.vInventoryToSend = empty, !.setInventoryKnown = known, !.toNode = t]
<1>1. PeersInv /\ ConnectionsInv /\ UNCHANGED <<orphanVars, peers>>
  BY DEF DownloadInv, PeerSendsInv
<1>2. /\ c \in Connection /\ known \subseteq has[p] /\ known \subseteq Block
      /\ \A b \in c.setInventoryKnown : Settled(b) \/ Pursued(c, b)
  BY <1>1, AtPeer
<1>3. conn' = [conn EXCEPT ![p] = d]
  BY <1>1 DEF PeerSendsInv, ConnectionsInv
<1>4. /\ empty \in Seq(Block) /\ Range(empty) = {}
      /\ blocks \in Seq(Block) /\ c.toNode \in Seq(ToNode)
  BY <1>2 DEF Range, Connection
<1> HIDE DEF c, known, empty, blocks
<1>5. msg \in ToNode /\ msg.type = "inv" /\ msg.blocks = blocks
  BY <1>4 DEF ToNode
<1> HIDE DEF msg
<1>6. t \in Seq(ToNode) /\ Range(t) = Range(c.toNode) \cup {msg}
  BY <1>4, <1>5, SeqRange
<1> HIDE DEF t
<1>7. /\ d \in Connection /\ d.setInventoryKnown = known
      /\ d.vInventoryToSend = empty /\ d.askLater = c.askLater
      /\ d.askNow = c.askNow /\ d.toPeer = c.toPeer /\ d.toNode = t
  BY <1>2, <1>4, <1>6 DEF Connection
<1> HIDE DEF d
<1>8. ASSUME NEW b \in d.setInventoryKnown PROVE Settled(b) \/ Pursued(d, b)
  <2>1. CASE b \in Range(blocks)
    BY <1>5, <1>6, <1>7, <2>1 DEF Pursued
  <2>2. CASE b \in c.setInventoryKnown
    BY <1>2, <1>6, <1>7, <2>2 DEF Pursued
  <2> QED  BY <1>7, <1>8, <2>1, <2>2 DEF known
<1> QED  BY <1>1, <1>2, <1>3, <1>4, <1>7, <1>8, OneConnectionOnly

LEMMA GrowsPursues ==
    ASSUME DownloadInv, InSight, NEW p \in Peer, NEW b \in PeerBest, PeerGrows(p, b)
    PROVE  PeersInv' /\ ConnectionsInv' /\ InSight'
<1> DEFINE c == conn[p]
           d == IF c.up THEN PushInventory(c, b) ELSE c
           S == has'[p]
<1>1. PeersInv /\ ConnectionsInv
  BY DEF DownloadInv
<1>2. /\ best' = [best EXCEPT ![p] = b] /\ has' = [has EXCEPT ![p] = @ \cup Ancestors[b]]
      /\ conn' = [conn EXCEPT ![p] = d] /\ UNCHANGED orphanVars
  BY DEF PeerGrows
<1>3. b \in Block /\ b \in Ancestors[b] /\ Ancestors[b] \subseteq Chains
  BY ChainsAreBlocks, SelfAncestor
<1>4. PeersInv' /\ (\A q \in Peer : has[q] \subseteq has'[q]) /\ b \in S /\ S \in SUBSET Block
  BY <1>1, <1>2, <1>3, ChainsAreBlocks DEF PeersInv
<1>5. /\ c \in Connection /\ c.setInventoryKnown \subseteq S /\ Range(c.vInventoryToSend) \subseteq S
      /\ \A k \in c.setInventoryKnown : Settled(k) \/ Pursued(c, k)
  BY <1>1, <1>4, AtPeer
<1> HIDE DEF c, S
<1>6. d \in Connection /\ Keeps(c, d) /\ Range(d.vInventoryToSend) \subseteq S
  <2>1. Keeps(c, c)
    BY DEF Keeps
  <2> QED  BY <1>4, <1>5, <2>1, PushKeeps
<1> HIDE DEF d
<1>7. \A k : Settled(k) => Settled(k)'
  BY <1>2 DEF orphanVars, vars, orphanMaps, Settled, AlreadyHave
<1>8. ASSUME NEW k \in d.setInventoryKnown PROVE Settled(k)' \/ Pursued(d, k)
  BY <1>5, <1>6, <1>7, <1>8, KeepsPursued DEF Keeps
<1>9. d.setInventoryKnown \cup Range(d.vInventoryToSend) \subseteq has'[p]
  BY <1>5, <1>6 DEF Keeps, S
<1>10. ConnectionsInv' /\ InSight'
  BY <1>1, <1>2, <1>4, <1>6, <1>7, <1>8, <1>9, OneConnection
<1> QED  BY <1>4, <1>10

\* "block" is received: the block is here now, or has been refused for its
\* stake; what it lacks is asked for.
LEMMA ReceiveNextPursues ==
    ASSUME DownloadInv, InSight, NEW p \in Peer, ReceiveNext(p)
    PROVE  ConnectionsInv' /\ InSight'
<1> DEFINE o == conn[p]
           s == o.toNode
           t == Tail(s)
           msg == Head(s)
           b == msg.block
           c == [o EXCEPT !.toNode = t]
           a == AskForMissing(p, c, b)
<1>1. PeersInv /\ ConnectionsInv /\ OrphanInv /\ AcceptedInv /\ UNCHANGED peers
  BY DEF DownloadInv, ReceiveNext
<1>2. /\ o \in Connection /\ o.setInventoryKnown \subseteq has[p] /\ has[p] \subseteq Chains
      /\ Range(o.vInventoryToSend) \subseteq has[p]
      /\ \A x \in o.setInventoryKnown : Settled(x) \/ Pursued(o, x)
  BY <1>1, AtPeer
<1>3. /\ s # << >> /\ msg.type = "block"
      /\ \/ ProcessNext(b) /\ conn' = [conn EXCEPT ![p] = c]
         \/ ReceiveOrphan(b) /\ conn' = [conn EXCEPT ![p] = a]
  BY DEF ReceiveNext
<1>4. s \in Seq(ToNode)
  BY <1>2 DEF Connection
<1> HIDE DEF o, s
<1>5. msg \in ToNode /\ t \in Seq(ToNode) /\ Range(s) = {msg} \cup Range(t)
  BY <1>3, <1>4, SeqRange
<1> HIDE DEF t, msg
<1>6. b \in Block
  BY <1>3, <1>5 DEF ToNode
<1>7. /\ c \in Connection /\ c.setInventoryKnown = o.setInventoryKnown
      /\ c.vInventoryToSend = o.vInventoryToSend /\ c.askLater = o.askLater
      /\ c.askNow = o.askNow /\ c.toPeer = o.toPeer /\ c.toNode = t
  BY <1>2, <1>5 DEF Connection
<1> HIDE DEF c, b
<1>8. PICK d \in {c, a} :
         /\ conn' = [conn EXCEPT ![p] = d] /\ d \in Connection /\ Keeps(c, d)
         /\ d.vInventoryToSend = c.vInventoryToSend
  <2>1. Keeps(c, c)
    BY DEF Keeps
  <2>2. CASE conn' = [conn EXCEPT ![p] = c]
    BY <1>7, <2>1, <2>2
  <2>3. CASE ReceiveOrphan(b) /\ conn' = [conn EXCEPT ![p] = a]
    <3> DEFINE root == GetOrphanRoot(b, mapOrphanBlocks')
               asked == PushGetBlocks(c, pindexBest, root)
    <3>1. pindexBest \in Block
      BY DEF DownloadInv, TypeInv, TypeOK
    <3>2. root \in Block \ {Genesis}
      <4>1. BlocksKnown
        BY <2>3, KnownBetween DEF ReceiveOrphan, NewBlock
      <4>2. mapOrphanBlocks' = mapOrphanBlocks \cup {b} /\ b # Genesis
        BY <2>3 DEF ReceiveOrphan
      <4> QED  BY <1>6, <4>1, <4>2, RootExists DEF BlocksKnown
    <3>3. Parent[root] \in Block
      BY <3>2, TreeAssumption
    <3>4. a = CASE ~MayPush(p) -> c
                [] MayPush(p) /\ ibdLatched -> AskFor(asked, Parent[root])
                [] OTHER -> asked
      BY DEF AskForMissing
    <3> HIDE DEF root, a
    <3>5. asked \in Connection /\ Keeps(c, asked) /\ asked.vInventoryToSend = c.vInventoryToSend
      BY <1>7, <3>1, <3>2, GetBlocksKeeps
    <3> HIDE DEF asked
    <3> DEFINE f == AskFor(asked, Parent[root])
    <3>6. f \in Connection /\ Keeps(asked, f) /\ f.vInventoryToSend = asked.vInventoryToSend
      BY <3>3, <3>5, AskForKeeps
    <3> HIDE DEF f
    <3>7. Keeps(c, f)
      BY <3>5, <3>6 DEF Keeps
    <3>8. a \in {c, asked, f}
      BY <3>4 DEF f
    <3> QED  BY <1>7, <2>1, <2>3, <3>5, <3>6, <3>7, <3>8
  <2> QED  BY <1>3, <2>2, <2>3
<1> HIDE DEF a
<1>9. GoesOn
  BY <1>3, <1>6 DEF GoesOn, ProcessNext
<1> SUFFICES ASSUME NEW k \in Block, k = b PROVE ConnectionsInv' /\ InSight'
  BY <1>6
<1>10. ASSUME k \in Chains PROVE Settled(k)'
  <2>1. CASE ReceiveBlock(k)
    BY <2>1 DEF ReceiveBlock, AcceptBlock, AddToBlockIndex, Settled, AlreadyHave
  <2>2. CASE ReceiveOrphan(k)
    BY <2>2 DEF ReceiveOrphan, Settled, AlreadyHave
  <2>3. CASE ProcessNext(k) /\ ~ReceiveBlock(k)
    <3>1. Settled(k)
      BY <1>10, <2>3 DEF ProcessNext, NewBlock, DuplicateStake, ChainsAreAcceptable, Settled, AlreadyHave
    <3> QED  BY <1>1, <1>9, <1>10, <3>1, SettledStays
  <2> QED  BY <1>3, <2>1, <2>2, <2>3
<1>11. ASSUME NEW x \in d.setInventoryKnown PROVE Settled(x)' \/ Pursued(d, x)
  <2>1. x \in Chains /\ (Settled(x) \/ Pursued(o, x))
    BY <1>2, <1>7, <1>8, <1>11 DEF Keeps
  <2>2. CASE x = k
    BY <1>10, <2>1, <2>2
  <2>3. CASE Settled(x)
    BY <1>1, <1>9, <2>1, <2>3, SettledStays
  <2>4. CASE x # k /\ Pursued(o, x)
    <3>1. Pursued(c, x)
      BY <1>3, <1>5, <1>7, <2>4 DEF Pursued, s, b
    <3> QED  BY <1>8, <3>1, KeepsPursued
  <2> QED  BY <2>1, <2>2, <2>3, <2>4
<1>12. /\ \A q \in Peer : has[q] \subseteq has'[q]
       /\ d.setInventoryKnown \cup Range(d.vInventoryToSend) \subseteq has'[p]
  BY <1>1, <1>2, <1>7, <1>8 DEF peers, Keeps
<1>13. \A x \in Chains : Settled(x) => Settled(x)'
  BY <1>1, <1>9, SettledStays
<1> QED  BY <1>1, <1>8, <1>11, <1>12, <1>13, OneConnection

\* ProcessBlock goes on, or nothing happens: no connection changes.
LEMMA GoesOnPursues ==
    ASSUME DownloadInv, InSight, GoesOn, UNCHANGED <<conn, peers>>
    PROVE  ConnectionsInv' /\ InSight'
<1>1. PeersInv /\ ConnectionsInv /\ OrphanInv /\ AcceptedInv
  BY DEF DownloadInv
<1>2. \A x \in Chains : Settled(x) => Settled(x)'
  BY <1>1, SettledStays
<1>3. ConnectionsInv'
  BY <1>1 DEF ConnectionsInv, peers
<1>4. \A p \in Peer : \A b \in conn[p].setInventoryKnown : Settled(b)' \/ Pursued(conn[p], b)
  <2>1. \A p \in Peer : conn[p].setInventoryKnown \subseteq Chains
    BY <1>1 DEF ConnectionsInv, PeersInv
  <2> QED  BY <1>2, <2>1 DEF InSight
<1>5. InSight'
  <2>1. conn' = conn
    OBVIOUS
  <2>2. \A p \in Peer : \A b \in conn'[p].setInventoryKnown : Settled(b)' \/ Pursued(conn'[p], b)
    BY <1>4, <2>1
  <2> QED  BY <2>2 DEF InSight
<1> QED  BY <1>3, <1>5

LEMMA NextDownloadInv ==
    ASSUME DownloadInv, InSight, [DownloadNext]_allvars
    PROVE  DownloadInv' /\ InSight'
<1>1. PeersInv /\ ConnectionsInv /\ TypeInv /\ Stored /\ OrphanInv /\ AcceptedInv
  BY DEF DownloadInv
<1>2. [OrphanBlocksNext]_orphanVars
  BY <1>1, DownloadSteps
<1>3. [CrashNext]_vars
  BY <1>2, OrphanSteps DEF orphanVars
<1>4. TypeInv' /\ Stored'
  BY <1>1, <1>3, NextTypes, NextStored
<1>5. OrphanInv' /\ AcceptedInv'
  BY <1>1, <1>2, NextOrphanInv, NextAccepted
<1>6. PeersInv' /\ ConnectionsInv' /\ InSight'
  <2>1. ASSUME NEW p \in Peer, ReceiveInv(p) \/ ReceiveNext(p)
        PROVE  PeersInv' /\ ConnectionsInv' /\ InSight'
    <3>1. PeersInv'
      BY <1>1, <2>1 DEF ReceiveInv, ReceiveNext, PeersInv, peers
    <3> QED  BY <2>1, <3>1, ReceiveInvPursues, ReceiveNextPursues
  <2>2. ASSUME NEW p \in Peer, NodeSends(p)
        PROVE  PeersInv' /\ ConnectionsInv' /\ InSight'
    <3>1. PeersInv'
      BY <1>1, <2>2 DEF NodeSends, SendMessages, SendLater, PeersInv, peers
    <3> QED  BY <2>2, <3>1, SendMessagesPursues, SendLaterPursues DEF NodeSends
  <2>3. ASSUME NEW p \in Peer, PeerAnswers(p)
        PROVE  PeersInv' /\ ConnectionsInv' /\ InSight'
    <3>1. PeersInv'
      BY <1>1, <2>3 DEF PeerAnswers, PeerGetBlocks, PeerGetData, PeerSendsInv, PeersInv, peers
    <3> QED  BY <2>3, <3>1, GetBlocksPursues, GetDataPursues, SendsInvPursues DEF PeerAnswers
  <2>4. ASSUME NEW p \in Peer, PickCurrentBestNode(p) \/ Connect(p) \/ Disconnect(p)
        PROVE  PeersInv' /\ ConnectionsInv' /\ InSight'
    <3>1. PeersInv'
      BY <1>1, <2>4 DEF PickCurrentBestNode, Connect, Disconnect, PeersInv, peers
    <3> QED  BY <2>4, <3>1, PickPursues, ConnectPursues
  <2>5. ASSUME NEW p \in Peer, NEW b \in PeerBest, PeerGrows(p, b)
        PROVE  PeersInv' /\ ConnectionsInv' /\ InSight'
    BY <2>5, GrowsPursues
  <2>6. CASE DownloadRestart
    <3>1. conn' = [p \in Peer |-> Closed] /\ best' = best /\ has' = has
      BY <2>6 DEF DownloadRestart, peers
    <3> QED  BY <1>1, <3>1, ClosedKeeps DEF PeersInv, ConnectionsInv, InSight
  <2>7. ASSUME GoesOn, UNCHANGED <<conn, peers>>
        PROVE  PeersInv' /\ ConnectionsInv' /\ InSight'
    <3>1. PeersInv'
      BY <1>1, <2>7 DEF PeersInv, peers
    <3> QED  BY <2>7, <3>1, GoesOnPursues
  <2>8. CASE ProcessBlock \/ LeaveInitialDownload \/ PickNoNode \/ UNCHANGED allvars
    BY <2>7, <2>8
       DEF ProcessBlock, LeaveInitialDownload, PickNoNode, allvars, protocol, peers, GoesOn
  <2>9. ASSUME NEW b \in Elsewhere, ReceiveElsewhere(b)
        PROVE  PeersInv' /\ ConnectionsInv' /\ InSight'
    BY <2>7, <2>9, DownloadAssumption DEF ReceiveElsewhere, GoesOn
  <2> QED
    BY <2>1, <2>2, <2>3, <2>4, <2>5, <2>6, <2>8, <2>9 DEF DownloadNext, NodeReceives
<1> QED  BY <1>4, <1>5, <1>6 DEF DownloadInv

\* A node that downloads blocks does nothing with them that ProcessBlock alone
\* may not do, for blocks in any order: every invariant of ProcessBlock holds
\* of it, whatever the peers send.
THEOREM DownloadIsProcessBlock == DownloadSpec => OrphanBlocksSpec
<1>1. DownloadInit => DownloadInv /\ InSight /\ InitOrphanBlocks
  BY InitDownloadInv DEF DownloadInit
<1>2. DownloadInv /\ InSight /\ [DownloadNext]_allvars => (DownloadInv /\ InSight)'
  BY NextDownloadInv
<1>3. DownloadInv /\ [DownloadNext]_allvars => [OrphanBlocksNext]_orphanVars
  BY DownloadSteps DEF DownloadInv
<1> QED  BY <1>1, <1>2, <1>3, PTL DEF DownloadSpec, OrphanBlocksSpec

\* A block that a peer has announced, and will not announce again, is one that
\* the node has, is being asked for, or was refused for its stake; through any
\* fork, loss of connections, crash and order of the messages.
THEOREM AnnouncedBlocksArePursued ==
    ASSUME ChainsAreAcceptable
    PROVE  DownloadSpec => []AnnouncedIsPursued
<1>1. DownloadInit => DownloadInv /\ InSight
  BY InitDownloadInv
<1>2. DownloadInv /\ InSight /\ [DownloadNext]_allvars => (DownloadInv /\ InSight)'
  BY NextDownloadInv
<1>3. InSight => AnnouncedIsPursued
  BY DEF InSight, Settled, AnnouncedIsPursued
<1> QED  BY <1>1, <1>2, <1>3, PTL DEF DownloadSpec
=============================================================================
