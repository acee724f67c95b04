---------------------------- MODULE OrphanBlocks ----------------------------
(***************************************************************************)
(* ProcessBlock (src/main.cpp): blocks received in any order are kept as   *)
(* orphans or passed to AcceptBlock, which indexes them and may have the   *)
(* best chain moved; an accepted block has its orphans accepted in turn.   *)
(* Composed with the chain state, whose SetBestChain decides what          *)
(* AcceptBlock returns.                                                    *)
(*                                                                         *)
(* ProcessBlock runs under cs_main from beginning to end; it is several    *)
(* actions because a crash may come between any two of its steps.  A block *)
(* that fails CheckBlock or CheckProofOfStake changes nothing, as if it    *)
(* had not been received.  No sync-checkpoint is pending.                  *)
(***************************************************************************)
EXTENDS ChainState

CONSTANTS
    Stake,         \* what GetProofOfStake identifies: a kernel and its time
    NoStake,
    ProofOfStake,  \* that of each block, NoStake for a proof of work
    Unacceptable   \* blocks whose target, time or height AcceptBlock refuses

ASSUME StakeAssumption ==
    /\ NoStake \notin Stake
    /\ ProofOfStake \in [Block -> Stake \cup {NoStake}]
    /\ Unacceptable \subseteq Block

VARIABLES
    mapOrphanBlocks,        \* blocks whose parent was not indexed
    mapOrphanBlocksByPrev,  \* ... by their parent
    setStakeSeen,           \* the stakes of the blocks indexed
    setStakeSeenOrphan,     \* the stakes of the orphans
    vWorkQueue,             \* blocks accepted, whose orphans are to be tried
    orphansLeft,            \* those of the queue's head still to try
    accepting,              \* the block AcceptBlock works on
    accepted                \* what AddToBlockIndex returns for it

orphanMaps == <<mapOrphanBlocks, mapOrphanBlocksByPrev, setStakeSeenOrphan>>

processing == <<vWorkQueue, orphansLeft, accepting, accepted>>

orphanVars == <<vars, orphanMaps, setStakeSeen, processing>>

\* The stakes of the proofs of stake among S, as LoadBlockIndex collects them.
StakesOf(S) == {ProofOfStake[b] : b \in S} \ {NoStake}

InitOrphanBlocks ==
    /\ Init
    /\ mapOrphanBlocks = {}
    /\ mapOrphanBlocksByPrev = [b \in Block |-> {}]
    /\ setStakeSeen = StakesOf({Genesis})
    /\ setStakeSeenOrphan = {}
    /\ vWorkQueue = << >>
    /\ orphansLeft = {}
    /\ accepting = NoBlock
    /\ accepted = FALSE

\* ProcessBlock is not running.
MainFree == call = "idle" /\ accepting = NoBlock /\ vWorkQueue = << >>

-----------------------------------------------------------------------------
\* A proof of stake whose stake was seen and that no orphan waits for.
DuplicateStake(b, seen) == ProofOfStake[b] \in seen /\ mapOrphanBlocksByPrev[b] = {}

\* ProcessBlock's first checks let b through.
NewBlock(b) ==
    /\ MainFree
    /\ b \notin mapBlockIndex \cup mapOrphanBlocks
    /\ ~DuplicateStake(b, setStakeSeen)

\* The parent of b is unknown: b is shunted off to the holding area.
ReceiveOrphan(b) ==
    /\ NewBlock(b)
    /\ b # Genesis /\ Parent[b] \notin mapBlockIndex
    /\ ~DuplicateStake(b, setStakeSeenOrphan)
    /\ mapOrphanBlocks' = mapOrphanBlocks \cup {b}
    /\ mapOrphanBlocksByPrev' = [mapOrphanBlocksByPrev EXCEPT ![Parent[b]] = @ \cup {b}]
    /\ setStakeSeenOrphan' = setStakeSeenOrphan \cup StakesOf({b})
    /\ UNCHANGED <<vars, setStakeSeen, processing>>

\* AcceptBlock(b) indexes b; whether it returns true is SetBestChain's to say.
AcceptBlock(b) ==
    /\ b \notin Unacceptable
    /\ AddToBlockIndex(b)
    /\ setStakeSeen' = setStakeSeen \cup StakesOf({b})
    /\ accepting' = b
    /\ accepted' = TRUE

ReceiveBlock(b) ==
    /\ NewBlock(b)
    /\ AcceptBlock(b)
    /\ UNCHANGED <<orphanMaps, vWorkQueue, orphansLeft>>

\* SetBestChain, called from AddToBlockIndex, and the result it gives it.
ChainStep ==
    /\ \/ /\ ReorganizeFails \/ AppendFails
          /\ accepted' = FALSE
       \/ /\ \/ SetBestChain \/ DisconnectBlock \/ DisconnectedAll
             \/ \E b \in Block : ReconnectBlock(b)
             \/ ReorganizeCommits
             \/ \E b \in Block : SetBestChainInner(b)
             \/ SetBestChainInnerCommits
             \/ \E b \in Block : SecondaryFails(b)
             \/ NewBestBlock
          /\ UNCHANGED accepted
    /\ UNCHANGED <<orphanMaps, setStakeSeen, vWorkQueue, orphansLeft, accepting>>

\* The block received has been through AcceptBlock: its orphans are next, or
\* ProcessBlock returns an error.
ReceivedReturns ==
    /\ call = "idle" /\ accepting # NoBlock
    /\ vWorkQueue = << >>
    /\ IF accepted
       THEN vWorkQueue' = <<accepting>> /\ orphansLeft' = mapOrphanBlocksByPrev[accepting]
       ELSE UNCHANGED <<vWorkQueue, orphansLeft>>
    /\ accepting' = NoBlock
    /\ accepted' = FALSE
    /\ UNCHANGED <<vars, orphanMaps, setStakeSeen>>

\* One orphan of the queue's head is passed to AcceptBlock ...
TryOrphan(b) ==
    /\ b \in orphansLeft /\ accepting = NoBlock
    /\ AcceptBlock(b)
    /\ orphansLeft' = orphansLeft \ {b}
    /\ UNCHANGED <<orphanMaps, vWorkQueue>>

\* Whatever became of it, the orphan is erased, and its stake with it.
OrphanErased(b) ==
    /\ mapOrphanBlocks' = mapOrphanBlocks \ {b}
    /\ setStakeSeenOrphan' = setStakeSeenOrphan \ {ProofOfStake[b]}

\* Mutant: the orphans of an orphan are not queued.
OrphanReturns_NotQueued ==
    /\ call = "idle" /\ accepting # NoBlock
    /\ vWorkQueue # << >>
    /\ OrphanErased(accepting)
    /\ accepting' = NoBlock
    /\ accepted' = FALSE
    /\ UNCHANGED <<vars, mapOrphanBlocksByPrev, setStakeSeen, vWorkQueue, orphansLeft>>

\* ... which returns: its own orphans are queued if it was accepted.
OrphanReturns ==
    /\ call = "idle" /\ accepting # NoBlock
    /\ vWorkQueue # << >>
    /\ OrphanErased(accepting)
    /\ vWorkQueue' = IF accepted THEN Append(vWorkQueue, accepting) ELSE vWorkQueue
    /\ accepting' = NoBlock
    /\ accepted' = FALSE
    /\ UNCHANGED <<vars, mapOrphanBlocksByPrev, setStakeSeen, orphansLeft>>

\* ... or refuses it before it is indexed.
OrphanRefused(b) ==
    /\ b \in orphansLeft /\ accepting = NoBlock
    /\ b \in Unacceptable
    /\ OrphanErased(b)
    /\ orphansLeft' = orphansLeft \ {b}
    /\ UNCHANGED <<vars, mapOrphanBlocksByPrev, setStakeSeen, vWorkQueue, accepting, accepted>>

\* Mutant: the entries of the head stay.
NextOfQueue_KeepsByPrev ==
    /\ vWorkQueue # << >> /\ orphansLeft = {} /\ accepting = NoBlock
    /\ vWorkQueue' = Tail(vWorkQueue)
    /\ orphansLeft' = IF Len(vWorkQueue) > 1 THEN mapOrphanBlocksByPrev[vWorkQueue[2]] ELSE {}
    /\ UNCHANGED <<vars, orphanMaps, setStakeSeen, accepting, accepted>>

\* The orphans of the head have been tried: the next of the queue, or the end.
NextOfQueue ==
    /\ vWorkQueue # << >> /\ orphansLeft = {} /\ accepting = NoBlock
    /\ mapOrphanBlocksByPrev' = [mapOrphanBlocksByPrev EXCEPT ![Head(vWorkQueue)] = {}]
    /\ vWorkQueue' = Tail(vWorkQueue)
    /\ orphansLeft' = IF Len(vWorkQueue) > 1 THEN mapOrphanBlocksByPrev[vWorkQueue[2]] ELSE {}
    /\ UNCHANGED <<vars, mapOrphanBlocks, setStakeSeenOrphan, setStakeSeen, accepting, accepted>>

\* The orphans are in memory only; LoadBlockIndex collects the stakes again.
Restart ==
    /\ CrashAndLoadBlockIndex
    /\ mapOrphanBlocks' = {}
    /\ mapOrphanBlocksByPrev' = [b \in Block |-> {}]
    /\ setStakeSeen' = StakesOf(blkdb.blocks)
    /\ setStakeSeenOrphan' = {}
    /\ vWorkQueue' = << >>
    /\ orphansLeft' = {}
    /\ accepting' = NoBlock
    /\ accepted' = FALSE

Processing ==
    \/ ChainStep
    \/ ReceivedReturns
    \/ \E b \in Block : TryOrphan(b) \/ OrphanRefused(b)
    \/ OrphanReturns
    \/ NextOfQueue

-----------------------------------------------------------------------------
\* Between two calls of ProcessBlock no block is both an orphan and indexed,
\* mapOrphanBlocksByPrev has each orphan once, under its parent, with no entry
\* left that points to an orphan that has been deleted, and no stake is
\* refused for an orphan that is gone.
OrphansAreLinked ==
    MainFree =>
       /\ mapOrphanBlocks \cap mapBlockIndex = {}
       /\ \A b, p \in Block : b \in mapOrphanBlocksByPrev[p] <=>
                                 (b \in mapOrphanBlocks /\ Parent[b] = p)
       /\ setStakeSeenOrphan \subseteq StakesOf(mapOrphanBlocks)

\* Whatever the order blocks came in, an orphan is left behind only while its
\* parent is unknown or when the chain to its parent is invalid; that is, where
\* no block is refused above one that a crash has left unconnected.
OrphansAwaitParent ==
    MainFree => \A b \in mapOrphanBlocks :
                   Parent[b] \in mapBlockIndex => ~ValidChain(Parent[b], rule)

=============================================================================
