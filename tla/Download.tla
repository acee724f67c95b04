------------------------------ MODULE Download ------------------------------
(***************************************************************************)
(* How blocks reach a node (src/main.cpp, src/net.h, src/net.cpp): the     *)
(* messages inv, getblocks, getdata and block between it and its peers,    *)
(* with AskFor, PushGetBlocks and PickCurrentBestNode; composed with       *)
(* ProcessBlock and all it does (OrphanBlocks).                            *)
(*                                                                         *)
(* A peer is a node of the same program of which only its best chain is    *)
(* seen: what it answers to getblocks and getdata, and the inv of a new    *)
(* best block.  The node's own announcements are left out; others may send *)
(* it blocks too.  Messages of a connection keep their order and are lost  *)
(* with it.  Times are left out: a delay is over at any moment, and so is  *)
(* the initial download.  The PALADIN rules have been downloaded.          *)
(*                                                                         *)
(* Every handler holds cs_main, as ProcessBlock does.  What only the peer  *)
(* or a socket does while ProcessBlock works changes nothing that it reads *)
(* and so is kept out of it (MainFree).                                    *)
(***************************************************************************)
EXTENDS OrphanBlocks, Functions

CONSTANTS
    Peer,
    PeerBest,     \* blocks that are the best of a peer at some time
    Elsewhere,    \* blocks that other connections bring
    Limit,        \* nLimit, the blocks that getblocks announces at once
    LocatorSize,  \* the hashes of a CBlockLocator above the genesis block
    FarBehind     \* how far behind a peer is asked for blocks at its version

ASSUME DownloadAssumption ==
    /\ PeerBest \subseteq Block /\ Genesis \in PeerBest /\ Elsewhere \subseteq Block
    /\ Limit \in Nat \ {0} /\ LocatorSize \in Nat \ {0} /\ FarBehind \in Nat

VARIABLES
    conn,                \* each connection, at both ends
    best,                \* each peer's pindexBest
    has,                 \* each peer's mapBlockIndex
    mapAlreadyAskedFor,  \* blocks asked for and not accepted since
    currentPushBlock,    \* the peers that have it set
    ibdLatched,          \* the initial download is over
    nAskedForBlocks      \* a peer has been asked for blocks at its version

node == <<mapAlreadyAskedFor, currentPushBlock, ibdLatched, nAskedForBlocks>>
peers == <<best, has>>
protocol == <<conn, node, peers>>
allvars == <<orphanVars, protocol>>

\* A connection without messages.  At the node: nStartingHeight, the arguments
\* of the last PushGetBlocks, and mapAskFor in two parts, the requests that may
\* be sent at once, in order, and those of blocks asked for before, which wait
\* six seconds.  At the peer: setInventoryKnown, vInventoryToSend, hashContinue.
\* And the messages on their way.
Closed ==
    [up |-> FALSE,
     nStartingHeight |-> 0, lastGetBlocks |-> << >>, askNow |-> << >>, askLater |-> {},
     setInventoryKnown |-> {}, vInventoryToSend |-> << >>, hashContinue |-> NoBlock,
     toPeer |-> << >>, toNode |-> << >>]

DownloadInit ==
    /\ InitOrphanBlocks
    /\ conn = [p \in Peer |-> Closed]
    /\ best = [p \in Peer |-> Genesis]
    /\ has = [p \in Peer |-> {Genesis}]
    /\ mapAlreadyAskedFor = {}
    /\ currentPushBlock = {}
    /\ ibdLatched = FALSE
    /\ nAskedForBlocks = FALSE

-----------------------------------------------------------------------------
(***************************************************************************)
(* What the node sends.  c is a connection, and the value of each operator *)
(* the connection after it.                                                *)
(***************************************************************************)

\* AlreadyHave: b is indexed or an orphan.
AlreadyHave(b) == b \in mapBlockIndex \cup mapOrphanBlocks

\* PushGetBlocks, "Filter out duplicate requests".
PushGetBlocks(c, begin, end) ==
    IF c.lastGetBlocks = <<begin, end>> THEN c
    ELSE [c EXCEPT !.lastGetBlocks = <<begin, end>>,
                   !.toPeer = Append(@, [type |-> "getblocks", begin |-> begin, stop |-> end])]

\* Mutant: what has been asked for once is not asked for again.
AskFor_Once(c, b) ==
    IF b \in mapAlreadyAskedFor THEN c
    ELSE [c EXCEPT !.askNow = Append(@, b)]

\* AskFor: at once, or six seconds after the last request.
AskFor(c, b) ==
    IF b \in mapAlreadyAskedFor THEN [c EXCEPT !.askLater = @ \cup {b}]
    ELSE [c EXCEPT !.askNow = Append(@, b)]

\* GetOrphanRoot: the first block of the chain of orphans that ends with b.
GetOrphanRoot(b, orphans) ==
    CHOOSE a \in Ancestors[b] :
       /\ Parent[a] \notin orphans
       /\ \A k \in Ancestors[b] \ {b} : a \in Ancestors[k] => k \in orphans

\* Getblocks may be sent to p: it has been picked to download from, or the
\* initial download is over.
MayPush(p) == p \in currentPushBlock \/ ibdLatched

\* Those of the blocks that have not come meanwhile.
Wanted(blocks) ==
    LET wanted[i \in 0..Len(blocks)] ==
            IF i = 0 THEN << >>
            ELSE IF AlreadyHave(blocks[i]) THEN wanted[i - 1]
            ELSE Append(wanted[i - 1], blocks[i])
    IN wanted[Len(blocks)]

\* The getdata for the blocks.
SendGetData(c, blocks) ==
    IF blocks = << >> THEN c
    ELSE [c EXCEPT !.toPeer = Append(@, [type |-> "getdata", blocks |-> blocks])]

\* SendMessages, "Message: getdata": the requests whose time has come ...
SendMessages(p) ==
    /\ MainFree
    /\ conn[p].askNow # << >>
    /\ LET wanted == Wanted(conn[p].askNow)
           c == [conn[p] EXCEPT !.askNow = << >>]
       IN /\ conn' = [conn EXCEPT ![p] = SendGetData(c, wanted)]
          /\ mapAlreadyAskedFor' = mapAlreadyAskedFor \cup Range(wanted)
    /\ UNCHANGED <<orphanVars, peers, currentPushBlock, ibdLatched, nAskedForBlocks>>

\* ... one that had to wait among them.
SendLater(p, b) ==
    /\ MainFree
    /\ LET wanted == Wanted(<<b>>)
           c == [conn[p] EXCEPT !.askLater = @ \ {b}]
       IN /\ conn' = [conn EXCEPT ![p] = SendGetData(c, wanted)]
          /\ mapAlreadyAskedFor' = mapAlreadyAskedFor \cup Range(wanted)
    /\ UNCHANGED <<orphanVars, peers, currentPushBlock, ibdLatched, nAskedForBlocks>>

\* PickCurrentBestNode: of the peers with more blocks at their version than
\* here now, the one with the fastest ping, or none when none has answered a
\* ping.  In the initial download it is asked again when no block has come for
\* nine seconds.
Better(p) == conn[p].up /\ conn[p].nStartingHeight > Height[pindexBest]

PickCurrentBestNode(p) ==
    /\ MainFree
    /\ Better(p)
    /\ currentPushBlock' = {p}
    /\ conn' \in {conn, IF ibdLatched THEN conn
                       ELSE [conn EXCEPT ![p] = PushGetBlocks(@, pindexBest, NoBlock)]}
    /\ UNCHANGED <<orphanVars, peers, mapAlreadyAskedFor, ibdLatched, nAskedForBlocks>>

PickNoNode ==
    /\ MainFree
    /\ currentPushBlock # {} /\ \A p \in currentPushBlock : ~Better(p)
    /\ currentPushBlock' = {}
    /\ UNCHANGED <<orphanVars, conn, peers, mapAlreadyAskedFor, ibdLatched, nAskedForBlocks>>

\* IsInitialBlockDownload finds the median height of the peers reached, or the
\* best block recent.
LeaveInitialDownload ==
    /\ MainFree
    /\ ~ibdLatched /\ ibdLatched' = TRUE
    /\ UNCHANGED <<orphanVars, conn, peers, mapAlreadyAskedFor, currentPushBlock, nAskedForBlocks>>

-----------------------------------------------------------------------------
(***************************************************************************)
(* What the node receives.                                                 *)
(***************************************************************************)

\* Connected, and its version has come: "Ask the first connected node for
\* block updates".  The constructor of CNode leaves currentPushBlock as it is.
Connect(p) ==
    /\ MainFree
    /\ ~conn[p].up
    /\ LET c == [Closed EXCEPT !.up = TRUE, !.nStartingHeight = Height[best[p]]]
           asks == /\ c.nStartingHeight > Height[pindexBest] - FarBehind
                   /\ ~nAskedForBlocks \/ \A q \in Peer : ~conn[q].up
       IN /\ conn' = [conn EXCEPT ![p] = IF asks THEN PushGetBlocks(c, pindexBest, NoBlock) ELSE c]
          /\ nAskedForBlocks' = (nAskedForBlocks \/ asks)
    /\ currentPushBlock' \in {currentPushBlock, currentPushBlock \cup {p}}
    /\ UNCHANGED <<orphanVars, peers, mapAlreadyAskedFor, ibdLatched>>

\* The connection is lost; the initial download begins again if the socket
\* handler finds no other (NetResumed).
Disconnect(p) ==
    /\ MainFree
    /\ conn[p].up
    /\ conn' = [conn EXCEPT ![p] = Closed]
    /\ currentPushBlock' = currentPushBlock \ {p}
    /\ ibdLatched' \in {ibdLatched, ibdLatched /\ \E q \in Peer \ {p} : conn[q].up}
    /\ UNCHANGED <<orphanVars, peers, mapAlreadyAskedFor, nAskedForBlocks>>

\* inv, its i-th block: it is asked for if it is new; if it is an orphan, or
\* the last one, the peer is asked for what lies before or after it.
HeardInv(p, c, blocks, i) ==
    LET b == blocks[i] IN
    CASE ~AlreadyHave(b) -> AskFor(c, b)
      [] b \in mapOrphanBlocks /\ MayPush(p) ->
            PushGetBlocks(c, pindexBest, GetOrphanRoot(b, mapOrphanBlocks))
      [] b \in mapBlockIndex /\ i = Len(blocks) /\ MayPush(p) -> PushGetBlocks(c, b, NoBlock)
      [] OTHER -> c

\* ... and all of them.
Heard(p, c, blocks) ==
    LET heard[i \in 0..Len(blocks)] ==
            IF i = 0 THEN c ELSE HeardInv(p, heard[i - 1], blocks, i)
    IN heard[Len(blocks)]

ReceiveInv(p) ==
    /\ MainFree
    /\ conn[p].toNode # << >> /\ Head(conn[p].toNode).type = "inv"
    /\ LET blocks == Head(conn[p].toNode).blocks
           c == [conn[p] EXCEPT !.toNode = Tail(@)]
       IN /\ conn' = [conn EXCEPT ![p] = Heard(p, c, blocks)]
          /\ mapAlreadyAskedFor' = mapAlreadyAskedFor \cup {b \in Range(blocks) : ~AlreadyHave(b)}
    /\ UNCHANGED <<orphanVars, peers, currentPushBlock, ibdLatched, nAskedForBlocks>>

\* ProcessBlock works on b, or returns an error at once.
ProcessNext(b) ==
    \/ ReceiveBlock(b)
    \/ /\ MainFree
       /\ \/ ~NewBlock(b)
          \/ b # Genesis /\ IF Parent[b] \in mapBlockIndex THEN b \in Unacceptable
                            ELSE DuplicateStake(b, setStakeSeenOrphan)
       /\ UNCHANGED orphanVars

\* Mutant: the block that the orphan wants is left to getblocks.
AskForMissing_Only(p, c, b) ==
    IF MayPush(p) THEN PushGetBlocks(c, pindexBest, GetOrphanRoot(b, mapOrphanBlocks')) ELSE c

\* b is an orphan: "Ask this guy to fill in what we're missing", and after the
\* initial download for the block that the first of the orphans wants.
AskForMissing(p, c, b) ==
    LET root == GetOrphanRoot(b, mapOrphanBlocks')
        asked == PushGetBlocks(c, pindexBest, root)
    IN CASE ~MayPush(p) -> c
         [] ibdLatched -> AskFor(asked, Parent[root])
         [] OTHER -> asked

\* block: ProcessBlock accepts it, refuses it or keeps it as an orphan.  Where
\* it returns true at once the request is forgotten.
ReceiveNext(p) ==
    /\ conn[p].toNode # << >> /\ Head(conn[p].toNode).type = "block"
    /\ LET b == Head(conn[p].toNode).block
           c == [conn[p] EXCEPT !.toNode = Tail(@)]
       IN \/ /\ ProcessNext(b)
             /\ conn' = [conn EXCEPT ![p] = c]
             /\ UNCHANGED mapAlreadyAskedFor
          \/ /\ ReceiveOrphan(b)
             /\ conn' = [conn EXCEPT ![p] = AskForMissing(p, c, b)]
             /\ mapAlreadyAskedFor' = (mapAlreadyAskedFor \cup
                   (IF ibdLatched THEN {Parent[GetOrphanRoot(b, mapOrphanBlocks')]} ELSE {})) \ {b}
    /\ UNCHANGED <<peers, currentPushBlock, ibdLatched, nAskedForBlocks>>

\* A block from another connection.
ReceiveElsewhere(b) ==
    /\ \/ ReceiveBlock(b) /\ UNCHANGED mapAlreadyAskedFor
       \/ ReceiveOrphan(b) /\ mapAlreadyAskedFor' = mapAlreadyAskedFor \ {b}
    /\ UNCHANGED <<conn, peers, currentPushBlock, ibdLatched, nAskedForBlocks>>

\* ProcessBlock goes on; the request for a block that it accepts is forgotten.
ProcessBlock ==
    /\ Processing
    /\ mapAlreadyAskedFor' = IF vWorkQueue = << >> /\ vWorkQueue' # << >>
                             THEN mapAlreadyAskedFor \ {accepting} ELSE mapAlreadyAskedFor
    /\ UNCHANGED <<conn, peers, currentPushBlock, ibdLatched, nAskedForBlocks>>

-----------------------------------------------------------------------------
(***************************************************************************)
(* The peer.                                                               *)
(***************************************************************************)

\* PushInventory, of what the other end is not known to have; one that is
\* queued already would not be sent twice.
PushInventory(c, b) ==
    IF b \in c.setInventoryKnown \cup Range(c.vInventoryToSend) THEN c
    ELSE [c EXCEPT !.vInventoryToSend = Append(@, b)]

PushAll(c, blocks) ==
    LET pushed[i \in 0..Len(blocks)] ==
            IF i = 0 THEN c ELSE PushInventory(pushed[i - 1], blocks[i])
    IN pushed[Len(blocks)]

\* CBlockLocator(begin), and the last of its blocks in p's best chain.
Locator(begin) ==
    {Genesis} \cup {a \in Ancestors[begin] : Height[a] > Height[begin] - LocatorSize}

LocatedBlock(p, begin) ==
    LET both == Locator(begin) \cap Ancestors[best[p]] IN
    CHOOSE a \in both : \A k \in both : Height[k] <= Height[a]

\* p's best chain above it, in order.
RestOfChain(p, begin) ==
    LET from == LocatedBlock(p, begin) IN
    [k \in 1..(Height[best[p]] - Height[from]) |->
        CHOOSE a \in Ancestors[best[p]] : Height[a] = Height[from] + k]

\* getblocks: the blocks before hashStop are announced, with the best one if
\* that is not too far above it in time, or else as many as nLimit allows.
PeerGetBlocks(p) ==
    /\ MainFree
    /\ conn[p].toPeer # << >> /\ Head(conn[p].toPeer).type = "getblocks"
    /\ LET msg == Head(conn[p].toPeer)
           rest == RestOfChain(p, msg.begin)
           c == [conn[p] EXCEPT !.toPeer = Tail(@)]
           stops == {k \in 1..Len(rest) : k <= Limit /\ rest[k] = msg.stop}
       IN \/ \E k \in stops, latest \in {<< >>} \cup {<<b>> : b \in {best[p]} \ {msg.stop}} :
                conn' = [conn EXCEPT ![p] = PushAll(c, SubSeq(rest, 1, k - 1) \o latest)]
          \/ /\ stops = {} /\ Len(rest) < Limit
             /\ conn' = [conn EXCEPT ![p] = PushAll(c, rest)]
          \/ /\ stops = {} /\ Len(rest) >= Limit
             /\ conn' = [conn EXCEPT ![p] =
                   PushAll([c EXCEPT !.hashContinue = rest[Limit]], SubSeq(rest, 1, Limit))]
    /\ UNCHANGED <<orphanVars, node, peers>>

\* GetLastBlockIndex(pindexBest, false)
LastProofOfWork(p) ==
    LET works == {a \in Ancestors[best[p]] : a = Genesis \/ ProofOfStake[a] = NoStake} IN
    CHOOSE a \in works : \A k \in works : Height[k] <= Height[a]

\* getdata, for one of its blocks: it is sent if it is indexed, and after the last
\* that getblocks announced an inv that makes the other end ask for more.
SendBlock(p, c, b) ==
    LET sent == Append(c.toNode, [type |-> "block", block |-> b])
        more == [type |-> "inv", blocks |-> <<LastProofOfWork(p)>>]
    IN CASE b \notin has[p] -> c
         [] b \in has[p] /\ b # c.hashContinue -> [c EXCEPT !.toNode = sent]
         [] OTHER -> [c EXCEPT !.toNode = Append(sent, more), !.hashContinue = NoBlock]

SendBlocks(p, c, blocks) ==
    LET answered[i \in 0..Len(blocks)] ==
            IF i = 0 THEN c ELSE SendBlock(p, answered[i - 1], blocks[i])
    IN answered[Len(blocks)]

PeerGetData(p) ==
    /\ MainFree
    /\ conn[p].toPeer # << >> /\ Head(conn[p].toPeer).type = "getdata"
    /\ LET blocks == Head(conn[p].toPeer).blocks
           c == [conn[p] EXCEPT !.toPeer = Tail(@)]
       IN conn' = [conn EXCEPT ![p] = SendBlocks(p, c, blocks)]
    /\ UNCHANGED <<orphanVars, node, peers>>

\* SendMessages: "Message: inventory".
PeerSendsInv(p) ==
    /\ MainFree
    /\ conn[p].vInventoryToSend # << >>
    /\ LET blocks == conn[p].vInventoryToSend IN
       conn' = [conn EXCEPT ![p].vInventoryToSend = << >>,
                            ![p].setInventoryKnown = @ \cup Range(blocks),
                            ![p].toNode = Append(@, [type |-> "inv", blocks |-> blocks])]
    /\ UNCHANGED <<orphanVars, node, peers>>

\* AcceptBlock, "Relay inventory": a new best block of the peer is announced.
PeerGrows(p, b) ==
    /\ MainFree
    /\ Trust[b] > Trust[best[p]]
    /\ best' = [best EXCEPT ![p] = b]
    /\ has' = [has EXCEPT ![p] = @ \cup Ancestors[b]]
    /\ conn' = [conn EXCEPT ![p] = IF @.up THEN PushInventory(@, b) ELSE @]
    /\ UNCHANGED <<orphanVars, node>>

\* The node starts again.
DownloadRestart ==
    /\ Restart
    /\ conn' = [p \in Peer |-> Closed]
    /\ mapAlreadyAskedFor' = {}
    /\ currentPushBlock' = {}
    /\ ibdLatched' = FALSE
    /\ nAskedForBlocks' = FALSE
    /\ UNCHANGED peers

-----------------------------------------------------------------------------
NodeReceives(p) == ReceiveInv(p) \/ ReceiveNext(p)

NodeSends(p) == SendMessages(p) \/ \E b \in conn[p].askLater : SendLater(p, b)

PeerAnswers(p) == PeerGetBlocks(p) \/ PeerGetData(p) \/ PeerSendsInv(p)

DownloadNext ==
    \/ ProcessBlock
    \/ LeaveInitialDownload
    \/ PickNoNode
    \/ \E p \in Peer :
          \/ NodeReceives(p) \/ NodeSends(p) \/ PeerAnswers(p)
          \/ PickCurrentBestNode(p)
          \/ Connect(p) \/ Disconnect(p)
          \/ \E b \in PeerBest : PeerGrows(p, b)
    \/ \E b \in Elsewhere : ReceiveElsewhere(b)
    \/ DownloadRestart

\* ThreadMessageHandler2 goes on at both ends as long as there is something to
\* do, and every delay is over in the end.
Progress ==
    ProcessBlock \/ \E p \in Peer : NodeReceives(p) \/ NodeSends(p) \/ PeerAnswers(p)

DownloadFairness == WF_allvars(Progress)

DownloadSpec == DownloadInit /\ [][DownloadNext]_allvars

FairDownloadSpec == DownloadSpec /\ DownloadFairness

-----------------------------------------------------------------------------
\* b is still in a request, an answer or an inv.
Pursued(c, b) ==
    \/ b \in Range(c.askNow) \cup c.askLater
    \/ \E msg \in Range(c.toPeer) : msg.type = "getdata" /\ b \in Range(msg.blocks)
    \/ \E msg \in Range(c.toNode) :
          \/ msg.type = "block" /\ msg.block = b
          \/ msg.type = "inv" /\ b \in Range(msg.blocks)

\* A peer does not announce a block twice on one connection, so the node must
\* not lose sight of one that has been announced: it has it or pursues it.
\* Only a proof of stake that shares its stake with another block may have been
\* refused.
AnnouncedIsPursued ==
    \A p \in Peer : \A b \in conn[p].setInventoryKnown :
       \/ AlreadyHave(b)
       \/ Pursued(conn[p], b)
       \/ ProofOfStake[b] \in setStakeSeen \cup setStakeSeenOrphan

\* b is announced in an inv on its way to the node.
Announced(p, b) ==
    \E msg \in Range(conn[p].toNode) : msg.type = "inv" /\ b \in Range(msg.blocks)

\* A best block announced after the initial download is indexed in the end,
\* whatever is missing below it and whatever was refused, sent by others or
\* lost before, unless the connection is lost.  The stake of that block is its
\* own; those of the blocks below it need not be.
AnnouncedIsIndexed ==
    \A p \in Peer : \A b \in {b \in PeerBest \ {Genesis} : StakesOf(Block \ {b}) \cap StakesOf({b}) = {}} :
       (ibdLatched /\ ~AlreadyHave(b) /\ Announced(p, b))
          ~> (b \in mapBlockIndex \/ ~conn[p].up)

=============================================================================
