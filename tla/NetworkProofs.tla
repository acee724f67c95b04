--------------------------- MODULE NetworkProofs ---------------------------
(***************************************************************************)
(* Theorems about Network, for any addresses, dialers, slots and number of *)
(* connections.  Nodes, tables and copies first; then the references; then *)
(* the slots, which are counted; then the unwanted.                        *)
(***************************************************************************)
EXTENDS Network, FiniteSetTheorems, TLAPS

-----------------------------------------------------------------------------
(***************************************************************************)
(* Types, and who holds which node.                                        *)
(***************************************************************************)
NodeType ==
    [addr : Addr \cup {"none"}, inbound : BOOLEAN, network : BOOLEAN, grant : BOOLEAN,
     disconnect : BOOLEAN, refs : Int, version : BOOLEAN, score : Nat,
     shouldBan : BOOLEAN, spared : BOOLEAN]

DialState == {"idle", "connecting", "connected"}
Connecting == {d \in Dialer : dial[d].at = "connecting"}

NetworkTypeOK ==
    /\ node \in [NodeId -> NodeType]
    /\ lastId \in Nat
    /\ vNodes \subseteq 1..lastId /\ vNodesDisconnected \subseteq 1..lastId
    /\ semOutbound \in Nat
    /\ socket \in [at : {"disconnect", "accept", "copy", "serve"}, copy : SUBSET NodeId]
    /\ message \in [copy : SUBSET NodeId, left : SUBSET NodeId]
    /\ dial \in [Dialer -> [at : DialState, addr : Addr \cup {"none"}, id : Nat]]
    /\ early \subseteq 1..lastId

\* Every node of a dialer on its way to ConnectNode has a number kept for it.
RoomInv == lastId + Cardinality(Connecting) <= MaxNodes

TableInv ==
    /\ vNodes \cap vNodesDisconnected = {}
    /\ mapNodeState = Existing
    /\ early \cap vNodes = {}

\* The copies are of nodes that exist; nobody else has the node a dialer is
\* done with connecting, and it is as ConnectNode made it, but for early.
UseInv ==
    /\ socket.copy \cup message.copy \subseteq Existing
    /\ message.left \subseteq message.copy
    /\ socket.at # "serve" => socket.copy = {}
    /\ \A d \in Dialer :
          IF dial[d].at = "connected"
          THEN /\ dial[d].id \in vNodes \cup early /\ dial[d].id \in Existing
               /\ ~node[dial[d].id].network /\ ~node[dial[d].id].inbound
               /\ ~node[dial[d].id].grant
               /\ \A e \in Dialer \ {d} : dial[e].id # dial[d].id
          ELSE dial[d].id = 0

\* The first conjunct of RefsAndSlotsAreUses, and which of the connected
\* nodes SocketDisconnect takes the reference of.
RefsInv ==
    \A n \in Existing :
        /\ node[n].refs = Counted(n \in socket.copy) + Counted(n \in message.copy)
                          + Counted(n \in vNodes \cup early)
        /\ node[n].grant => n \in vNodes \cup early

NetworkInv == NetworkTypeOK /\ RoomInv /\ TableInv /\ UseInv /\ RefsInv

LEMMA ConnectingFinite == IsFiniteSet(Connecting) /\ Cardinality(Connecting) \in Nat
  BY NetworkAssumption, FS_Subset, FS_CardinalityType DEF Connecting

\* What is below the last number given is a NodeId.
LEMMA NodesAreIds ==
    ASSUME NetworkInv
    PROVE  1..lastId \subseteq NodeId /\ vNodes \subseteq NodeId
           /\ vNodesDisconnected \subseteq NodeId /\ early \subseteq NodeId
  BY ConnectingFinite, NetworkAssumption DEF NetworkInv, RoomInv, NetworkTypeOK, NodeId

LEMMA InitNetworkInv == Init => NetworkInv
<1> SUFFICES ASSUME Init PROVE NetworkInv
  OBVIOUS
<1>1. Connecting = {}
  BY DEF Init, Connecting, None
<1>2. RoomInv
  BY <1>1, FS_EmptySet, NetworkAssumption DEF RoomInv, Init
<1>3. NetworkTypeOK
  BY NetworkAssumption DEF Init, NetworkTypeOK, NodeType, NoNode, NewNode, None, DialState
<1> QED
  BY <1>2, <1>3 DEF NetworkInv, TableInv, UseInv, RefsInv, Init, Existing, None

-----------------------------------------------------------------------------
(***************************************************************************)
(* Steps that only set flags or scores of nodes, and steps of the copies.  *)
(***************************************************************************)

\* The fields that the invariant reads.
SameUse(r, q) ==
    q.refs = r.refs /\ q.grant = r.grant /\ q.network = r.network /\ q.inbound = r.inbound

SameNodes ==
    /\ node' \in [NodeId -> NodeType]
    /\ \A n \in NodeId : SameUse(node[n], node'[n])

SameGrants == \A n \in NodeId : node'[n].grant = node[n].grant

\* What a flag or a score set makes of a node.
LEMMA FlagSet ==
    ASSUME NEW r \in NodeType
    PROVE  /\ \A q \in {r, [r EXCEPT !.disconnect = TRUE], [r EXCEPT !.version = TRUE],
                        [r EXCEPT !.shouldBan = FALSE, !.spared = TRUE],
                        [r EXCEPT !.shouldBan = FALSE, !.disconnect = TRUE]} :
                 q \in NodeType /\ SameUse(r, q)
           /\ \A k \in Nat, p \in BOOLEAN :
                 /\ [r EXCEPT !.score = k, !.shouldBan = p] \in NodeType
                 /\ SameUse(r, [r EXCEPT !.score = k, !.shouldBan = p])
  BY DEF NodeType, SameUse

LEMMA FlagsKeepInv ==
    ASSUME NetworkInv, SameNodes,
           UNCHANGED <<lastId, table, semOutbound, socket, dial, early>>,
           message'.copy = message.copy, message'.left \subseteq message.left,
           message' \in [copy : SUBSET NodeId, left : SUBSET NodeId]
    PROVE  NetworkInv' /\ SameGrants
<1>1. NetworkTypeOK'
  BY DEF NetworkInv, NetworkTypeOK, SameNodes, table
<1>2. RoomInv' /\ TableInv'
  BY DEF NetworkInv, RoomInv, TableInv, Connecting, Existing, table
<1>3. Existing' = Existing /\ Existing \subseteq NodeId
  BY NodesAreIds DEF Existing, table
<1>4. UseInv'
  BY <1>3 DEF NetworkInv, UseInv, SameNodes, SameUse, table
<1>5. RefsInv'
  BY <1>3 DEF NetworkInv, RefsInv, SameNodes, SameUse, table
<1> QED  BY <1>1, <1>2, <1>4, <1>5 DEF NetworkInv, SameGrants, SameNodes, SameUse

LEMMA FlagSteps ==
    ASSUME NetworkInv,
           \/ \E n \in NodeId : \/ SocketCloses(n) \/ ProcessVersion(n) \/ SkipNode(n)
                                \/ \E howmuch \in Penalty : Misbehaving(n, howmuch)
           \/ GoOffline \/ SetOnlineStatus \/ (\E a \in Addr : Unban(a)) \/ UNCHANGED vars
    PROVE  NetworkInv' /\ SameGrants
<1>1. node \in [NodeId -> NodeType] /\ message \in [copy : SUBSET NodeId, left : SUBSET NodeId]
  BY DEF NetworkInv, NetworkTypeOK
<1>2. \A n \in NodeId :
         /\ SameUse(node[n], node[n])
         /\ LET q == [node[n] EXCEPT !.disconnect = TRUE]
            IN q \in NodeType /\ SameUse(node[n], q)
         /\ LET q == [node[n] EXCEPT !.version = TRUE]
            IN q \in NodeType /\ SameUse(node[n], q)
  BY <1>1, FlagSet
<1>3. CASE UNCHANGED node
  <2>1. SameNodes
    BY <1>1, <1>2, <1>3 DEF SameNodes
  <2> QED
    BY <1>1, <2>1, FlagsKeepInv, <1>3
       DEF SocketCloses, ProcessVersion, SkipNode, Misbehaving, GoOffline,
           SetOnlineStatus, Unban, vars, threads
<1>4. ASSUME NEW n \in NodeId, SocketCloses(n) \/ ProcessVersion(n) PROVE NetworkInv' /\ SameGrants
  <2>1. SameNodes
    BY <1>1, <1>2, <1>4 DEF SocketCloses, ProcessVersion, SameNodes
  <2> QED  BY <1>1, <1>4, <2>1, FlagsKeepInv DEF SocketCloses, ProcessVersion, threads
<1>5. ASSUME NEW n \in NodeId, NEW p \in Penalty, Misbehaving(n, p) PROVE NetworkInv' /\ SameGrants
  <2> DEFINE ban == node[n].shouldBan \/ node[n].score + p >= BanScore
             q == [node[n] EXCEPT !.score = node[n].score + p, !.shouldBan = ban]
  <2>1. node' = [node EXCEPT ![n] = q]
    BY <1>1, <1>5 DEF Misbehaving
  <2>2. node[n].score + p \in Nat /\ ban \in BOOLEAN
    BY <1>1, NetworkAssumption DEF NodeType
  <2>3. q \in NodeType /\ SameUse(node[n], q)
    <3> HIDE DEF ban
    <3> QED  BY <1>1, <2>2, FlagSet
  <2>4. SameNodes
    <3> HIDE DEF q
    <3> QED  BY <1>1, <1>2, <2>1, <2>3 DEF SameNodes
  <2> QED  BY <1>1, <1>5, <2>4, FlagsKeepInv DEF Misbehaving, threads
<1>6. CASE GoOffline
  <2>1. SameNodes
    BY <1>1, <1>2, <1>6 DEF GoOffline, SameNodes
  <2> QED  BY <1>1, <1>6, <2>1, FlagsKeepInv DEF GoOffline, threads
<1>7. CASE (\E n \in NodeId : SkipNode(n)) \/ SetOnlineStatus \/ (\E a \in Addr : Unban(a))
           \/ UNCHANGED vars
  BY <1>3, <1>7 DEF SkipNode, SetOnlineStatus, Unban, vars, threads
<1> QED  BY <1>4, <1>5, <1>6, <1>7

LEMMA BanSteps ==
    ASSUME NetworkInv, (\E n \in NodeId : SendMessages(n)) \/ \E a \in Addr : BanAddress(a)
    PROVE  NetworkInv' /\ SameGrants
<1>1. node \in [NodeId -> NodeType] /\ message \in [copy : SUBSET NodeId, left : SUBSET NodeId]
  BY DEF NetworkInv, NetworkTypeOK
<1>2. ASSUME NEW a, NEW nodes \in [NodeId -> NodeType], Ban(a, nodes),
             \A n \in NodeId : SameUse(node[n], nodes[n])
      PROVE  SameNodes
  <2>1. \A n \in NodeId : LET q == [nodes[n] EXCEPT !.disconnect = TRUE]
                          IN q \in NodeType /\ SameUse(node[n], q)
    <3> TAKE n \in NodeId
    <3> DEFINE q == [nodes[n] EXCEPT !.disconnect = TRUE]
    <3>1. q \in NodeType /\ SameUse(nodes[n], q)
      BY <1>2, FlagSet
    <3> HIDE DEF q
    <3>2. SameUse(node[n], q)
      BY <1>2, <3>1 DEF SameUse
    <3> QED  BY <3>1, <3>2 DEF q
  <2> QED  BY <1>2, <2>1 DEF Ban, SameNodes
<1>3. ASSUME NEW n \in NodeId, SendMessages(n) PROVE NetworkInv' /\ SameGrants
  <2> DEFINE q == [node[n] EXCEPT !.shouldBan = FALSE, !.disconnect = TRUE]
             s == [node[n] EXCEPT !.shouldBan = FALSE, !.spared = TRUE]
             nodes == [node EXCEPT ![n] = q]
  <2>1. /\ q \in NodeType /\ SameUse(node[n], q) /\ s \in NodeType /\ SameUse(node[n], s)
        /\ \A k \in NodeId : SameUse(node[k], node[k])
    BY <1>1, FlagSet
  <2>2. UNCHANGED node \/ node' = [node EXCEPT ![n] = s] \/ Ban(node[n].addr, nodes)
    BY <1>1, <1>3 DEF SendMessages
  <2>3. nodes \in [NodeId -> NodeType] /\ \A k \in NodeId : SameUse(node[k], nodes[k])
    <3> HIDE DEF q
    <3> QED  BY <1>1, <2>1
  <2>4. SameNodes
    <3> HIDE DEF nodes, s
    <3> QED  BY <1>1, <1>2, <2>1, <2>2, <2>3 DEF SameNodes
  <2> QED  BY <1>1, <1>3, <2>4, FlagsKeepInv DEF SendMessages
<1>4. ASSUME NEW a \in Addr, BanAddress(a) PROVE NetworkInv' /\ SameGrants
  <2>1. SameNodes
    BY <1>1, <1>2, <1>4, FlagSet DEF BanAddress
  <2> QED  BY <1>1, <1>4, <2>1, FlagsKeepInv DEF BanAddress, threads
<1> QED  BY <1>3, <1>4

-----------------------------------------------------------------------------
(***************************************************************************)
(* The copies of the two handlers.                                         *)
(***************************************************************************)

\* References counted for the nodes of a copy ...
LEMMA AddRefCounts ==
    ASSUME NEW ns, node \in [NodeId -> NodeType], node' = AddRef(ns)
    PROVE  /\ node' \in [NodeId -> NodeType]
           /\ \A n \in NodeId :
                 /\ node'[n].grant = node[n].grant /\ node'[n].network = node[n].network
                 /\ node'[n].inbound = node[n].inbound
                 /\ node'[n].refs = node[n].refs + Counted(n \in ns)
<1>1. ASSUME NEW r \in NodeType, NEW q, q = [r EXCEPT !.refs = @ + 1]
      PROVE  /\ q \in NodeType /\ q.grant = r.grant /\ q.network = r.network
             /\ q.inbound = r.inbound /\ q.refs = r.refs + 1
  BY <1>1 DEF NodeType
<1>2. \A n \in NodeId : node[n].refs + 0 = node[n].refs
  BY DEF NodeType
<1>3. \A n \in NodeId : node'[n] = IF n \in ns THEN [node[n] EXCEPT !.refs = @ + 1] ELSE node[n]
  BY DEF AddRef
<1> QED  BY <1>1, <1>2, <1>3 DEF AddRef, Counted

\* ... and given back.
LEMMA ReleaseCounts ==
    ASSUME NEW ns, node \in [NodeId -> NodeType], node' = Release(ns)
    PROVE  /\ node' \in [NodeId -> NodeType]
           /\ \A n \in NodeId :
                 /\ node'[n].grant = node[n].grant /\ node'[n].network = node[n].network
                 /\ node'[n].inbound = node[n].inbound
                 /\ node'[n].refs = node[n].refs - Counted(n \in ns)
<1>1. ASSUME NEW r \in NodeType, NEW q, q = [r EXCEPT !.refs = @ - 1]
      PROVE  /\ q \in NodeType /\ q.grant = r.grant /\ q.network = r.network
             /\ q.inbound = r.inbound /\ q.refs = r.refs - 1
  BY <1>1 DEF NodeType
<1>2. \A n \in NodeId : node[n].refs - 0 = node[n].refs
  BY DEF NodeType
<1>3. \A n \in NodeId : node'[n] = IF n \in ns THEN [node[n] EXCEPT !.refs = @ - 1] ELSE node[n]
  BY DEF Release
<1> QED  BY <1>1, <1>2, <1>3 DEF Release, Counted

LEMMA CopySteps ==
    ASSUME NetworkInv, SocketCopy \/ SocketRelease \/ MessageCopy \/ MessageRelease
    PROVE  NetworkInv' /\ SameGrants
<1>1. /\ node \in [NodeId -> NodeType] /\ vNodes \subseteq NodeId
      /\ Existing' = Existing /\ Existing \subseteq NodeId /\ vNodes \subseteq Existing
  BY NodesAreIds DEF NetworkInv, NetworkTypeOK, Existing, table, SocketCopy, SocketRelease,
                     MessageCopy, MessageRelease
<1>2. /\ socket.at # "serve" => socket.copy = {}
      /\ socket.copy \cup message.copy \subseteq Existing
  BY DEF NetworkInv, UseInv
<1>3. \A n \in NodeId : node[n].refs \in Int
  BY <1>1 DEF NodeType
<1>4. /\ node' \in [NodeId -> NodeType]
      /\ \A n \in NodeId : /\ node'[n].grant = node[n].grant /\ node'[n].network = node[n].network
                           /\ node'[n].inbound = node[n].inbound
  BY <1>1, AddRefCounts, ReleaseCounts DEF SocketCopy, SocketRelease, MessageCopy, MessageRelease
<1>5. NetworkTypeOK'
  <2>1. /\ socket \in [at : {"disconnect", "accept", "copy", "serve"}, copy : SUBSET NodeId]
        /\ message \in [copy : SUBSET NodeId, left : SUBSET NodeId]
    BY DEF NetworkInv, NetworkTypeOK
  <2>2. socket' \in [at : {"disconnect", "accept", "copy", "serve"}, copy : SUBSET NodeId]
    BY <1>1, <2>1 DEF SocketCopy, SocketRelease, MessageCopy, MessageRelease
  <2>3. message' \in [copy : SUBSET NodeId, left : SUBSET NodeId]
    BY <1>1, <2>1 DEF SocketCopy, SocketRelease, MessageCopy, MessageRelease
  <2>4. UNCHANGED <<lastId, vNodes, vNodesDisconnected, semOutbound, dial, early>>
    BY DEF table, SocketCopy, SocketRelease, MessageCopy, MessageRelease
  <2> QED  BY <1>4, <2>2, <2>3, <2>4 DEF NetworkInv, NetworkTypeOK
<1>6. RoomInv' /\ TableInv'
  BY DEF NetworkInv, RoomInv, TableInv, Connecting, Existing, table, SocketCopy, SocketRelease,
         MessageCopy, MessageRelease
<1>7. UseInv'
  <2>1. \A d \in Dialer : dial[d].at = "connected" => dial[d].id \in NodeId
    BY <1>1 DEF NetworkInv, UseInv
  <2>2. UNCHANGED <<vNodes, dial, early>>
    BY DEF table, SocketCopy, SocketRelease, MessageCopy, MessageRelease
  <2>3. /\ socket'.copy \cup message'.copy \subseteq Existing
        /\ message'.left \subseteq message'.copy
        /\ socket'.at # "serve" => socket'.copy = {}
    <3>1. CASE SocketCopy
      BY <1>1, <1>2, <3>1 DEF NetworkInv, NetworkTypeOK, UseInv, SocketCopy
    <3>2. CASE SocketRelease
      BY <1>1, <1>2, <3>2 DEF NetworkInv, NetworkTypeOK, UseInv, SocketRelease
    <3>3. CASE MessageCopy
      BY <1>1, <1>2, <3>3 DEF MessageCopy
    <3>4. CASE MessageRelease
      BY <1>1, <1>2, <3>4 DEF MessageRelease
    <3> QED  BY <3>1, <3>2, <3>3, <3>4
  <2> QED  BY <1>1, <1>4, <2>1, <2>2, <2>3 DEF NetworkInv, UseInv
<1>8. \A n \in NodeId :
         node'[n].refs = node[n].refs + Counted(n \in socket'.copy) - Counted(n \in socket.copy)
                         + Counted(n \in message'.copy) - Counted(n \in message.copy)
  <2>1. CASE SocketCopy
    BY <1>1, <1>2, <1>3, <2>1, AddRefCounts
       DEF SocketCopy, Counted, NetworkInv, NetworkTypeOK
  <2>2. CASE SocketRelease
    BY <1>1, <1>2, <1>3, <2>2, ReleaseCounts
       DEF SocketRelease, Counted, NetworkInv, NetworkTypeOK
  <2>3. CASE MessageCopy
    BY <1>1, <1>2, <1>3, <2>3, AddRefCounts
       DEF MessageCopy, Counted, NetworkInv, NetworkTypeOK
  <2>4. CASE MessageRelease
    BY <1>1, <1>2, <1>3, <2>4, ReleaseCounts
       DEF MessageRelease, Counted, NetworkInv, NetworkTypeOK
  <2> QED  BY <2>1, <2>2, <2>3, <2>4
<1>9. RefsInv'
  <2>1. UNCHANGED <<vNodes, early>>
    BY DEF SocketCopy, SocketRelease, MessageCopy, MessageRelease, table
  <2> QED  BY <1>1, <1>3, <1>4, <1>8, <2>1 DEF NetworkInv, RefsInv, Counted
<1> QED  BY <1>4, <1>5, <1>6, <1>7, <1>9 DEF NetworkInv, SameGrants

-----------------------------------------------------------------------------
(***************************************************************************)
(* New nodes and their dialers.                                            *)
(***************************************************************************)

\* What a dialer does changes who is on the way to ConnectNode.
LEMMA ConnectingChanges ==
    ASSUME NEW d \in Dialer, \A e \in Dialer \ {d} : dial'[e].at = dial[e].at
    PROVE  /\ dial'[d].at = "connecting" /\ dial[d].at # "connecting" =>
                 Cardinality(Connecting') = Cardinality(Connecting) + 1
           /\ dial'[d].at # "connecting" /\ dial[d].at = "connecting" =>
                 Cardinality(Connecting') = Cardinality(Connecting) - 1
           /\ dial'[d].at # "connecting" /\ dial[d].at # "connecting" => Connecting' = Connecting
<1>1. CASE dial'[d].at = "connecting" /\ dial[d].at # "connecting"
  <2>1. Connecting' = Connecting \cup {d} /\ d \notin Connecting
    BY <1>1 DEF Connecting
  <2> QED  BY <1>1, <2>1, ConnectingFinite, FS_AddElement
<1>2. CASE dial'[d].at # "connecting" /\ dial[d].at = "connecting"
  <2>1. Connecting' = Connecting \ {d} /\ d \in Connecting
    BY <1>2 DEF Connecting
  <2> QED  BY <1>2, <2>1, ConnectingFinite, FS_RemoveElement
<1>3. CASE dial'[d].at # "connecting" /\ dial[d].at # "connecting"
  <2>1. Connecting' = Connecting
    BY <1>3 DEF Connecting
  <2> QED  BY <1>3, <2>1
<1> QED  BY <1>1, <1>2, <1>3

\* The node that AddNode makes is new, and what is said of the others stays.
LEMMA AddNodeFacts ==
    ASSUME NetworkInv, NEW a \in Addr \cup {"none"}, NEW inbound \in BOOLEAN,
           AddNode(a, inbound), lastId < MaxNodes,
           UNCHANGED <<vNodesDisconnected, early, message>>, socket'.copy = socket.copy
    PROVE  /\ lastId' \in NodeId /\ lastId' = lastId + 1
           /\ lastId' \notin Existing \cup early
           /\ Existing' = Existing \cup {lastId'}
           /\ node' \in [NodeId -> NodeType]
           /\ node'[lastId'] = NewNode(a, inbound)
           /\ \A n \in NodeId \ {lastId'} : node'[n] = node[n]
           /\ vNodes' \subseteq 1..lastId' /\ vNodesDisconnected' \subseteq 1..lastId'
           /\ early' \subseteq 1..lastId' /\ lastId' \in Nat
           /\ TableInv' /\ RefsInv'
<1>1. /\ lastId \in Nat /\ node \in [NodeId -> NodeType] /\ lastId' = lastId + 1
      /\ vNodes \subseteq 1..lastId /\ vNodesDisconnected \subseteq 1..lastId
      /\ early \subseteq 1..lastId
  BY DEF NetworkInv, NetworkTypeOK, AddNode
<1>2. lastId' \in NodeId
  BY <1>1, NetworkAssumption DEF NodeId
<1>3. lastId' \notin Existing \cup early /\ Existing' = Existing \cup {lastId'}
  BY <1>1 DEF Existing, AddNode
<1>4. NewNode(a, inbound) \in NodeType
  BY DEF NewNode, NodeType
<1>5. /\ node' \in [NodeId -> NodeType] /\ node'[lastId'] = NewNode(a, inbound)
      /\ \A n \in NodeId \ {lastId'} : node'[n] = node[n]
  BY <1>1, <1>2, <1>4 DEF AddNode
<1>6. /\ vNodes' \subseteq 1..lastId' /\ vNodesDisconnected' \subseteq 1..lastId'
      /\ early' \subseteq 1..lastId' /\ lastId' \in Nat
  BY <1>1 DEF AddNode
<1>7. TableInv'
  BY <1>3 DEF NetworkInv, TableInv, Existing, AddNode
<1>8. RefsInv'
  <2>1. socket.copy \cup message.copy \subseteq Existing /\ Existing \subseteq NodeId
    BY NodesAreIds DEF NetworkInv, UseInv, Existing
  <2>2. node'[lastId'].refs = 1 /\ node'[lastId'].grant = FALSE
    BY <1>5 DEF NewNode
  <2>3. lastId' \in vNodes' /\ \A n \in Existing : n \in vNodes' <=> n \in vNodes
    BY <1>3 DEF AddNode
  <2> QED  BY <1>3, <1>5, <2>1, <2>2, <2>3 DEF NetworkInv, RefsInv, Counted
<1> QED  BY <1>1, <1>2, <1>3, <1>5, <1>6, <1>7, <1>8

LEMMA SocketAcceptStep ==
    ASSUME NetworkInv, NEW a \in Addr, SocketAccept(a)
    PROVE  NetworkInv'
<1>1. lastId + Cardinality(Connecting) < MaxNodes /\ Connecting' = Connecting
  BY DEF SocketAccept, Room, Connecting
<1>2. lastId < MaxNodes /\ lastId \in Nat
  BY <1>1, ConnectingFinite, NetworkAssumption DEF NetworkInv, NetworkTypeOK
<1>3. AddNode(a, TRUE) /\ UNCHANGED <<vNodesDisconnected, semOutbound, message, dial, early>>
      /\ socket' = [socket EXCEPT !.at = "copy"] /\ socket.at = "accept"
  BY DEF SocketAccept
<1>4. /\ socket' \in [at : {"disconnect", "accept", "copy", "serve"}, copy : SUBSET NodeId]
      /\ socket'.copy = socket.copy /\ socket'.at = "copy"
  BY <1>3 DEF NetworkInv, NetworkTypeOK
<1>5. /\ lastId' \in NodeId /\ lastId' = lastId + 1 /\ lastId' \in Nat
      /\ lastId' \notin Existing \cup early /\ Existing' = Existing \cup {lastId'}
      /\ node' \in [NodeId -> NodeType] /\ \A n \in NodeId \ {lastId'} : node'[n] = node[n]
      /\ vNodes' \subseteq 1..lastId' /\ vNodesDisconnected' \subseteq 1..lastId'
      /\ early' \subseteq 1..lastId' /\ TableInv' /\ RefsInv'
  <2> HIDE DEF SocketAccept
  <2> QED  BY <1>2, <1>3, <1>4, AddNodeFacts
<1>6. NetworkTypeOK'
  BY <1>3, <1>4, <1>5 DEF NetworkInv, NetworkTypeOK
<1>7. RoomInv'
  BY <1>1, <1>2, <1>5, ConnectingFinite, NetworkAssumption DEF RoomInv
<1>8. UseInv'
  <2>1. Existing \subseteq NodeId /\ vNodes \subseteq vNodes'
    BY <1>3, NodesAreIds DEF Existing, AddNode
  <2> QED  BY <1>3, <1>4, <1>5, <2>1 DEF NetworkInv, UseInv
<1> QED  BY <1>5, <1>6, <1>7, <1>8 DEF NetworkInv

LEMMA DialSteps ==
    ASSUME NetworkInv, NEW d \in Dialer, DialNext(d)
    PROVE  NetworkInv'
<1>1. /\ dial \in [Dialer -> [at : DialState, addr : Addr \cup {"none"}, id : Nat]]
      /\ node \in [NodeId -> NodeType] /\ lastId \in Nat /\ semOutbound \in Nat
      /\ lastId + Cardinality(Connecting) <= MaxNodes
  BY DEF NetworkInv, NetworkTypeOK, RoomInv
<1>2. None \in [at : DialState, addr : Addr \cup {"none"}, id : Nat]
  BY DEF None, DialState
<1>3. Existing \subseteq NodeId
  BY NodesAreIds DEF Existing
<1>4. ASSUME NEW a \in Addr, DialConnects(d, a) PROVE NetworkInv'
  <2> DEFINE s == [at |-> "connecting", addr |-> a, id |-> 0]
  <2>1. /\ dial' = [dial EXCEPT ![d] = s] /\ dial[d].at = "idle"
        /\ semOutbound' = semOutbound - 1 /\ semOutbound > 0
        /\ lastId + Cardinality(Connecting) < MaxNodes
        /\ UNCHANGED <<node, lastId, table, socket, message, early>>
    BY <1>4 DEF DialConnects, Room, Connecting
  <2>2. Cardinality(Connecting') = Cardinality(Connecting) + 1
    <3>1. dial'[d].at = "connecting" /\ \A e \in Dialer \ {d} : dial'[e].at = dial[e].at
      BY <1>1, <2>1
    <3> QED  BY <2>1, <3>1, ConnectingChanges
  <2>3. RoomInv'
    BY <1>1, <2>1, <2>2, ConnectingFinite, NetworkAssumption DEF RoomInv
  <2>4. NetworkTypeOK'
    BY <1>1, <2>1 DEF NetworkInv, NetworkTypeOK, DialState, table
  <2>5. TableInv' /\ RefsInv'
    BY <2>1 DEF NetworkInv, TableInv, RefsInv, Existing, table
  <2>6. UseInv'
    BY <1>1, <2>1 DEF NetworkInv, UseInv, Existing, table
  <2> QED  BY <2>3, <2>4, <2>5, <2>6 DEF NetworkInv
<1>5. CASE DialFails(d)
  <2>1. /\ dial' = [dial EXCEPT ![d] = None] /\ dial[d].at = "connecting"
        /\ semOutbound' = semOutbound + 1
        /\ UNCHANGED <<node, lastId, table, socket, message, early>>
    BY <1>5 DEF DialFails
  <2>2. Cardinality(Connecting') = Cardinality(Connecting) - 1
    <3>1. dial'[d].at = "idle" /\ \A e \in Dialer \ {d} : dial'[e].at = dial[e].at
      BY <1>1, <2>1 DEF None
    <3> QED  BY <2>1, <3>1, ConnectingChanges
  <2>3. RoomInv'
    BY <1>1, <2>1, <2>2, ConnectingFinite, NetworkAssumption DEF RoomInv
  <2>4. NetworkTypeOK'
    BY <1>1, <1>2, <2>1 DEF NetworkInv, NetworkTypeOK, table
  <2>5. TableInv' /\ RefsInv'
    BY <2>1 DEF NetworkInv, TableInv, RefsInv, Existing, table
  <2>6. UseInv'
    BY <1>1, <2>1 DEF NetworkInv, UseInv, Existing, table, None
  <2> QED  BY <2>3, <2>4, <2>5, <2>6 DEF NetworkInv
<1>6. CASE DialAdds(d)
  <2> DEFINE s == [at |-> "connected", addr |-> "none", id |-> lastId']
  <2>1. /\ AddNode(dial[d].addr, FALSE) /\ dial' = [dial EXCEPT ![d] = s]
        /\ dial[d].at = "connecting" /\ dial[d].addr \in Addr \cup {"none"}
        /\ UNCHANGED <<vNodesDisconnected, semOutbound, socket, message, early>>
    BY <1>1, <1>6 DEF DialAdds
  <2>2. Cardinality(Connecting') = Cardinality(Connecting) - 1
    <3>1. dial'[d].at = "connected" /\ \A e \in Dialer \ {d} : dial'[e].at = dial[e].at
      BY <1>1, <2>1
    <3> QED  BY <2>1, <3>1, ConnectingChanges
  <2>3. Cardinality(Connecting') \in Nat /\ lastId < MaxNodes
    <3>1. d \in Connecting
      BY <2>1 DEF Connecting
    <3>2. Cardinality(Connecting) # 0
      BY <3>1, ConnectingFinite, FS_EmptySet
    <3> QED  BY <1>1, <2>2, <3>2, ConnectingFinite, NetworkAssumption
  <2>4. /\ lastId' \in NodeId /\ lastId' = lastId + 1 /\ lastId' \in Nat
        /\ lastId' \notin Existing \cup early /\ Existing' = Existing \cup {lastId'}
        /\ node' \in [NodeId -> NodeType] /\ \A n \in NodeId \ {lastId'} : node'[n] = node[n]
        /\ node'[lastId'] = NewNode(dial[d].addr, FALSE)
        /\ vNodes' \subseteq 1..lastId' /\ vNodesDisconnected' \subseteq 1..lastId'
        /\ early' \subseteq 1..lastId' /\ TableInv' /\ RefsInv'
    BY <2>1, <2>3, AddNodeFacts
  <2>5. NetworkTypeOK'
    BY <1>1, <2>1, <2>4 DEF NetworkInv, NetworkTypeOK, DialState
  <2>6. RoomInv'
    BY <1>1, <2>2, <2>4, ConnectingFinite, NetworkAssumption DEF RoomInv
  <2>7. UseInv'
    <3>1. vNodes' = vNodes \cup {lastId'}
      BY <2>1 DEF AddNode
    <3>2. /\ ~node'[lastId'].network /\ ~node'[lastId'].inbound /\ ~node'[lastId'].grant
      BY <2>4 DEF NewNode
    <3>3. lastId' # 0 /\ dial'[d].at = "connected" /\ dial'[d].id = lastId'
          /\ \A e \in Dialer \ {d} : dial'[e] = dial[e]
      BY <1>1, <2>1, <2>4
    <3>4. \A e \in Dialer \ {d} : dial[e].at = "connected" =>
             dial[e].id \in NodeId \ {lastId'} /\ dial[e].id \in Existing
      BY <1>3, <2>4 DEF NetworkInv, UseInv
    <3>5. \A e \in Dialer \ {d} : dial[e].id # lastId'
      BY <3>3, <3>4 DEF NetworkInv, UseInv
    <3>6. ASSUME NEW e \in Dialer, dial'[e].at = "connected"
          PROVE  /\ dial'[e].id \in vNodes' \cup early' /\ dial'[e].id \in Existing'
                 /\ ~node'[dial'[e].id].network /\ ~node'[dial'[e].id].inbound
                 /\ ~node'[dial'[e].id].grant
                 /\ \A c \in Dialer \ {e} : dial'[c].id # dial'[e].id
      <4>1. CASE e = d
        BY <2>4, <3>1, <3>2, <3>3, <3>5, <4>1
      <4>2. CASE e # d
        <5>1. dial'[e] = dial[e] /\ dial[e].id \in NodeId \ {lastId'} /\ dial[e].id \in Existing
          BY <3>3, <3>4, <3>6, <4>2
        <5>2. \A c \in Dialer \ {e} : dial'[c].id # dial[e].id
          BY <3>3, <3>6, <5>1 DEF NetworkInv, UseInv
        <5>3. node'[dial[e].id] = node[dial[e].id] /\ dial[e].id \in vNodes \cup early
              /\ dial[e].at = "connected"
          BY <2>4, <3>6, <5>1 DEF NetworkInv, UseInv
        <5> QED  BY <2>1, <2>4, <3>1, <5>1, <5>2, <5>3 DEF NetworkInv, UseInv
      <4> QED  BY <4>1, <4>2
    <3>7. \A e \in Dialer : dial'[e].at # "connected" => dial'[e].id = 0
      BY <3>3 DEF NetworkInv, UseInv
    <3>8. /\ socket'.copy \cup message'.copy \subseteq Existing'
          /\ message'.left \subseteq message'.copy
          /\ socket'.at # "serve" => socket'.copy = {}
      BY <2>1, <2>4 DEF NetworkInv, UseInv
    <3> QED  BY <3>6, <3>7, <3>8 DEF UseInv
  <2> QED  BY <2>4, <2>5, <2>6, <2>7 DEF NetworkInv
<1>7. CASE DialEnds(d)
  <2> DEFINE k == dial[d].id
             q == [node[k] EXCEPT !.grant = TRUE, !.network = TRUE]
  <2>1. /\ node' = [node EXCEPT ![k] = q] /\ dial' = [dial EXCEPT ![d] = None]
        /\ dial[d].at = "connected"
        /\ UNCHANGED <<lastId, table, semOutbound, socket, message, early>>
    BY <1>1, <1>7 DEF DialEnds
  <2>2. k \in vNodes \cup early /\ k \in Existing /\ k \in NodeId
        /\ \A e \in Dialer \ {d} : dial[e].id # k
    BY <1>3, <2>1 DEF NetworkInv, UseInv
  <2>3. q \in NodeType /\ q.refs = node[k].refs
    <3> HIDE DEF k
    <3> QED  BY <1>1, <2>2 DEF NodeType
  <2>4. /\ node' \in [NodeId -> NodeType] /\ node'[k].refs = node[k].refs
        /\ \A n \in NodeId \ {k} : node'[n] = node[n]
    <3> HIDE DEF q, k
    <3> QED  BY <1>1, <2>1, <2>2, <2>3
  <2>5. Connecting' = Connecting
    <3>1. dial'[d].at = "idle" /\ \A e \in Dialer \ {d} : dial'[e].at = dial[e].at
      BY <1>1, <2>1 DEF None
    <3> QED  BY <2>1, <3>1, ConnectingChanges
  <2>6. NetworkTypeOK'
    BY <1>1, <1>2, <2>1, <2>4 DEF NetworkInv, NetworkTypeOK, table
  <2>7. RoomInv' /\ TableInv'
    BY <2>1, <2>5 DEF NetworkInv, RoomInv, TableInv, Existing, table
  <2>8. RefsInv'
    <3> HIDE DEF q, k
    <3> QED  BY <1>3, <2>1, <2>2, <2>4 DEF NetworkInv, RefsInv, Existing, table
  <2>9. UseInv'
    <3> HIDE DEF q, k
    <3>1. dial'[d].at = "idle" /\ dial'[d].id = 0 /\ \A e \in Dialer \ {d} : dial'[e] = dial[e]
      BY <1>1, <2>1 DEF None
    <3>2. k # 0 /\ UNCHANGED <<vNodes, early, Existing, socket, message>>
      BY <2>1, <2>2 DEF NodeId, Existing, table
    <3>3. ASSUME NEW e \in Dialer, dial'[e].at = "connected"
          PROVE  /\ dial'[e].id \in vNodes' \cup early' /\ dial'[e].id \in Existing'
                 /\ ~node'[dial'[e].id].network /\ ~node'[dial'[e].id].inbound
                 /\ ~node'[dial'[e].id].grant
                 /\ \A c \in Dialer \ {e} : dial'[c].id # dial'[e].id
      <4>1. e \in Dialer \ {d} /\ dial'[e] = dial[e] /\ dial[e].id \in NodeId \ {k}
        BY <1>3, <2>2, <3>1, <3>3 DEF NetworkInv, UseInv
      <4> QED  BY <2>4, <3>1, <3>2, <3>3, <4>1 DEF NetworkInv, UseInv, NodeId
    <3>4. \A e \in Dialer : dial'[e].at # "connected" => dial'[e].id = 0
      BY <3>1 DEF NetworkInv, UseInv
    <3> QED  BY <3>2, <3>3, <3>4 DEF NetworkInv, UseInv
  <2> QED  BY <2>6, <2>7, <2>8, <2>9 DEF NetworkInv
<1> QED  BY <1>4, <1>5, <1>6, <1>7 DEF DialNext
-----------------------------------------------------------------------------
(***************************************************************************)
(* The socket handler hangs up and deletes.                                *)
(***************************************************************************)

LEMMA HungUpFacts ==
    ASSUME NEW n, node[n] \in NodeType
    PROVE  /\ HungUp(n) \in NodeType
           /\ HungUp(n).grant = FALSE /\ HungUp(n).disconnect = TRUE
           /\ HungUp(n).network = node[n].network /\ HungUp(n).inbound = node[n].inbound
           /\ HungUp(n).refs = node[n].refs - Counted(node[n].network \/ node[n].inbound)
<1> DEFINE r == node[n]
           k == IF r.network \/ r.inbound THEN r.refs - 1 ELSE r.refs
<1>1. HungUp(n) = [r EXCEPT !.disconnect = TRUE, !.grant = FALSE, !.refs = k]
  BY Zenon DEF HungUp
<1>2. r \in NodeType /\ k \in Int
  BY DEF NodeType
<1>3. k = r.refs - Counted(r.network \/ r.inbound)
  <2>1. r.refs - 0 = r.refs
    BY DEF NodeType
  <2> QED  BY <2>1 DEF Counted
<1> HIDE DEF r, k
<1>4. /\ HungUp(n) \in NodeType
      /\ HungUp(n).grant = FALSE /\ HungUp(n).disconnect = TRUE
      /\ HungUp(n).network = r.network /\ HungUp(n).inbound = r.inbound
      /\ HungUp(n).refs = k
  BY <1>1, <1>2 DEF NodeType
<1> QED  BY <1>3, <1>4 DEF r

\* What SocketDisconnect hangs up, and what it may delete: only nodes without
\* a copy, a connection or a dialer.
Gone == {n \in vNodes : node[n].disconnect \/ node[n].refs <= 0}

LEMMA DeletableUnused ==
    ASSUME NetworkInv, NEW n \in Deletable
    PROVE  n \in vNodesDisconnected /\ n \notin socket.copy \cup message.copy \cup vNodes \cup early
<1>1. /\ n \in vNodesDisconnected /\ n \in Existing /\ node[n].refs <= 0
      /\ node[n].refs = Counted(n \in socket.copy) + Counted(n \in message.copy)
                        + Counted(n \in vNodes \cup early)
  BY DEF Deletable, Existing, NetworkInv, RefsInv
<1> QED  BY <1>1 DEF Counted

LEMMA SocketDisconnectStep ==
    ASSUME NetworkInv, SocketDisconnect
    PROVE  NetworkInv'
<1>1. PICK dead \in SUBSET Deletable :
         /\ node' = [n \in NodeId |-> IF n \in Gone THEN HungUp(n)
                                      ELSE IF n \in dead THEN NoNode ELSE node[n]]
         /\ vNodes' = vNodes \ Gone
         /\ vNodesDisconnected' = (vNodesDisconnected \ dead) \cup Gone
         /\ mapNodeState' = mapNodeState \ dead
         /\ semOutbound' = semOutbound + Cardinality({n \in Gone : node[n].grant /\ ~HungUp(n).grant}
                                                     \cup {n \in dead : node[n].grant})
         /\ early' = early \cup {n \in Gone : ~node[n].network /\ ~node[n].inbound}
  BY DEF SocketDisconnect, Gone
<1>2. /\ socket.at = "disconnect" /\ socket' = [socket EXCEPT !.at = "accept"]
      /\ UNCHANGED <<lastId, message, dial>>
  BY DEF SocketDisconnect
<1>3. /\ node \in [NodeId -> NodeType] /\ vNodes \subseteq NodeId
      /\ vNodesDisconnected \subseteq NodeId /\ early \subseteq NodeId
      /\ Existing \subseteq NodeId /\ Gone \subseteq vNodes
  BY NodesAreIds DEF NetworkInv, NetworkTypeOK, Existing, Gone
<1>4. /\ dead \subseteq vNodesDisconnected
      /\ \A n \in dead : n \notin socket.copy \cup message.copy \cup vNodes \cup early
  BY DeletableUnused
<1>5. Existing' = Existing \ dead
  BY <1>1, <1>3, <1>4 DEF Existing
<1>6. /\ node' \in [NodeId -> NodeType]
      /\ \A n \in Gone : /\ node'[n].grant = FALSE /\ node'[n].network = node[n].network
                         /\ node'[n].inbound = node[n].inbound
                         /\ node'[n].refs = node[n].refs
                                            - Counted(node[n].network \/ node[n].inbound)
      /\ \A n \in NodeId \ (Gone \cup dead) : node'[n] = node[n]
  <2>1. NoNode \in NodeType
    BY DEF NoNode, NewNode, NodeType
  <2>2. \A n \in Gone : node[n] \in NodeType
    BY <1>3
  <2> QED  BY <1>1, <1>3, <2>1, <2>2, HungUpFacts
<1>7. socket.copy = {} /\ socket'.copy = {} /\ socket'.at = "accept"
      /\ socket' \in [at : {"disconnect", "accept", "copy", "serve"}, copy : SUBSET NodeId]
  BY <1>2 DEF NetworkInv, NetworkTypeOK, UseInv
<1>8. semOutbound' \in Nat
  <2> DEFINE freed == {n \in Gone : node[n].grant /\ ~HungUp(n).grant}
                      \cup {n \in dead : node[n].grant}
  <2>1. freed \subseteq NodeId
    BY <1>3, <1>4
  <2>2. IsFiniteSet(NodeId)
    BY FS_Interval, NetworkAssumption DEF NodeId
  <2>3. Cardinality(freed) \in Nat
    BY <2>1, <2>2, FS_Subset, FS_CardinalityType
  <2> HIDE DEF freed
  <2>4. semOutbound' = semOutbound + Cardinality(freed) /\ semOutbound \in Nat
    BY <1>1 DEF freed, NetworkInv, NetworkTypeOK
  <2> QED  BY <2>3, <2>4
<1>9. NetworkTypeOK'
  BY <1>1, <1>2, <1>3, <1>6, <1>7, <1>8 DEF NetworkInv, NetworkTypeOK
<1>10. RoomInv' /\ TableInv'
  BY <1>1, <1>2, <1>3, <1>4, <1>5 DEF NetworkInv, RoomInv, TableInv, Connecting, Existing
<1>11. UseInv'
  <2>1. ASSUME NEW d \in Dialer, dial[d].at = "connected"
        PROVE  /\ dial[d].id \in vNodes' \cup early' /\ dial[d].id \in Existing'
               /\ ~node'[dial[d].id].network /\ ~node'[dial[d].id].inbound
               /\ ~node'[dial[d].id].grant
    <3> DEFINE n == dial[d].id
    <3>1. /\ n \in vNodes \cup early /\ n \in Existing
          /\ ~node[n].network /\ ~node[n].inbound /\ ~node[n].grant
      BY <2>1 DEF NetworkInv, UseInv
    <3> HIDE DEF n
    <3>2. n \in vNodes' \cup early' /\ n \in Existing' /\ n \notin dead
      BY <1>1, <1>4, <1>5, <3>1
    <3>3. ~node'[n].network /\ ~node'[n].inbound /\ ~node'[n].grant
      BY <1>3, <1>6, <3>1, <3>2
    <3> QED  BY <3>2, <3>3 DEF n
  <2>2. message.copy \subseteq Existing'
    BY <1>4, <1>5 DEF NetworkInv, UseInv
  <2> QED  BY <1>2, <1>7, <2>1, <2>2 DEF NetworkInv, UseInv
<1>12. RefsInv'
  <2>1. ASSUME NEW n \in Existing'
        PROVE  /\ node'[n].refs = Counted(n \in socket'.copy) + Counted(n \in message'.copy)
                                  + Counted(n \in vNodes' \cup early')
               /\ node'[n].grant => n \in vNodes' \cup early'
    <3>1. n \in Existing /\ n \notin dead /\ n \in NodeId
      BY <1>3, <1>5
    <3>2. /\ node[n].refs = Counted(n \in message.copy) + Counted(n \in vNodes \cup early)
          /\ node[n].grant => n \in vNodes \cup early
      BY <1>7, <3>1 DEF NetworkInv, RefsInv, Counted
    <3>3. CASE n \in Gone
      <4>1. n \notin early /\ n \in vNodes /\ n \notin vNodes'
        BY <1>1, <1>3, <3>3 DEF NetworkInv, TableInv
      <4>2. n \in early' <=> ~(node[n].network \/ node[n].inbound)
        BY <1>1, <3>3, <4>1
      <4> QED  BY <1>2, <1>6, <1>7, <3>2, <3>3, <4>1, <4>2 DEF Counted
    <3>4. CASE n \notin Gone
      <4>1. n \in vNodes' \cup early' <=> n \in vNodes \cup early
        BY <1>1, <3>4
      <4> QED  BY <1>2, <1>6, <1>7, <3>1, <3>2, <3>4, <4>1 DEF Counted
    <3> QED  BY <3>3, <3>4
  <2> QED  BY <2>1 DEF RefsInv
<1> QED  BY <1>9, <1>10, <1>11, <1>12 DEF NetworkInv

LEMMA NetworkInvariant == Spec => []NetworkInv
<1>1. NetworkInv /\ [Next]_vars => NetworkInv'
  BY FlagSteps, BanSteps, CopySteps, SocketAcceptStep, SocketDisconnectStep, DialSteps
     DEF Next, SocketNext, MessageNext
<1> QED  BY <1>1, InitNetworkInv, PTL DEF Spec

\* No handler and no dialer ever holds a node that ThreadSocketHandler2 has
\* deleted, and each of them has its entry in mapNodeState.
THEOREM UsedNodesStay == Spec => []UsedNodesExist
<1>1. NetworkInv => UsedNodesExist
  BY DEF NetworkInv, NetworkTypeOK, UseInv, TableInv, UsedNodesExist
<1> QED  BY <1>1, NetworkInvariant, PTL

-----------------------------------------------------------------------------
(***************************************************************************)
(* The slots of semOutbound, counted.                                      *)
(***************************************************************************)
Dialing == {d \in Dialer : dial[d].at # "idle"}
Granted == {n \in Existing : node[n].grant}

SlotsInv == semOutbound + Cardinality(Dialing) + Cardinality(Granted) = MaxOutbound

LEMMA SlotSetsFinite ==
    ASSUME NetworkInv
    PROVE  /\ IsFiniteSet(Dialing) /\ Cardinality(Dialing) \in Nat
           /\ IsFiniteSet(Granted) /\ Cardinality(Granted) \in Nat
           /\ semOutbound \in Nat
<1>1. Granted \subseteq NodeId /\ IsFiniteSet(NodeId)
  BY NodesAreIds, FS_Interval, NetworkAssumption DEF Granted, Existing, NodeId
<1>2. Dialing \subseteq Dialer
  BY DEF Dialing
<1> QED
  BY <1>1, <1>2, FS_Subset, FS_CardinalityType, NetworkAssumption DEF NetworkInv, NetworkTypeOK

\* Steps that leave the slots and the dialers alone: no node gets a grant.
LEMMA SlotsSame ==
    ASSUME NetworkInv, SlotsInv, UNCHANGED semOutbound, Dialing' = Dialing, Granted' = Granted
    PROVE  SlotsInv'
  BY DEF SlotsInv

LEMMA SlotsOfOthers ==
    ASSUME NetworkInv, SlotsInv, SameGrants, UNCHANGED <<table, semOutbound, dial>>
    PROVE  SlotsInv'
<1>1. Existing' = Existing /\ Existing \subseteq NodeId
  BY NodesAreIds DEF Existing, table
<1>2. Granted' = Granted /\ Dialing' = Dialing
  BY <1>1 DEF Granted, Dialing, SameGrants
<1> QED  BY <1>2, SlotsSame

\* A new node has no grant yet.
LEMMA SlotsOfNewNode ==
    ASSUME NetworkInv, NetworkInv', SlotsInv, NEW a, NEW inbound, AddNode(a, inbound),
           Dialing' = Dialing, UNCHANGED <<vNodesDisconnected, semOutbound>>
    PROVE  SlotsInv'
<1>1. node \in [NodeId -> NodeType] /\ Existing \subseteq NodeId
  BY NodesAreIds DEF NetworkInv, NetworkTypeOK, Existing
<1>2. vNodes' = vNodes \cup {lastId'} /\ lastId' = lastId + 1
      /\ node' = [node EXCEPT ![lastId'] = NewNode(a, inbound)]
  BY DEF AddNode
<1>3. lastId' \in NodeId
  BY <1>2, NodesAreIds DEF NetworkInv, NetworkTypeOK
<1>4. lastId' \notin Existing /\ Existing' = Existing \cup {lastId'}
  BY <1>2 DEF Existing, NetworkInv, NetworkTypeOK
<1>5. ~node'[lastId'].grant /\ \A n \in Existing : node'[n] = node[n]
  BY <1>1, <1>2, <1>3, <1>4 DEF NewNode
<1>6. Granted' = Granted
  BY <1>4, <1>5 DEF Granted
<1> QED  BY <1>6, SlotsSame

LEMMA SlotsOfDials ==
    ASSUME NetworkInv, NetworkInv', SlotsInv, NEW d \in Dialer, DialNext(d)
    PROVE  SlotsInv'
<1>1. /\ dial \in [Dialer -> [at : DialState, addr : Addr \cup {"none"}, id : Nat]]
      /\ node \in [NodeId -> NodeType] /\ Existing \subseteq NodeId
  BY NodesAreIds DEF NetworkInv, NetworkTypeOK, Existing
<1>2. ASSUME NEW a \in Addr, DialConnects(d, a) PROVE SlotsInv'
  <2>1. /\ dial' = [dial EXCEPT ![d] = [at |-> "connecting", addr |-> a, id |-> 0]]
        /\ dial[d].at = "idle" /\ semOutbound' = semOutbound - 1 /\ UNCHANGED <<node, table>>
    BY <1>2 DEF DialConnects
  <2>2. dial'[d].at = "connecting" /\ \A e \in Dialer \ {d} : dial'[e] = dial[e]
    BY <1>1, <2>1
  <2>3. Dialing' = Dialing \cup {d} /\ d \notin Dialing
    BY <2>1, <2>2 DEF Dialing
  <2>4. Granted' = Granted
    BY <2>1 DEF Granted, Existing, table
  <2>5. Cardinality(Dialing') = Cardinality(Dialing) + 1
    BY <2>3, SlotSetsFinite, FS_AddElement
  <2> QED  BY <2>1, <2>4, <2>5, SlotSetsFinite, NetworkAssumption DEF SlotsInv
<1>3. CASE DialFails(d)
  <2>1. /\ dial' = [dial EXCEPT ![d] = None] /\ dial[d].at = "connecting"
        /\ semOutbound' = semOutbound + 1 /\ UNCHANGED <<node, table>>
    BY <1>3 DEF DialFails
  <2>2. dial'[d].at = "idle" /\ \A e \in Dialer \ {d} : dial'[e] = dial[e]
    BY <1>1, <2>1 DEF None
  <2>3. Dialing' = Dialing \ {d} /\ d \in Dialing
    BY <2>1, <2>2 DEF Dialing
  <2>4. Granted' = Granted
    BY <2>1 DEF Granted, Existing, table
  <2>5. Cardinality(Dialing') = Cardinality(Dialing) - 1
    BY <2>3, SlotSetsFinite, FS_RemoveElement
  <2> QED  BY <2>1, <2>4, <2>5, SlotSetsFinite, NetworkAssumption DEF SlotsInv
<1>4. CASE DialAdds(d)
  <2>1. /\ dial' = [dial EXCEPT ![d] = [at |-> "connected", addr |-> "none", id |-> lastId']]
        /\ dial[d].at = "connecting" /\ AddNode(dial[d].addr, FALSE)
        /\ UNCHANGED <<vNodesDisconnected, semOutbound>>
    BY <1>4 DEF DialAdds
  <2>2. dial'[d].at = "connected" /\ \A e \in Dialer \ {d} : dial'[e] = dial[e]
    BY <1>1, <2>1
  <2>3. Dialing' = Dialing
    BY <2>1, <2>2 DEF Dialing
  <2> QED  BY <2>1, <2>3, SlotsOfNewNode
<1>5. CASE DialEnds(d)
  <2> DEFINE k == dial[d].id
  <2>1. /\ node' = [node EXCEPT ![k].grant = TRUE, ![k].network = TRUE]
        /\ dial' = [dial EXCEPT ![d] = None] /\ dial[d].at = "connected"
        /\ UNCHANGED <<table, semOutbound>>
    BY <1>5 DEF DialEnds
  <2>2. k \in Existing /\ ~node[k].grant
    BY <2>1 DEF NetworkInv, UseInv
  <2>3. dial'[d].at = "idle" /\ \A e \in Dialer \ {d} : dial'[e] = dial[e]
    BY <1>1, <2>1 DEF None
  <2>4. Dialing' = Dialing \ {d} /\ d \in Dialing
    BY <2>1, <2>3 DEF Dialing
  <2> HIDE DEF k
  <2>5. node'[k].grant /\ \A n \in NodeId \ {k} : node'[n] = node[n]
    BY <1>1, <2>1, <2>2 DEF NodeType
  <2>6. Granted' = Granted \cup {k} /\ k \notin Granted
    BY <1>1, <2>1, <2>2, <2>5 DEF Granted, Existing, table
  <2>7. Cardinality(Dialing') = Cardinality(Dialing) - 1
    BY <2>4, SlotSetsFinite, FS_RemoveElement
  <2>8. Cardinality(Granted') = Cardinality(Granted) + 1
    BY <2>6, SlotSetsFinite, FS_AddElement
  <2> QED  BY <2>1, <2>7, <2>8, SlotSetsFinite, NetworkAssumption DEF SlotsInv
<1> QED  BY <1>2, <1>3, <1>4, <1>5 DEF DialNext

LEMMA SlotsOfDisconnect ==
    ASSUME NetworkInv, NetworkInv', SlotsInv, SocketDisconnect
    PROVE  SlotsInv'
<1>1. PICK dead \in SUBSET Deletable :
         /\ node' = [n \in NodeId |-> IF n \in Gone THEN HungUp(n)
                                      ELSE IF n \in dead THEN NoNode ELSE node[n]]
         /\ vNodes' = vNodes \ Gone
         /\ vNodesDisconnected' = (vNodesDisconnected \ dead) \cup Gone
         /\ semOutbound' = semOutbound + Cardinality({n \in Gone : node[n].grant /\ ~HungUp(n).grant}
                                                     \cup {n \in dead : node[n].grant})
  BY DEF SocketDisconnect, Gone
<1> DEFINE freed == {n \in Gone : node[n].grant /\ ~HungUp(n).grant} \cup {n \in dead : node[n].grant}
<1>2. /\ node \in [NodeId -> NodeType] /\ Existing \subseteq NodeId /\ Gone \subseteq Existing
      /\ dead \subseteq Existing /\ dead \cap Gone = {} /\ dead \cap vNodes = {}
  BY NodesAreIds, DeletableUnused DEF NetworkInv, NetworkTypeOK, Existing, Gone
<1>3. Existing' = Existing \ dead
  BY <1>1, <1>2 DEF Existing, Gone
<1>4. \A n \in Gone : ~HungUp(n).grant
  BY <1>2, HungUpFacts
<1>5. Granted' = Granted \ freed /\ Granted \cap freed = freed
  BY <1>1, <1>2, <1>3, <1>4 DEF Granted
<1>6. Dialing' = Dialing
  BY DEF SocketDisconnect, Dialing
<1>7. semOutbound' = semOutbound + Cardinality(freed)
  BY <1>1
<1>8. IsFiniteSet(freed) /\ Cardinality(freed) \in Nat
  BY <1>5, SlotSetsFinite, FS_Subset, FS_CardinalityType
<1> HIDE DEF freed
<1>9. Cardinality(Granted') = Cardinality(Granted) - Cardinality(freed)
  BY <1>5, SlotSetsFinite, FS_Difference
<1> QED  BY <1>6, <1>7, <1>8, <1>9, SlotSetsFinite, NetworkAssumption DEF SlotsInv

LEMMA SlotsInvariant == Spec => []SlotsInv
<1>1. Init => SlotsInv
  <2> SUFFICES ASSUME Init PROVE SlotsInv
    OBVIOUS
  <2>1. Dialing = {} /\ Granted = {}
    BY DEF Init, Dialing, Granted, Existing, None
  <2> QED  BY <2>1, FS_EmptySet, NetworkAssumption DEF SlotsInv, Init
<1>2. ASSUME NetworkInv, NetworkInv', SlotsInv, [Next]_vars PROVE SlotsInv'
  <2>1. CASE \/ \E n \in NodeId : \/ SocketCloses(n) \/ ProcessVersion(n) \/ SkipNode(n)
                                  \/ \E howmuch \in Penalty : Misbehaving(n, howmuch)
             \/ GoOffline \/ SetOnlineStatus \/ (\E a \in Addr : Unban(a)) \/ UNCHANGED vars
    <3>1. UNCHANGED <<table, semOutbound, dial>>
      BY <2>1 DEF SocketCloses, ProcessVersion, SkipNode, Misbehaving, GoOffline,
                  SetOnlineStatus, Unban, vars, threads
    <3> QED  BY <1>2, <2>1, <3>1, FlagSteps, SlotsOfOthers
  <2>2. CASE (\E n \in NodeId : SendMessages(n)) \/ \E a \in Addr : BanAddress(a)
    <3>1. UNCHANGED <<table, semOutbound, dial>>
      BY <2>2 DEF SendMessages, BanAddress, threads
    <3> QED  BY <1>2, <2>2, <3>1, BanSteps, SlotsOfOthers
  <2>3. CASE SocketCopy \/ SocketRelease \/ MessageCopy \/ MessageRelease
    <3>1. UNCHANGED <<table, semOutbound, dial>>
      BY <2>3 DEF SocketCopy, SocketRelease, MessageCopy, MessageRelease
    <3> QED  BY <1>2, <2>3, <3>1, CopySteps, SlotsOfOthers
  <2>4. ASSUME NEW a \in Addr, SocketAccept(a) PROVE SlotsInv'
    <3>1. AddNode(a, TRUE) /\ UNCHANGED <<vNodesDisconnected, semOutbound>> /\ Dialing' = Dialing
      BY <2>4 DEF SocketAccept, Dialing
    <3> QED  BY <1>2, <3>1, SlotsOfNewNode
  <2> QED
    BY <1>2, <2>1, <2>2, <2>3, <2>4, SlotsOfDials, SlotsOfDisconnect
       DEF Next, SocketNext, MessageNext
<1> QED  BY <1>1, <1>2, NetworkInvariant, PTL DEF Spec

\* The references of a node are the copies it is in and its connection, and
\* the slots of semOutbound are free, with a dialer or with a connection
\* (AddRef and Release, CSemaphoreGrant, ThreadSocketHandler2).
THEOREM RefsAndSlotsStayUses == Spec => []RefsAndSlotsAreUses
<1>1. NetworkInv /\ SlotsInv => RefsAndSlotsAreUses
  BY DEF NetworkInv, RefsInv, SlotsInv, Dialing, Granted, RefsAndSlotsAreUses
<1> QED  BY <1>1, NetworkInvariant, SlotsInvariant, PTL

-----------------------------------------------------------------------------
(***************************************************************************)
(* Bans and the network switch.                                            *)
(***************************************************************************)

\* UnwantedLeave with the flag set after the marks: while the node is going
\* off line, its connections are marked already or are added late.
Unwanted(n) == node[n].addr \in setBanned \/ netOffline # "no"
MarkedInv == \A n \in vNodes : Unwanted(n) => node[n].disconnect \/ n \in slipped

\* The steps that neither ban, go off line nor add a node: no mark is taken
\* away and no address changes.
KeepsMarks ==
    /\ vNodes' \subseteq vNodes
    /\ \A n \in vNodes' : /\ node'[n].addr = node[n].addr
                          /\ node[n].disconnect => node'[n].disconnect
                          /\ n \in slipped => n \in slipped'
    /\ setBanned' \subseteq setBanned
    /\ netOffline = "no" => netOffline' = "no"

LEMMA MarksKept == ASSUME MarkedInv, KeepsMarks PROVE MarkedInv'
  BY DEF MarkedInv, KeepsMarks, Unwanted

LEMMA MarksOfFields ==
    ASSUME NEW r \in NodeType
    PROVE  \A m \in Nat, p \in BOOLEAN :
              \A q \in {[r EXCEPT !.disconnect = TRUE], [r EXCEPT !.version = TRUE],
                        [r EXCEPT !.shouldBan = FALSE, !.spared = TRUE],
                        [r EXCEPT !.shouldBan = FALSE, !.disconnect = TRUE],
                        [r EXCEPT !.refs = @ + 1], [r EXCEPT !.refs = @ - 1],
                        [r EXCEPT !.grant = TRUE, !.network = TRUE],
                        [r EXCEPT !.score = m, !.shouldBan = p]} :
                 q.addr = r.addr /\ (r.disconnect => q.disconnect)
  BY DEF NodeType

\* Steps that set fields of nodes.
LEMMA MarksOfFieldSteps ==
    ASSUME NetworkInv, MarkedInv,
           \/ SocketCopy \/ SocketRelease \/ MessageCopy \/ MessageRelease
           \/ \E n \in NodeId : \/ SocketCloses(n) \/ ProcessVersion(n) \/ SkipNode(n)
                                \/ \E howmuch \in Penalty : Misbehaving(n, howmuch)
           \/ \E d \in Dialer : DialFails(d) \/ DialEnds(d) \/ \E a \in Addr : DialConnects(d, a)
           \/ SetOnlineStatus \/ (\E a \in Addr : Unban(a)) \/ UNCHANGED vars
    PROVE  MarkedInv'
<1>1. /\ node \in [NodeId -> NodeType] /\ vNodes \subseteq NodeId
      /\ \A d \in Dialer : dial[d].at = "connected" => dial[d].id \in NodeId
  BY NodesAreIds DEF NetworkInv, NetworkTypeOK, UseInv, Existing
<1> DEFINE Kept == \A n \in NodeId : /\ node'[n].addr = node[n].addr
                                     /\ node[n].disconnect => node'[n].disconnect
<1>2. Kept
  <2>1. CASE UNCHANGED node
    BY <2>1
  <2>2. CASE SocketCopy \/ SocketRelease \/ MessageCopy \/ MessageRelease
    <3>1. PICK ns : node' = AddRef(ns) \/ node' = Release(ns)
      BY <2>2 DEF SocketCopy, SocketRelease, MessageCopy, MessageRelease
    <3>2. \A n \in NodeId : node'[n] \in {node[n], [node[n] EXCEPT !.refs = @ + 1],
                                          [node[n] EXCEPT !.refs = @ - 1]}
      BY <3>1 DEF AddRef, Release
    <3>3. \A n \in NodeId : \A q \in {node[n], [node[n] EXCEPT !.refs = @ + 1],
                                       [node[n] EXCEPT !.refs = @ - 1]} :
             q.addr = node[n].addr /\ q.disconnect = node[n].disconnect
      BY <1>1 DEF NodeType
    <3> QED  BY <3>2, <3>3
  <2>3. ASSUME NEW n \in NodeId, SocketCloses(n) \/ ProcessVersion(n) PROVE Kept
    <3>1. \/ node' = [node EXCEPT ![n] = [node[n] EXCEPT !.disconnect = TRUE]]
          \/ node' = [node EXCEPT ![n] = [node[n] EXCEPT !.version = TRUE]]
      BY <1>1, <2>3 DEF SocketCloses, ProcessVersion
    <3>2. PICK q \in {[node[n] EXCEPT !.disconnect = TRUE], [node[n] EXCEPT !.version = TRUE]} :
             node' = [node EXCEPT ![n] = q]
      BY <3>1
    <3>3. q.addr = node[n].addr /\ (node[n].disconnect => q.disconnect)
      BY <1>1, <3>2 DEF NodeType
    <3> QED  BY <1>1, <3>2, <3>3
  <2>4. ASSUME NEW n \in NodeId, NEW p \in Penalty, Misbehaving(n, p) PROVE Kept
    <3> DEFINE ban == node[n].shouldBan \/ node[n].score + p >= BanScore
               q == [node[n] EXCEPT !.score = node[n].score + p, !.shouldBan = ban]
    <3>1. node' = [node EXCEPT ![n] = q]
      BY <1>1, <2>4 DEF Misbehaving
    <3>2. q.addr = node[n].addr /\ q.disconnect = node[n].disconnect
      <4> HIDE DEF ban
      <4> QED  BY <1>1 DEF NodeType
    <3> HIDE DEF q
    <3> QED  BY <1>1, <3>1, <3>2
  <2>5. ASSUME NEW d \in Dialer, DialEnds(d) PROVE Kept
    <3> DEFINE k == dial[d].id
               q == [node[k] EXCEPT !.grant = TRUE, !.network = TRUE]
    <3>1. node' = [node EXCEPT ![k] = q] /\ k \in NodeId
      BY <1>1, <2>5 DEF DialEnds
    <3> HIDE DEF k
    <3>2. q.addr = node[k].addr /\ (node[k].disconnect => q.disconnect)
      BY <1>1, <3>1, MarksOfFields
    <3> HIDE DEF q
    <3> QED  BY <1>1, <3>1, <3>2
  <2>6. CASE \/ (\E n \in NodeId : SkipNode(n))
             \/ \E d \in Dialer : DialFails(d) \/ \E a \in Addr : DialConnects(d, a)
             \/ SetOnlineStatus \/ (\E a \in Addr : Unban(a)) \/ UNCHANGED vars
    BY <2>1, <2>6 DEF SkipNode, DialFails, DialConnects, SetOnlineStatus, Unban, vars
  <2> QED  BY <2>2, <2>3, <2>4, <2>5, <2>6
<1>3. /\ UNCHANGED <<vNodes, slipped>> /\ setBanned' \subseteq setBanned
      /\ netOffline = "no" => netOffline' = "no"
  BY DEF SocketCopy, SocketRelease, MessageCopy, MessageRelease, SocketCloses, ProcessVersion,
         SkipNode, Misbehaving, DialFails, DialEnds, DialConnects, SetOnlineStatus, Unban,
         vars, table
<1> HIDE DEF Kept
<1>4. KeepsMarks
  BY <1>1, <1>2, <1>3 DEF KeepsMarks, Kept
<1> QED  BY <1>4, MarksKept

LEMMA MarksOfDisconnect ==
    ASSUME NetworkInv, MarkedInv, SocketDisconnect
    PROVE  MarkedInv'
<1>1. PICK dead \in SUBSET Deletable :
         /\ node' = [n \in NodeId |-> IF n \in Gone THEN HungUp(n)
                                      ELSE IF n \in dead THEN NoNode ELSE node[n]]
         /\ vNodes' = vNodes \ Gone /\ slipped' = slipped \ Gone
         /\ UNCHANGED <<setBanned, netOffline>>
  BY DEF SocketDisconnect, Gone
<1>2. vNodes \subseteq NodeId /\ \A n \in dead : n \notin vNodes
  BY NodesAreIds, DeletableUnused
<1>3. KeepsMarks
  BY <1>1, <1>2 DEF KeepsMarks
<1> QED  BY <1>3, MarksKept

\* A node that is added unwanted has slipped in.
LEMMA MarksOfNewNode ==
    ASSUME NetworkInv, NetworkInv', MarkedInv, NEW a, NEW inbound, AddNode(a, inbound),
           UNCHANGED <<setBanned, netOffline>>
    PROVE  MarkedInv'
<1>1. /\ node \in [NodeId -> NodeType] /\ vNodes \subseteq NodeId /\ lastId' = lastId + 1
      /\ vNodes' = vNodes \cup {lastId'}
      /\ node' = [node EXCEPT ![lastId'] = NewNode(a, inbound)]
      /\ slipped' = IF a \in setBanned \/ netOffline # "no" THEN slipped \cup {lastId'} ELSE slipped
  BY NodesAreIds DEF AddNode, NetworkInv, NetworkTypeOK
<1>2. lastId' \in NodeId /\ lastId' \notin vNodes
  BY <1>1, NodesAreIds DEF NetworkInv, NetworkTypeOK
<1>3. node'[lastId'].addr = a /\ \A n \in vNodes : node'[n] = node[n]
  BY <1>1, <1>2 DEF NewNode
<1> QED  BY <1>1, <1>2, <1>3 DEF MarkedInv, Unwanted

\* A ban marks every connection to the address, unless they are marked.
LEMMA MarksOfBan ==
    ASSUME MarkedInv, NEW a, NEW nodes \in [NodeId -> NodeType], Ban(a, nodes),
           vNodes \subseteq NodeId, UNCHANGED <<vNodes, slipped, netOffline>>,
           \A n \in NodeId : nodes[n].addr = node[n].addr /\ (node[n].disconnect => nodes[n].disconnect)
    PROVE  MarkedInv'
<1>1. CASE setBanned' = setBanned /\ node' = nodes
  <2>1. KeepsMarks
    BY <1>1 DEF KeepsMarks
  <2> QED  BY <2>1, MarksKept
<1>2. CASE /\ setBanned' = setBanned \cup {a}
           /\ node' = [n \in NodeId |->
                 IF n \in vNodes /\ node[n].addr = a
                 THEN [nodes[n] EXCEPT !.disconnect = TRUE] ELSE nodes[n]]
  <2>1. \A n \in NodeId :
           LET q == [nodes[n] EXCEPT !.disconnect = TRUE]
           IN q.disconnect /\ q.addr = nodes[n].addr
    BY DEF NodeType
  <2>2. \A n \in vNodes : /\ node'[n].addr = node[n].addr
                          /\ node[n].disconnect => node'[n].disconnect
                          /\ node[n].addr = a => node'[n].disconnect
    BY <1>2, <2>1
  <2> QED  BY <1>2, <2>2 DEF MarkedInv, Unwanted
<1> QED  BY <1>1, <1>2 DEF Ban

LEMMA MarksOfBanSteps ==
    ASSUME NetworkInv, MarkedInv,
           (\E n \in NodeId : SendMessages(n)) \/ (\E a \in Addr : BanAddress(a)) \/ GoOffline
    PROVE  MarkedInv'
<1>1. node \in [NodeId -> NodeType] /\ vNodes \subseteq NodeId
  BY NodesAreIds DEF NetworkInv, NetworkTypeOK
<1>2. ASSUME NEW n \in NodeId, SendMessages(n) PROVE MarkedInv'
  <2> DEFINE q == [node[n] EXCEPT !.shouldBan = FALSE, !.disconnect = TRUE]
             s == [node[n] EXCEPT !.shouldBan = FALSE, !.spared = TRUE]
             nodes == [node EXCEPT ![n] = q]
  <2>1. /\ q \in NodeType /\ q.addr = node[n].addr /\ q.disconnect
        /\ s.addr = node[n].addr /\ s.disconnect = node[n].disconnect
    BY <1>1 DEF NodeType
  <2>2. /\ \/ UNCHANGED <<node, setBanned>>
           \/ node' = [node EXCEPT ![n] = s] /\ UNCHANGED setBanned
           \/ Ban(node[n].addr, nodes)
        /\ UNCHANGED <<vNodes, slipped, netOffline>>
    BY <1>1, <1>2 DEF SendMessages, table
  <2> HIDE DEF q, s
  <2>3. /\ nodes \in [NodeId -> NodeType]
        /\ \A k \in NodeId : nodes[k].addr = node[k].addr /\ (node[k].disconnect => nodes[k].disconnect)
    BY <1>1, <2>1
  <2>4. CASE UNCHANGED <<node, setBanned>> \/ (node' = [node EXCEPT ![n] = s] /\ UNCHANGED setBanned)
    <3>1. KeepsMarks
      BY <1>1, <2>1, <2>2, <2>4 DEF KeepsMarks
    <3> QED  BY <3>1, MarksKept
  <2>5. CASE Ban(node[n].addr, nodes)
    <3> HIDE DEF nodes
    <3> QED  BY <1>1, <2>2, <2>3, <2>5, MarksOfBan
  <2> QED  BY <2>2, <2>4, <2>5
<1>3. ASSUME NEW a \in Addr, BanAddress(a) PROVE MarkedInv'
  BY <1>1, <1>3, MarksOfBan DEF BanAddress, table
<1>4. CASE GoOffline
  <2>1. \A n \in vNodes : node'[n].disconnect
    BY <1>1, <1>4 DEF GoOffline, NodeType
  <2> QED  BY <1>4, <2>1 DEF GoOffline, table, MarkedInv
<1> QED  BY <1>2, <1>3, <1>4

\* A peer that is banned, or any peer once the node is off line, is on its way
\* out unless it slipped in (CNode::Ban, setOnlineStatus, the checks of
\* OpenNetworkConnection and of the listener).
THEOREM UnwantedAreMarked == Spec => []UnwantedLeave
<1>1. Init => MarkedInv
  BY DEF Init, MarkedInv
<1>2. ASSUME NetworkInv, NetworkInv', MarkedInv, [Next]_vars PROVE MarkedInv'
  <2>1. ASSUME NEW a \in Addr, SocketAccept(a) PROVE MarkedInv'
    BY <1>2, <2>1, MarksOfNewNode DEF SocketAccept
  <2>2. ASSUME NEW d \in Dialer, DialAdds(d) PROVE MarkedInv'
    BY <1>2, <2>2, MarksOfNewNode DEF DialAdds
  <2> QED
    BY <1>2, <2>1, <2>2, MarksOfFieldSteps, MarksOfDisconnect, MarksOfBanSteps
       DEF Next, SocketNext, MessageNext, DialNext
<1>3. MarkedInv => UnwantedLeave
  BY DEF MarkedInv, Unwanted, UnwantedLeave
<1> QED  BY <1>1, <1>2, <1>3, NetworkInvariant, PTL DEF Spec
=============================================================================
