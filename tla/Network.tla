------------------------------ MODULE Network ------------------------------
(***************************************************************************)
(* The connections of a node (src/net.cpp) and the misbehaviour of its     *)
(* peers (src/main.cpp, Misbehaving and SendMessages).                     *)
(*                                                                         *)
(* Four kinds of thread share vNodes: the socket handler, which accepts,   *)
(* reads and hangs up, and alone deletes nodes; the message handler; the   *)
(* threads that dial; and the one that bans or takes the node off line.    *)
(* The first two copy vNodes under its lock and then use the copy without  *)
(* it, counting a reference for each node of the copy.  A thread that      *)
(* dials, or accepts, checks the address first and adds the node later.    *)
(*                                                                         *)
(* A node is a number, given in order of creation.  What it is sent and    *)
(* sends is reduced to what changes a connection.                          *)
(***************************************************************************)
EXTENDS Integers, FiniteSets

CONSTANTS
    Addr,          \* addresses of peers
    Dialer,        \* ThreadOpenConnections2, ThreadOpenAddedConnections2
    MaxOutbound,   \* the slots of semOutbound
    MaxInbound,    \* -maxconnections less MAX_OUTBOUND_CONNECTIONS
    BanScore,      \* -banscore
    Penalty,       \* the arguments of Misbehaving
    MaxNodes,      \* bound on the connections ever made
    MaxCommands    \* bound on bans by command, lifted, and stops of the network

ASSUME NetworkAssumption ==
    /\ MaxOutbound \in Nat /\ MaxInbound \in Nat /\ MaxNodes \in Nat /\ MaxCommands \in Nat
    /\ BanScore \in Nat \ {0} /\ Penalty \subseteq Nat \ {0}
    /\ IsFiniteSet(Dialer)

VARIABLES
    node,           \* the CNode objects, by number
    lastId,
    vNodes,
    vNodesDisconnected,
    mapNodeState,   \* the nodes that have an entry
    semOutbound,    \* free slots
    socket,         \* the socket handler: what it does next, its copy
    message,        \* the message handler: its copy, and those left to serve
    dial,           \* for each dialer, what it does and with whom
    setBanned,
    netOffline,     \* "no", "going", "yes"
    slipped,        \* history: added after a ban or a stop that came late
    early,          \* history: hung up before their dialer was done with them
    commands        \* counter, bounded

table == <<vNodes, vNodesDisconnected, mapNodeState>>
threads == <<socket, message, dial>>
vars == <<node, lastId, table, semOutbound, threads, setBanned, netOffline,
          slipped, early, commands>>

NodeId == 1..MaxNodes
None == [at |-> "idle", addr |-> "none", id |-> 0]

\* CNode::CNode, with the reference of ConnectNode or of the listener.
NewNode(a, inbound) ==
    [addr |-> a, inbound |-> inbound, network |-> FALSE, grant |-> FALSE,
     disconnect |-> FALSE, refs |-> 1,
     version |-> FALSE, score |-> 0, shouldBan |-> FALSE, spared |-> FALSE]

NoNode == NewNode("none", FALSE)

Init ==
    /\ node = [n \in NodeId |-> NoNode] /\ lastId = 0
    /\ vNodes = {} /\ vNodesDisconnected = {} /\ mapNodeState = {}
    /\ semOutbound = MaxOutbound
    /\ socket = [at |-> "disconnect", copy |-> {}]
    /\ message = [copy |-> {}, left |-> {}]
    /\ dial = [d \in Dialer |-> None]
    /\ setBanned = {} /\ netOffline = "no"
    /\ slipped = {} /\ early = {} /\ commands = 0

Existing == vNodes \cup vNodesDisconnected
AddRef(ns) == [n \in NodeId |-> IF n \in ns THEN [node[n] EXCEPT !.refs = @ + 1] ELSE node[n]]
Release(ns) == [n \in NodeId |-> IF n \in ns THEN [node[n] EXCEPT !.refs = @ - 1] ELSE node[n]]

\* A new node enters mapNodeState and vNodes.
AddNode(a, inbound) ==
    /\ lastId' = lastId + 1
    /\ node' = [node EXCEPT ![lastId'] = NewNode(a, inbound)]
    /\ vNodes' = vNodes \cup {lastId'}
    /\ mapNodeState' = mapNodeState \cup {lastId'}
    /\ slipped' = IF a \in setBanned \/ netOffline # "no" THEN slipped \cup {lastId'} ELSE slipped

-----------------------------------------------------------------------------
(***************************************************************************)
(* ThreadSocketHandler2.                                                   *)
(***************************************************************************)

\* Mutant: nodes in use are deleted.
Deletable_InUse == vNodesDisconnected

\* "Wait until threads are done using it".
Deletable == {n \in vNodesDisconnected : node[n].refs <= 0}

\* The slot and the socket are released, and the reference of a node that its
\* dialer has marked.
HungUp(n) ==
    [node[n] EXCEPT !.disconnect = TRUE, !.grant = FALSE,
                    !.refs = IF node[n].network \/ node[n].inbound THEN @ - 1 ELSE @]

\* A node is deleted 15 minutes and more after it was disconnected, when the
\* locks of its queues are free: any of those without a reference.
SocketDisconnect ==
    /\ socket.at = "disconnect"
    /\ LET gone == {n \in vNodes : node[n].disconnect \/ node[n].refs <= 0}
           Freed(dead) == {n \in gone : node[n].grant /\ ~HungUp(n).grant}
                          \cup {n \in dead : node[n].grant}
       IN \E dead \in SUBSET Deletable :
            /\ node' = [n \in NodeId |-> IF n \in gone THEN HungUp(n)
                                         ELSE IF n \in dead THEN NoNode ELSE node[n]]
            /\ vNodes' = vNodes \ gone
            /\ vNodesDisconnected' = (vNodesDisconnected \ dead) \cup gone
            /\ mapNodeState' = mapNodeState \ dead
            /\ semOutbound' = semOutbound + Cardinality(Freed(dead))
            /\ early' = early \cup {n \in gone : ~node[n].network /\ ~node[n].inbound}
            /\ slipped' = slipped \ gone
    /\ socket' = [socket EXCEPT !.at = "accept"]
    /\ UNCHANGED <<lastId, message, dial, setBanned, netOffline, commands>>

\* Bound: there is a number for every node on its way.
Room == lastId + Cardinality({d \in Dialer : dial[d].at = "connecting"}) < MaxNodes

Inbound == {n \in vNodes : node[n].inbound}

\* The address is not banned when the connection is accepted; it is taken to
\* be so still when the node enters vNodes, right after.
SocketAccept(a) ==
    /\ socket.at = "accept"
    /\ netOffline # "yes" /\ a \notin setBanned
    /\ Cardinality(Inbound) < MaxInbound /\ Room
    /\ AddNode(a, TRUE)
    /\ socket' = [socket EXCEPT !.at = "copy"]
    /\ UNCHANGED <<vNodesDisconnected, semOutbound, message, dial, setBanned, netOffline,
                   early, commands>>

\* Nobody knocked, or was refused; then the copy.
SocketCopy ==
    /\ socket.at \in {"accept", "copy"}
    /\ node' = AddRef(vNodes)
    /\ socket' = [socket EXCEPT !.at = "serve", !.copy = vNodes]
    /\ UNCHANGED <<lastId, table, semOutbound, message, dial, setBanned, netOffline,
                   slipped, early, commands>>

\* The peer closed, an error, too much received, or inactivity.
SocketCloses(n) ==
    /\ socket.at = "serve" /\ n \in socket.copy
    /\ ~node[n].disconnect
    /\ node' = [node EXCEPT ![n].disconnect = TRUE]
    /\ UNCHANGED <<lastId, table, semOutbound, threads, setBanned, netOffline,
                   slipped, early, commands>>

\* Mutant: the nodes now connected are released, not those of the copy.
SocketRelease_Current ==
    /\ socket.at = "serve"
    /\ node' = Release(vNodes)
    /\ socket' = [socket EXCEPT !.at = "disconnect", !.copy = {}]
    /\ UNCHANGED <<lastId, table, semOutbound, message, dial, setBanned, netOffline,
                   slipped, early, commands>>

SocketRelease ==
    /\ socket.at = "serve"
    /\ node' = Release(socket.copy)
    /\ socket' = [socket EXCEPT !.at = "disconnect", !.copy = {}]
    /\ UNCHANGED <<lastId, table, semOutbound, message, dial, setBanned, netOffline,
                   slipped, early, commands>>

-----------------------------------------------------------------------------
(***************************************************************************)
(* Dialing: the slot, the checks of OpenNetworkConnection, the connection, *)
(* and what is done with the node after ConnectNode has put it in vNodes.  *)
(***************************************************************************)

MayDial(a) == netOffline # "yes" /\ a \notin setBanned /\ \A n \in vNodes : node[n].addr # a

DialConnects(d, a) ==
    /\ dial[d].at = "idle" /\ semOutbound > 0
    /\ MayDial(a) /\ Room
    /\ semOutbound' = semOutbound - 1
    /\ dial' = [dial EXCEPT ![d] = [at |-> "connecting", addr |-> a, id |-> 0]]
    /\ UNCHANGED <<node, lastId, table, socket, message, setBanned, netOffline,
                   slipped, early, commands>>

\* No answer: the grant's destructor releases it.
DialFails(d) ==
    /\ dial[d].at = "connecting"
    /\ dial' = [dial EXCEPT ![d] = None]
    /\ semOutbound' = semOutbound + 1
    /\ UNCHANGED <<node, lastId, table, socket, message, setBanned, netOffline,
                   slipped, early, commands>>

DialAdds(d) ==
    /\ dial[d].at = "connecting"
    /\ AddNode(dial[d].addr, FALSE)
    /\ dial' = [dial EXCEPT ![d] = [at |-> "connected", addr |-> "none", id |-> lastId']]
    /\ UNCHANGED <<vNodesDisconnected, semOutbound, socket, message, setBanned, netOffline,
                   early, commands>>

\* MoveTo and fNetworkNode.
DialEnds(d) ==
    /\ dial[d].at = "connected"
    /\ node' = [node EXCEPT ![dial[d].id].grant = TRUE, ![dial[d].id].network = TRUE]
    /\ dial' = [dial EXCEPT ![d] = None]
    /\ UNCHANGED <<lastId, table, semOutbound, socket, message, setBanned, netOffline,
                   slipped, early, commands>>

-----------------------------------------------------------------------------
(***************************************************************************)
(* ThreadMessageHandler2.                                                  *)
(***************************************************************************)

MessageCopy ==
    /\ message.copy = {} /\ vNodes # {}
    /\ netOffline # "yes"
    /\ node' = AddRef(vNodes)
    /\ message' = [copy |-> vNodes, left |-> vNodes]
    /\ UNCHANGED <<lastId, table, semOutbound, socket, dial, setBanned, netOffline,
                   slipped, early, commands>>

\* The copy is gone through in the order of vNodes.
Serving(n) == n \in message.left /\ \A m \in message.left : n <= m

\* ProcessMessages: a version is accepted, or ends the connection; Misbehaving
\* marks the node when its score passes the limit, and only then.
ProcessVersion(n) ==
    /\ Serving(n) /\ ~node[n].version
    /\ \/ node' = [node EXCEPT ![n].version = TRUE]
       \/ ~node[n].disconnect /\ node' = [node EXCEPT ![n].disconnect = TRUE]
    /\ UNCHANGED <<lastId, table, semOutbound, threads, setBanned, netOffline,
                   slipped, early, commands>>

\* Mutant: the score must meet the limit exactly.
Misbehaving_Exact(n, howmuch) ==
    /\ Serving(n)
    /\ node[n].score < BanScore
    /\ n \in mapNodeState
    /\ node' = [node EXCEPT ![n].score = @ + howmuch,
                            ![n].shouldBan = @ \/ node[n].score + howmuch = BanScore]
    /\ UNCHANGED <<lastId, table, semOutbound, threads, setBanned, netOffline,
                   slipped, early, commands>>

Misbehaving(n, howmuch) ==
    /\ Serving(n)
    /\ node[n].score < BanScore    \* bound: the limit is passed once
    /\ n \in mapNodeState
    /\ node' = [node EXCEPT ![n].score = @ + howmuch,
                            ![n].shouldBan = @ \/ node[n].score + howmuch >= BanScore]
    /\ UNCHANGED <<lastId, table, semOutbound, threads, setBanned, netOffline,
                   slipped, early, commands>>

\* Mutant: the address is listed, its connections stay.
Ban_ListOnly(a, nodes) == setBanned' = setBanned \cup {a} /\ node' = nodes

\* CNode::Ban: every connection to the address is marked, unless a ban as
\* long stands.
Ban(a, nodes) ==
    \/ a \in setBanned /\ node' = nodes /\ UNCHANGED setBanned
    \/ /\ setBanned' = setBanned \cup {a}
       /\ node' = [n \in NodeId |->
             IF n \in vNodes /\ node[n].addr = a
             THEN [nodes[n] EXCEPT !.disconnect = TRUE] ELSE nodes[n]]

\* SendMessages: with cs_main and after the version, the marked node is
\* disconnected and banned.  fWhitelisted, which is read here and never
\* assigned, is what the memory held.
SendMessages(n) ==
    /\ Serving(n)
    /\ message' = [message EXCEPT !.left = @ \ {n}]
    /\ IF ~node[n].version \/ ~node[n].shouldBan THEN UNCHANGED <<node, setBanned>>
       ELSE \/ /\ node' = [node EXCEPT ![n].shouldBan = FALSE, ![n].spared = TRUE]
               /\ UNCHANGED setBanned
            \/ Ban(node[n].addr, [node EXCEPT ![n].shouldBan = FALSE, ![n].disconnect = TRUE])
    /\ UNCHANGED <<lastId, table, semOutbound, socket, dial, netOffline,
                   slipped, early, commands>>

\* cs_main is not to be had, or the node has gone off line: the next one.
SkipNode(n) ==
    /\ Serving(n)
    /\ message' = [message EXCEPT !.left = @ \ {n}]
    /\ UNCHANGED <<node, lastId, table, semOutbound, socket, dial, setBanned, netOffline,
                   slipped, early, commands>>

MessageRelease ==
    /\ message.copy # {} /\ message.left = {}
    /\ node' = Release(message.copy)
    /\ message' = [copy |-> {}, left |-> {}]
    /\ UNCHANGED <<lastId, table, semOutbound, socket, dial, setBanned, netOffline,
                   slipped, early, commands>>

-----------------------------------------------------------------------------
(***************************************************************************)
(* The ban list and the network switch.                                    *)
(***************************************************************************)

\* By hand, one of the connected peers.
BanAddress(a) ==
    /\ commands < MaxCommands
    /\ \E n \in vNodes : node[n].addr = a
    /\ Ban(a, node)
    /\ commands' = commands + 1
    /\ UNCHANGED <<lastId, table, semOutbound, threads, netOffline, slipped, early>>

\* Unban, or SweepBanned.
Unban(a) ==
    /\ commands < MaxCommands /\ a \in setBanned
    /\ setBanned' = setBanned \ {a}
    /\ commands' = commands + 1
    /\ UNCHANGED <<node, lastId, table, semOutbound, threads, netOffline, slipped, early>>

\* setOnlineStatus(false): the nodes are marked under cs_vNodes, the flag is
\* set after.
GoOffline ==
    /\ commands < MaxCommands /\ netOffline = "no"
    /\ netOffline' = "going"
    /\ node' = [n \in NodeId |->
          IF n \in vNodes THEN [node[n] EXCEPT !.disconnect = TRUE] ELSE node[n]]
    /\ commands' = commands + 1
    /\ UNCHANGED <<lastId, table, semOutbound, threads, setBanned, slipped, early>>

SetOnlineStatus ==
    /\ \/ netOffline = "going" /\ netOffline' = "yes"
       \/ netOffline = "yes" /\ netOffline' = "no"
    /\ UNCHANGED <<node, lastId, table, semOutbound, threads, setBanned, slipped, early, commands>>

SocketNext ==
    \/ SocketDisconnect \/ SocketCopy \/ SocketRelease
    \/ \E a \in Addr : SocketAccept(a)
    \/ \E n \in NodeId : SocketCloses(n)

DialNext(d) ==
    DialFails(d) \/ DialAdds(d) \/ DialEnds(d) \/ \E a \in Addr : DialConnects(d, a)

MessageNext ==
    \/ MessageCopy \/ MessageRelease
    \/ \E n \in NodeId :
          \/ ProcessVersion(n) \/ SendMessages(n) \/ SkipNode(n)
          \/ \E howmuch \in Penalty : Misbehaving(n, howmuch)

Next ==
    \/ SocketNext \/ MessageNext
    \/ \E d \in Dialer : DialNext(d)
    \/ \E a \in Addr : BanAddress(a) \/ Unban(a)
    \/ GoOffline \/ SetOnlineStatus

Spec == Init /\ [][Next]_vars

SocketTurn == SocketDisconnect \/ SocketCopy \/ SocketRelease
MessageTurn == MessageCopy \/ MessageRelease

\* The two handlers run on; cs_main is free now and then when SendMessages
\* tries it.
Fairness ==
    /\ WF_vars(SocketTurn) /\ WF_vars(MessageTurn)
    /\ \A n \in NodeId : SF_vars(SendMessages(n))

FairSpec == Spec /\ Fairness

-----------------------------------------------------------------------------
(***************************************************************************)
(* Properties.                                                             *)
(***************************************************************************)

\* "Wait until threads are done using it" (net.cpp): no thread holds a node
\* that the socket handler has deleted, and State(GetId()), which the message
\* handler follows without a test, finds an entry for each of its nodes.
UsedNodesExist ==
    \A n \in socket.copy \cup message.copy \cup ({dial[d].id : d \in Dialer} \ {0}) :
        n \in Existing \cap mapNodeState

Counted(p) == IF p THEN 1 ELSE 0

\* The references of a node are the copies it is in, and one while it is
\* connected: without a use it has none after it was disconnected and is
\* deleted in time.  The slots of semOutbound are free, with a thread that
\* dials, or with a connection: none is lost or taken twice.  A node hung up
\* before its dialer had marked it keeps its reference and its slot for good.
RefsAndSlotsAreUses ==
    /\ \A n \in Existing :
          /\ node[n].refs = Counted(n \in socket.copy) + Counted(n \in message.copy)
                            + Counted(n \in vNodes \cup early)
          /\ node[n].grant => n \in vNodes \cup early
    /\ semOutbound + Cardinality({d \in Dialer : dial[d].at # "idle"})
          + Cardinality({n \in Existing : node[n].grant}) = MaxOutbound

\* A peer that is banned, and any peer of a node that is off line, is
\* connected only until the next turn of the socket handler, unless the ban
\* or the switch fell between the check of its address and its entry.
UnwantedLeave ==
    \A n \in vNodes :
        node[n].addr \in setBanned \/ netOffline = "yes" => node[n].disconnect \/ n \in slipped

\* A peer whose misbehaviour has reached -banscore, by whatever steps, and
\* which has sent its version, is disconnected.
MisbehavingLeaves ==
    \A n \in NodeId :
        (n \in vNodes /\ node[n].score >= BanScore /\ node[n].version)
            ~> (n \notin vNodes \/ node[n].spared \/ netOffline # "no")
=============================================================================
