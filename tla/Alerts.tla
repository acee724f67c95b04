------------------------------- MODULE Alerts -------------------------------
(***************************************************************************)
(* Alerts and PALADIN rules across the nodes: the authority's sendrule and *)
(* sendalert (src/rpcnet.cpp), ProcessAlert, RelayTo and getNextID         *)
(* (src/alert.cpp), CRules::insert and rules.dat (src/rules.cpp, rules.h,  *)
(* db.cpp), and the parts of the "version" and "alert" messages that carry *)
(* them (src/main.cpp).                                                    *)
(*                                                                         *)
(* A rule is a permanent alert of priority 999 whose text is the rule; a   *)
(* notice is an ordinary alert, which expires and may cancel others.  An   *)
(* alert is identified by its hash, here the alert itself; its nID is      *)
(* chosen when it is sent.  Signatures, versions and texts are left out,   *)
(* all nodes being of one version, and all clocks agree.  Penalties are    *)
(* left out: they never reach the ban score on these instances.            *)
(***************************************************************************)
EXTENDS Integers, Sequences, FiniteSets

CONSTANTS
    Node,
    Dials,       \* the outbound connections: pairs of a node and its peer
    Sender,      \* the nodes where the alert key is used
    Rule,        \* permanent alerts
    Notice,      \* ordinary alerts
    CancelUpTo,  \* nCancel of each notice
    Version,     \* the "version" message
    MaxLosses    \* bound: connections lost and nodes crashed

ASSUME AlertsAssumption ==
    /\ Dials \subseteq Node \X Node
    /\ \A n, p \in Node : <<n, p>> \in Dials => n # p /\ <<p, n>> \notin Dials
    /\ Sender \subseteq Node
    /\ Rule \cap Notice = {}
    /\ IsFiniteSet(Rule \cup Notice)
    /\ CancelUpTo \in [Notice -> Nat]
    /\ Version \notin Rule \cup Notice
    /\ MaxLosses \in Nat

Alert == Rule \cup Notice

\* The ends of the connections: <<n, p>> is the CNode that n keeps of p.
Link == Dials \cup {<<d[2], d[1]>> : d \in Dials}

Back(l) == <<l[2], l[1]>>

VARIABLES
    nID,         \* of each alert, 0 until it is sent
    expired,     \* notices past their nExpiration
    mapAlerts,   \* the alerts each node holds (mapAlertsById has the same)
    mapRules,    \* the rules each node applies
    rulesDat,    \* rules.dat of each node
    toLoad,      \* the rules of rules.dat a starting node has still to read
    vNodes,      \* the links that exist
    gotVersion,  \* those whose peer has told its version
    setKnown,    \* the alerts the peer of a link is taken to have
    chan,        \* what has been sent on a link and not been received
    losses       \* connections lost and nodes crashed so far

vars == <<nID, expired, mapAlerts, mapRules, rulesDat, toLoad, vNodes, gotVersion,
          setKnown, chan, losses>>

network == <<vNodes, gotVersion, setKnown, chan>>

AlertsTypeOK ==
    /\ nID \in [Alert -> Nat]
    /\ expired \subseteq Notice
    /\ mapAlerts \in [Node -> SUBSET Alert]
    /\ mapRules \in [Node -> SUBSET Rule]
    /\ rulesDat \in [Node -> SUBSET Rule]
    /\ toLoad \in [Node -> SUBSET Rule]
    /\ vNodes \subseteq Link
    /\ gotVersion \subseteq vNodes
    /\ setKnown \in [Link -> SUBSET Alert]
    /\ chan \in [Link -> Seq(Alert \cup {Version})]
    /\ losses \in 0 .. MaxLosses

Init ==
    /\ nID = [a \in Alert |-> 0]
    /\ expired = {}
    /\ mapAlerts = [n \in Node |-> {}]
    /\ mapRules = [n \in Node |-> {}]
    /\ rulesDat = [n \in Node |-> {}]
    /\ toLoad = [n \in Node |-> {}]
    /\ vNodes = {}
    /\ gotVersion = {}
    /\ setKnown = [l \in Link |-> {}]
    /\ chan = [l \in Link |-> << >>]
    /\ losses = 0

\* rules.dat is read before the node opens or accepts a connection.
Running(n) == toLoad[n] = {}

-----------------------------------------------------------------------------
\* Mutant: a permanent alert is cancelled like any other.
Cancels_Permanent(id, a, b) ==
    a \in Notice \ expired /\ id[b] <= CancelUpTo[a]

\* CAlert::Cancels, with the nIDs of id; a rule has nCancel 0 and is never
\* cancelled.
Cancels(id, a, b) ==
    a \in Notice \ expired /\ b \notin Rule /\ id[b] <= CancelUpTo[a]

SameID(id, held, a) == \E b \in held : id[b] = id[a]

\* What the first loop of ProcessAlert(a) erases among the alerts held.
Superseded(id, held, a) == {b \in held : Cancels(id, a, b) \/ b \in expired}

Accepts(id, held, a) ==
    /\ a \notin expired
    /\ ~SameID(id, held, a)
    /\ \A b \in held \ Superseded(id, held, a) : ~Cancels(id, b, a)

(***************************************************************************)
(* ProcessAlert(a) returns false and leaves the alerts held as left: an    *)
(* alert with the same nID ends the loop, which goes in the order of the   *)
(* hashes, so that any of those to be erased may have been erased before.  *)
(***************************************************************************)
Refuses(id, held, a, left) ==
    \/ a \in expired /\ left = held
    \/ /\ a \notin expired /\ SameID(id, held, a)
       /\ \E S \in SUBSET Superseded(id, held, a) :
             (\A b \in S : id[b] # id[a]) /\ left = held \ S
    \/ /\ ~Accepts(id, held, a) /\ a \notin expired /\ ~SameID(id, held, a)
       /\ left = held \ Superseded(id, held, a)

\* CRules::insert, called by AppliesToMe: the first rule with an ID stays, and
\* rules.dat is written with the rules there are.
InsertRule(id, n, a) ==
    LET new == {r \in {a} \cap Rule : ~SameID(id, mapRules[n], r)}
    IN  /\ mapRules' = [mapRules EXCEPT ![n] = @ \cup new]
        /\ rulesDat' = [rulesDat EXCEPT ![n] = IF new = {} THEN @ ELSE mapRules[n] \cup new]

\* ProcessAlert(a) returns true.
AddAlert(id, n, a) ==
    /\ Accepts(id, mapAlerts[n], a)
    /\ mapAlerts' = [mapAlerts EXCEPT ![n] = (@ \ Superseded(id, @, a)) \cup {a}]
    /\ InsertRule(id, n, a)

\* The links of n on which RelayTo pushes a, known being the links' setKnown.
RelayedOn(n, a, known) == {l \in vNodes : l[1] = n /\ a \notin known[l]}

Relay(n, a, known, queues) ==
    /\ setKnown' = [l \in Link |-> IF l \in RelayedOn(n, a, known) THEN known[l] \cup {a} ELSE known[l]]
    /\ chan' = [l \in Link |-> IF l \in RelayedOn(n, a, known) THEN Append(queues[l], a) ELSE queues[l]]

-----------------------------------------------------------------------------
\* getNextID: the least ID that no alert held has.
NextID(n) ==
    CHOOSE i \in 1 .. Cardinality(Alert) + 1 :
       /\ \A b \in mapAlerts[n] : nID[b] # i
       /\ \A j \in 1 .. i - 1 : \E b \in mapAlerts[n] : nID[b] = j

\* sendrule and sendalert: processed here, then relayed to every peer.
SendAlert(n, a) ==
    /\ n \in Sender /\ Running(n)
    /\ nID[a] = 0
    /\ nID' = [nID EXCEPT ![a] = NextID(n)]
    /\ AddAlert(nID', n, a)
    /\ Relay(n, a, setKnown, chan)
    /\ UNCHANGED <<expired, toLoad, vNodes, gotVersion, losses>>

\* ... or "Failed to process alert".
SendFails(n, a) ==
    /\ n \in Sender /\ Running(n)
    /\ nID[a] = 0
    /\ LET id == [nID EXCEPT ![a] = NextID(n)]
       IN  \E left \in SUBSET mapAlerts[n] :
              /\ Refuses(id, mapAlerts[n], a, left)
              /\ mapAlerts' = [mapAlerts EXCEPT ![n] = left]
    /\ UNCHANGED <<nID, expired, mapRules, rulesDat, toLoad, network, losses>>

\* A notice that has been sent runs out.
Expire(a) ==
    /\ a \in Notice \ expired /\ nID[a] # 0
    /\ expired' = expired \cup {a}
    /\ UNCHANGED <<nID, mapAlerts, mapRules, rulesDat, toLoad, network, losses>>

\* ProcessAlerts, which a thread of the node calls every hundred seconds.
ProcessAlerts(n) ==
    /\ mapAlerts[n] \cap expired # {}
    /\ mapAlerts' = [mapAlerts EXCEPT ![n] = @ \ expired]
    /\ UNCHANGED <<nID, expired, mapRules, rulesDat, toLoad, network, losses>>

-----------------------------------------------------------------------------
\* A node dials another: its CNode sends the version from the constructor.
Connect(d) ==
    /\ d \in Dials \ vNodes
    /\ Running(d[1]) /\ Running(d[2])
    /\ vNodes' = vNodes \cup {d, Back(d)}
    /\ chan' = [chan EXCEPT ![d] = <<Version>>]
    /\ UNCHANGED <<nID, expired, mapAlerts, mapRules, rulesDat, toLoad, gotVersion, setKnown, losses>>

\* The links L are gone, with their CNodes and what was sent on them.
Drop(L) ==
    /\ vNodes' = vNodes \ L
    /\ gotVersion' = gotVersion \ L
    /\ setKnown' = [l \in Link |-> IF l \in L THEN {} ELSE setKnown[l]]
    /\ chan' = [l \in Link |-> IF l \in L THEN << >> ELSE chan[l]]
    /\ losses < MaxLosses
    /\ losses' = losses + 1

Disconnect(d) ==
    /\ d \in Dials \cap vNodes
    /\ Drop({d, Back(d)})
    /\ UNCHANGED <<nID, expired, mapAlerts, mapRules, rulesDat, toLoad>>

\* Mutant: the alerts held are not relayed to the new peer.
ReceiveVersion_NoAlerts(l) ==
    /\ chan[Back(l)] # << >> /\ Head(chan[Back(l)]) = Version
    /\ gotVersion' = gotVersion \cup {l}
    /\ chan' = [chan EXCEPT ![Back(l)] = Tail(@),
                            ![l] = @ \o (IF l \in Dials THEN << >> ELSE <<Version>>)]
    /\ UNCHANGED <<nID, expired, mapAlerts, mapRules, rulesDat, toLoad, vNodes, setKnown, losses>>

\* The "version" message: an inbound peer is told ours, and any peer the
\* alerts in effect, in the order of their hashes.
ReceiveVersion(l) ==
    /\ chan[Back(l)] # << >> /\ Head(chan[Back(l)]) = Version
    /\ gotVersion' = gotVersion \cup {l}
    /\ LET offered == mapAlerts[l[1]] \ (expired \cup setKnown[l])
       IN  \E order \in [1 .. Cardinality(offered) -> offered] :
              /\ \A a \in offered : \E i \in DOMAIN order : order[i] = a
              /\ setKnown' = [setKnown EXCEPT ![l] = @ \cup offered]
              /\ chan' = [chan EXCEPT ![Back(l)] = Tail(@),
                             ![l] = @ \o (IF l \in Dials THEN << >> ELSE <<Version>>) \o order]
    /\ UNCHANGED <<nID, expired, mapAlerts, mapRules, rulesDat, toLoad, vNodes, losses>>

\* The "alert" message: an alert not known of the peer is processed, and
\* relayed when it is accepted ...
ReceiveAlert(l, a) ==
    /\ chan[Back(l)] # << >> /\ Head(chan[Back(l)]) = a
    /\ l \in gotVersion
    /\ a \notin setKnown[l]
    /\ AddAlert(nID, l[1], a)
    /\ Relay(l[1], a, [setKnown EXCEPT ![l] = @ \cup {a}], [chan EXCEPT ![Back(l)] = Tail(@)])
    /\ UNCHANGED <<nID, expired, toLoad, vNodes, gotVersion, losses>>

\* ... refused, and nothing remembered of the peer ...
RefuseAlert(l, a) ==
    /\ chan[Back(l)] # << >> /\ Head(chan[Back(l)]) = a
    /\ l \in gotVersion
    /\ a \notin setKnown[l]
    /\ \E left \in SUBSET mapAlerts[l[1]] :
          /\ Refuses(nID, mapAlerts[l[1]], a, left)
          /\ mapAlerts' = [mapAlerts EXCEPT ![l[1]] = left]
    /\ chan' = [chan EXCEPT ![Back(l)] = Tail(@)]
    /\ UNCHANGED <<nID, expired, mapRules, rulesDat, toLoad, vNodes, gotVersion, setKnown, losses>>

\* ... and passed over when it is known, or when it comes before the version.
IgnoreAlert(l, a) ==
    /\ chan[Back(l)] # << >> /\ Head(chan[Back(l)]) = a
    /\ l \notin gotVersion \/ a \in setKnown[l]
    /\ chan' = [chan EXCEPT ![Back(l)] = Tail(@)]
    /\ UNCHANGED <<nID, expired, mapAlerts, mapRules, rulesDat, toLoad, vNodes, gotVersion,
                   setKnown, losses>>

-----------------------------------------------------------------------------
\* A node dies and is started again: it is to read the rules of rules.dat.
Crash(n) ==
    /\ Drop({l \in Link : n \in {l[1], l[2]}})
    /\ mapAlerts' = [mapAlerts EXCEPT ![n] = {}]
    /\ mapRules' = [mapRules EXCEPT ![n] = {}]
    /\ toLoad' = [toLoad EXCEPT ![n] = rulesDat[n]]
    /\ UNCHANGED <<nID, expired, rulesDat>>

\* Mutant: a rule that is read is not held as an alert.
LoadRule_NoAlert(n, r) ==
    /\ r \in toLoad[n]
    /\ \A q \in toLoad[n] : nID[r] <= nID[q]
    /\ InsertRule(nID, n, r)
    /\ toLoad' = [toLoad EXCEPT ![n] = @ \ {r}]
    /\ UNCHANGED <<nID, expired, mapAlerts, network, losses>>

\* The next rule of rules.dat, in the order of their IDs, is processed like
\* an alert received, which writes rules.dat with those read so far.
LoadRule(n, r) ==
    /\ r \in toLoad[n]
    /\ \A q \in toLoad[n] : nID[r] <= nID[q]
    /\ AddAlert(nID, n, r)
    /\ toLoad' = [toLoad EXCEPT ![n] = @ \ {r}]
    /\ UNCHANGED <<nID, expired, network, losses>>

SteadyNext ==
    \/ \E n \in Node, a \in Alert : SendAlert(n, a) \/ SendFails(n, a)
    \/ \E a \in Notice : Expire(a)
    \/ \E n \in Node : ProcessAlerts(n)
    \/ \E d \in Dials : Connect(d) \/ Disconnect(d)
    \/ \E l \in Link : ReceiveVersion(l)
    \/ \E l \in Link, a \in Alert : ReceiveAlert(l, a) \/ RefuseAlert(l, a) \/ IgnoreAlert(l, a)
    \/ \E n \in Node, r \in Rule : LoadRule(n, r)
    \/ \E n \in Node : Running(n) /\ Crash(n)

\* Nodes may be lost, but not while they read rules.dat.
SteadySpec == Init /\ [][SteadyNext]_vars

\* Nodes may be lost at any time.
Next == SteadyNext \/ \E n \in Node : Crash(n)

Spec == Init /\ [][Next]_vars

-----------------------------------------------------------------------------
\* A running node has its rules in its three places: applied, held among the
\* alerts it passes on, and in rules.dat (CRules::insert, ProcessAlert).
RulesAreHeld ==
    \A n \in Node : Running(n) =>
       mapRules[n] = mapAlerts[n] \cap Rule /\ rulesDat[n] = mapRules[n]

\* Two nodes never apply different rules under one ID, by which getRule
\* orders them and rules.dat keeps them: with one authority the IDs that
\* sendrule picks stay apart, through notices, losses and restarts.
RulesAgree ==
    \A n, p \in Node : \A q \in mapRules[n], r \in mapRules[p] : nID[q] = nID[r] => q = r

\* A peer that has told its version has been offered every alert in effect,
\* by the relaying of the version, of sendrule or of another peer's alert.
AlertsAreOffered ==
    \A l \in gotVersion : mapAlerts[l[1]] \ expired \subseteq setKnown[l]

\* A node that has a rule keeps it, whatever alerts and losses come: "the
\* alert lives until is (or can be) manually cancelled" (sendrule).
RulesNeverLost ==
    [][\A n \in Node : (mapAlerts[n] \cap Rule) \cup toLoad[n] \subseteq mapAlerts'[n] \cup toLoad'[n]]_vars

=============================================================================
