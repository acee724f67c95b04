---------------------------- MODULE AlertsProofs ----------------------------
(***************************************************************************)
(* Theorems about Alerts, for any nodes, connections, rules and notices.   *)
(***************************************************************************)
EXTENDS Alerts, FiniteSetTheorems, SequenceTheorems, NaturalsInduction, WellFoundedInduction, TLAPS

\* Every non-empty set of naturals has a least member, which the provers do not
\* know of: from the well-foundedness of < on them.
LEMMA LeastNatural ==
    ASSUME NEW T \in SUBSET Nat, T # {}
    PROVE  \E m \in T : \A n \in T : m <= n
<1> DEFINE R == OpToRel(<, Nat)
<1>1. \A x, y \in Nat : y < x => <<y, x>> \in R
  BY DEF OpToRel
<1>2. PICK m \in T : \A n \in T : <<n, m>> \notin R
  <2> HIDE DEF R
  <2> QED  BY NatLessThanWellFounded, WFMin DEF R
<1> HIDE DEF R
<1>3. \A n \in T : ~(n < m)
  BY <1>1, <1>2
<1> QED  BY <1>3

-----------------------------------------------------------------------------
(* The operators the actions are built from.                               *)

\* A link has two ends, both nodes, and a link back.
LEMMA LinkEnds ==
    ASSUME NEW l \in Link
    PROVE  /\ l[1] \in Node /\ l[2] \in Node /\ l[1] # l[2]
           /\ Back(l) \in Link /\ Back(Back(l)) = l /\ Back(l) # l
           /\ Back(l)[1] = l[2]
<1>1. PICK d \in Dials : l = d \/ l = <<d[2], d[1]>>
  BY DEF Link
<1>2. d \in Node \X Node /\ d = <<d[1], d[2]>> /\ d[1] # d[2]
  BY AlertsAssumption
<1>3. l[1] \in Node /\ l[2] \in Node /\ l[1] # l[2] /\ l = <<l[1], l[2]>>
  BY <1>1, <1>2
<1>4. Back(l) \in Link /\ Back(Back(l)) = l
  BY <1>1, <1>2, <1>3 DEF Link, Back
<1> QED  BY <1>3, <1>4 DEF Back

\* getNextID returns a positive ID that no alert the node holds has.
LEMMA NextIDIsUnused ==
    ASSUME AlertsTypeOK, NEW n \in Node
    PROVE  /\ NextID(n) \in Nat \ {0}
           /\ \A b \in mapAlerts[n] : nID[b] # NextID(n)
<1> DEFINE H == mapAlerts[n]
           C == Cardinality(Alert)
           f == [b \in H |-> nID[b]]
           Used == {nID[b] : b \in H}
           Free == {i \in 1 .. C + 1 : i \notin Used}
<1>1. H \subseteq Alert /\ Used \subseteq Nat
  BY DEF AlertsTypeOK
<1>2. IsFiniteSet(Alert)
  BY AlertsAssumption DEF Alert
<1>3. IsFiniteSet(H) /\ Cardinality(H) <= C /\ C \in Nat /\ Cardinality(H) \in Nat
  <2> HIDE DEF H
  <2> QED  BY <1>1, <1>2, FS_Subset, FS_CardinalityType
<1>4. IsFiniteSet(Used) /\ Cardinality(Used) <= C /\ Cardinality(Used) \in Nat
  <2>1. f \in Surjection(H, Used)
    BY DEF Surjection
  <2>2. IsFiniteSet(Used) /\ Cardinality(Used) <= Cardinality(H)
    <3> HIDE DEF f, H, Used
    <3> QED  BY <1>3, <2>1, FS_Surjection
  <2> HIDE DEF H, Used
  <2> QED  BY <1>3, <2>2, FS_CardinalityType
<1>5. Free # {}
  <2> SUFFICES ASSUME 1 .. C + 1 \subseteq Used PROVE FALSE
    OBVIOUS
  <2>1. Cardinality(1 .. C + 1) = C + 1
    BY <1>3, FS_Interval
  <2>2. Cardinality(1 .. C + 1) <= Cardinality(Used)
    <3> HIDE DEF Used
    <3> QED  BY <1>4, FS_Subset
  <2> HIDE DEF Used
  <2> QED  BY <1>3, <1>4, <2>1, <2>2
<1>6. Free \subseteq Nat
  BY <1>3
<1>7. PICK m \in Free : \A k \in Free : m <= k
  <2> HIDE DEF Free
  <2> QED  BY <1>5, <1>6, LeastNatural
<1>8. /\ m \in 1 .. C + 1
      /\ \A b \in mapAlerts[n] : nID[b] # m
      /\ \A j \in 1 .. m - 1 : \E b \in mapAlerts[n] : nID[b] = j
  <2>1. m \in 1 .. C + 1 /\ \A b \in mapAlerts[n] : nID[b] # m
    OBVIOUS
  <2>2. ASSUME NEW j \in 1 .. m - 1 PROVE j \in Used
    <3>1. j \in 1 .. C + 1 /\ ~(m <= j)
      BY <1>3, <2>1
    <3> QED  BY <1>7, <3>1
  <2> QED  BY <2>1, <2>2
<1>9. /\ NextID(n) \in 1 .. C + 1
      /\ \A b \in mapAlerts[n] : nID[b] # NextID(n)
  BY <1>8 DEF NextID
<1> QED  BY <1>3, <1>9

\* ProcessAlert erases no rule, whatever alert it is given.
LEMMA RulesNotSuperseded ==
    ASSUME expired \subseteq Notice, NEW id, NEW held, NEW a
    PROVE  Superseded(id, held, a) \cap Rule = {}
BY AlertsAssumption DEF Superseded, Cancels

LEMMA RefusalKeepsRules ==
    ASSUME expired \subseteq Notice, NEW id, NEW held, NEW a, NEW left, Refuses(id, held, a, left)
    PROVE  left \subseteq held /\ left \cap Rule = held \cap Rule
BY RulesNotSuperseded DEF Refuses

\* What the rules of a node are once it has accepted an alert.
LEMMA AcceptedRules ==
    ASSUME AlertsTypeOK, NEW n \in Node, NEW a \in Alert, NEW id,
           mapRules[n] = mapAlerts[n] \cap Rule,
           AddAlert(id, n, a)
    PROVE  /\ a \in mapAlerts'[n] /\ mapAlerts'[n] \subseteq mapAlerts[n] \cup {a}
           /\ mapAlerts'[n] \cap Rule = (mapAlerts[n] \cap Rule) \cup ({a} \cap Rule)
           /\ mapRules'[n] = mapAlerts'[n] \cap Rule
           /\ rulesDat'[n] = IF a \in Rule THEN mapRules'[n] ELSE rulesDat[n]
           /\ mapAlerts' \in [Node -> SUBSET Alert]
           /\ mapRules' \in [Node -> SUBSET Rule]
           /\ rulesDat' \in [Node -> SUBSET Rule]
           /\ \A p \in Node \ {n} : /\ mapAlerts'[p] = mapAlerts[p]
                                    /\ mapRules'[p] = mapRules[p]
                                    /\ rulesDat'[p] = rulesDat[p]
<1>1. /\ mapAlerts \in [Node -> SUBSET Alert] /\ expired \subseteq Notice
      /\ mapRules \in [Node -> SUBSET Rule] /\ rulesDat \in [Node -> SUBSET Rule]
  BY DEF AlertsTypeOK
<1> DEFINE S == Superseded(id, mapAlerts[n], a)
           new == {r \in {a} \cap Rule : ~SameID(id, mapRules[n], r)}
<1>2. S \cap Rule = {}
  BY <1>1, RulesNotSuperseded
<1>3. ~SameID(id, mapAlerts[n], a)
  BY DEF AddAlert, Accepts
<1>4. new = {a} \cap Rule
  BY <1>3 DEF SameID
<1>5. mapAlerts' = [mapAlerts EXCEPT ![n] = (@ \ S) \cup {a}]
  BY <1>1 DEF AddAlert
<1>6. /\ mapRules' = [mapRules EXCEPT ![n] = @ \cup new]
      /\ rulesDat' = [rulesDat EXCEPT ![n] = IF new = {} THEN @ ELSE mapRules[n] \cup new]
  BY DEF AddAlert, InsertRule
<1> HIDE DEF S, new
<1>7. mapAlerts'[n] = (mapAlerts[n] \ S) \cup {a}
  BY <1>1, <1>5
<1>8. mapAlerts' \in [Node -> SUBSET Alert] /\ \A p \in Node \ {n} : mapAlerts'[p] = mapAlerts[p]
  BY <1>1, <1>5
<1>9. /\ mapRules'[n] = mapRules[n] \cup ({a} \cap Rule)
      /\ rulesDat'[n] = IF a \in Rule THEN mapRules[n] \cup {a} ELSE rulesDat[n]
  BY <1>1, <1>4, <1>6
<1>10. mapRules' \in [Node -> SUBSET Rule] /\ \A p \in Node \ {n} : mapRules'[p] = mapRules[p]
  BY <1>1, <1>4, <1>6
<1>11. rulesDat' \in [Node -> SUBSET Rule] /\ \A p \in Node \ {n} : rulesDat'[p] = rulesDat[p]
  BY <1>1, <1>4, <1>6
<1>12. mapAlerts'[n] \cap Rule = (mapAlerts[n] \cap Rule) \cup ({a} \cap Rule)
  BY <1>2, <1>7
<1> QED  BY <1>7, <1>8, <1>9, <1>10, <1>11, <1>12

\* Relaying appends the alert to queues of existing links, and the peers of all
\* the links of the node are then taken to have it.
LEMMA RelayKeeps ==
    ASSUME NEW n \in Node, NEW a \in Alert, NEW S, a \in S,
           NEW known \in [Link -> SUBSET Alert], NEW queues \in [Link -> Seq(S)],
           Relay(n, a, known, queues)
    PROVE  /\ setKnown' \in [Link -> SUBSET Alert]
           /\ chan' \in [Link -> Seq(S)]
           /\ \A l \in Link : chan'[l] # queues[l] => l \in vNodes
           /\ \A l \in Link : known[l] \subseteq setKnown'[l]
           /\ \A l \in Link \cap vNodes : l[1] = n => a \in setKnown'[l]
<1> DEFINE R == RelayedOn(n, a, known)
<1>1. R \subseteq vNodes
  BY DEF RelayedOn
<1>2. \A l \in Link \cap vNodes : l[1] = n => l \in R \/ a \in known[l]
  BY DEF RelayedOn
<1>3. /\ setKnown' = [l \in Link |-> IF l \in R THEN known[l] \cup {a} ELSE known[l]]
      /\ chan' = [l \in Link |-> IF l \in R THEN Append(queues[l], a) ELSE queues[l]]
  BY DEF Relay
<1> HIDE DEF R
<1>4. ASSUME NEW l \in Link PROVE Append(queues[l], a) \in Seq(S)
  BY AppendProperties
<1> QED  BY <1>1, <1>2, <1>3, <1>4

-----------------------------------------------------------------------------
(***************************************************************************)
(* The inductive invariant, with every loss.  SentOnly: nothing is held or *)
(* on its way that has not been sent, hence given its ID.  Linked: links   *)
(* come in pairs, of nodes that run, and only they carry messages.         *)
(* RulesStored: the rules of a node are in their three places, or still to *)
(* be read.                                                                *)
(***************************************************************************)
Sent == {a \in Alert : nID[a] # 0}

SentOnly ==
    /\ mapAlerts \in [Node -> SUBSET Sent]
    /\ chan \in [Link -> Seq(Sent \cup {Version})]

Linked ==
    /\ \A l \in vNodes : Back(l) \in vNodes /\ Running(l[1])
    /\ \A l \in Link : chan[l] # << >> => l \in vNodes

RulesStored ==
    \A n \in Node :
       /\ mapRules[n] = mapAlerts[n] \cap Rule
       /\ toLoad[n] \cap mapAlerts[n] = {}
       /\ toLoad[n] \subseteq Sent
       /\ \/ rulesDat[n] = mapRules[n]
          \/ rulesDat[n] = toLoad[n] /\ mapRules[n] = {}

AlertsInv == AlertsTypeOK /\ SentOnly /\ Linked /\ RulesStored

LEMMA AlertsInit == Init => AlertsInv
<1> SUFFICES ASSUME Init PROVE AlertsInv
  OBVIOUS
<1>1. \A S : << >> \in Seq(S)
  BY EmptySeq
<1>2. AlertsTypeOK /\ SentOnly
  BY <1>1, AlertsAssumption DEF Init, AlertsTypeOK, SentOnly, Alert
<1>3. Linked /\ RulesStored
  BY DEF Init, Linked, RulesStored
<1> QED  BY <1>2, <1>3 DEF AlertsInv

\* What is typed with the alerts sent is typed with all.
LEMMA SentSubset ==
    ASSUME NEW S \in SUBSET Alert,
           NEW m \in [Node -> SUBSET S], NEW c \in [Link -> Seq(S \cup {Version})]
    PROVE  /\ m \in [Node -> SUBSET Alert]
           /\ c \in [Link -> Seq(Alert \cup {Version})]
<1>1. \A q \in Seq(S \cup {Version}) : q \in Seq(Alert \cup {Version})
  BY SeqMonotonic
<1> QED  BY <1>1

\* The links that are left when some are dropped.
LEMMA DropKeeps ==
    ASSUME AlertsInv, NEW L \in SUBSET Link, \A l \in Link : Back(l) \in L => l \in L, Drop(L)
    PROVE  /\ chan' \in [Link -> Seq(Sent \cup {Version})]
           /\ setKnown' \in [Link -> SUBSET Alert]
           /\ vNodes' = vNodes \ L /\ gotVersion' \subseteq vNodes' /\ gotVersion' \subseteq gotVersion
           /\ losses' \in 0 .. MaxLosses
           /\ \A l \in vNodes' : Back(l) \in vNodes'
           /\ \A l \in Link : chan'[l] # << >> => l \in vNodes'
           /\ \A l \in vNodes' : setKnown'[l] = setKnown[l]
<1>1. /\ chan \in [Link -> Seq(Sent \cup {Version})] /\ setKnown \in [Link -> SUBSET Alert]
      /\ vNodes \subseteq Link /\ gotVersion \subseteq vNodes /\ losses \in 0 .. MaxLosses
      /\ MaxLosses \in Nat
  BY AlertsAssumption DEF AlertsInv, AlertsTypeOK, SentOnly
<1>2. << >> \in Seq(Sent \cup {Version})
  BY EmptySeq
<1>3. \A l \in vNodes : Back(l) \in vNodes /\ Back(l) \in Link /\ Back(Back(l)) = l
  BY <1>1, LinkEnds DEF AlertsInv, Linked
<1>4. \A l \in Link : chan[l] # << >> => l \in vNodes
  BY DEF AlertsInv, Linked
<1>5. chan' \in [Link -> Seq(Sent \cup {Version})] /\ setKnown' \in [Link -> SUBSET Alert]
  BY <1>1, <1>2 DEF Drop
<1>6. vNodes' = vNodes \ L /\ gotVersion' \subseteq vNodes' /\ gotVersion' \subseteq gotVersion
  BY <1>1 DEF Drop
<1>7. losses' \in 0 .. MaxLosses
  BY <1>1 DEF Drop
<1>8. \A l \in vNodes' : Back(l) \in vNodes'
  <2> SUFFICES ASSUME NEW l \in vNodes, l \notin L PROVE Back(l) \notin L
    BY <1>3, <1>6
  <2> QED  BY <1>1, <1>3
<1>9. /\ \A l \in Link : chan'[l] # << >> => l \in vNodes'
      /\ \A l \in vNodes' : setKnown'[l] = setKnown[l]
  BY <1>1, <1>4, <1>6 DEF Drop
<1> QED  BY <1>5, <1>6, <1>7, <1>8, <1>9
\* The types, with the conditions the lemmas below start from.
LEMMA InvTypes ==
    ASSUME AlertsInv
    PROVE  /\ nID \in [Alert -> Nat] /\ expired \subseteq Notice
           /\ mapAlerts \in [Node -> SUBSET Alert] /\ mapAlerts \in [Node -> SUBSET Sent]
           /\ mapRules \in [Node -> SUBSET Rule] /\ rulesDat \in [Node -> SUBSET Rule]
           /\ toLoad \in [Node -> SUBSET Rule]
           /\ vNodes \subseteq Link /\ gotVersion \subseteq vNodes
           /\ setKnown \in [Link -> SUBSET Alert]
           /\ chan \in [Link -> Seq(Sent \cup {Version})]
           /\ losses \in 0 .. MaxLosses
BY DEF AlertsInv, AlertsTypeOK, SentOnly

\* sendrule and sendalert keep the invariant.
LEMMA SendKeeps ==
    ASSUME AlertsInv, NEW n \in Node, NEW a \in Alert, SendAlert(n, a)
    PROVE  AlertsInv'
<1> USE InvTypes
<1>1. nID' \in [Alert -> Nat] /\ Sent' = Sent \cup {a} /\ nID[a] = 0
  <2>1. NextID(n) \in Nat \ {0}
    BY NextIDIsUnused DEF AlertsInv
  <2>2. nID' = [nID EXCEPT ![a] = NextID(n)] /\ nID[a] = 0
    BY DEF SendAlert
  <2> QED  BY <2>1, <2>2 DEF Sent
<1>2. /\ mapRules[n] = mapAlerts[n] \cap Rule /\ toLoad[n] = {}
      /\ AlertsTypeOK
  BY DEF AlertsInv, RulesStored, SendAlert, Running
<1>3. AddAlert(nID', n, a)
  BY DEF SendAlert
<1>4. /\ mapAlerts'[n] \subseteq mapAlerts[n] \cup {a}
      /\ mapRules'[n] = mapAlerts'[n] \cap Rule
      /\ mapAlerts'[n] \cap Rule = (mapAlerts[n] \cap Rule) \cup ({a} \cap Rule)
      /\ rulesDat'[n] = IF a \in Rule THEN mapRules'[n] ELSE rulesDat[n]
      /\ mapAlerts' \in [Node -> SUBSET Alert] /\ mapRules' \in [Node -> SUBSET Rule]
      /\ rulesDat' \in [Node -> SUBSET Rule]
      /\ \A p \in Node \ {n} : /\ mapAlerts'[p] = mapAlerts[p]
                               /\ mapRules'[p] = mapRules[p]
                               /\ rulesDat'[p] = rulesDat[p]
  BY <1>2, <1>3, AcceptedRules
<1>5. chan \in [Link -> Seq(Sent' \cup {Version})]
  <2>1. \A q \in Seq(Sent \cup {Version}) : q \in Seq(Sent' \cup {Version})
    BY <1>1, SeqMonotonic
  <2> QED  BY <2>1
<1>6. /\ setKnown' \in [Link -> SUBSET Alert] /\ chan' \in [Link -> Seq(Sent' \cup {Version})]
      /\ \A l \in Link : chan'[l] # chan[l] => l \in vNodes
  <2>1. Relay(n, a, setKnown, chan) /\ a \in Sent' \cup {Version}
    BY <1>1 DEF SendAlert
  <2> QED  BY <1>5, <2>1, RelayKeeps
<1>7. SentOnly'
  BY <1>1, <1>4, <1>6 DEF SentOnly
<1>8. UNCHANGED <<expired, toLoad, vNodes, gotVersion, losses>>
  BY DEF SendAlert
<1>9. AlertsTypeOK'
  BY <1>1, <1>4, <1>6, <1>7, <1>8, SentSubset DEF AlertsTypeOK, SentOnly, Sent
<1>10. Linked'
  BY <1>6, <1>8 DEF AlertsInv, Linked, Running
<1>11. RulesStored'
  <2> SUFFICES ASSUME NEW p \in Node
               PROVE  /\ mapRules'[p] = mapAlerts'[p] \cap Rule
                      /\ toLoad[p] \cap mapAlerts'[p] = {}
                      /\ toLoad[p] \subseteq Sent'
                      /\ \/ rulesDat'[p] = mapRules'[p]
                         \/ rulesDat'[p] = toLoad[p] /\ mapRules'[p] = {}
    BY <1>8 DEF RulesStored
  <2>1. CASE p = n
    <3>1. rulesDat[n] = mapRules[n]
      BY <1>2 DEF AlertsInv, RulesStored
    <3>2. a \notin Rule => mapRules'[n] = mapRules[n]
      BY <1>2, <1>4
    <3>3. rulesDat'[n] = mapRules'[n]
      BY <1>4, <3>1, <3>2
    <3> QED  BY <1>2, <1>4, <2>1, <3>3
  <2>2. CASE p # n  BY <1>1, <1>4, <2>2 DEF AlertsInv, RulesStored
  <2> QED  BY <2>1, <2>2
<1> QED  BY <1>7, <1>9, <1>10, <1>11 DEF AlertsInv

\* Whatever takes ordinary alerts from a node keeps the invariant.
LEMMA FewerKeeps ==
    ASSUME AlertsInv, NEW n \in Node, NEW left \in SUBSET mapAlerts[n],
           left \cap Rule = mapAlerts[n] \cap Rule,
           mapAlerts' = [mapAlerts EXCEPT ![n] = left],
           UNCHANGED <<nID, expired, mapRules, rulesDat, toLoad, vNodes, gotVersion, setKnown, losses>>,
           chan' \in [Link -> Seq(Sent \cup {Version})],
           \A l \in Link : chan'[l] # chan[l] => l \in vNodes
    PROVE  AlertsInv'
<1> USE InvTypes
<1>1. Sent' = Sent
  BY DEF Sent
<1>2. mapAlerts' \in [Node -> SUBSET Sent] /\ mapAlerts'[n] = left
      /\ \A p \in Node \ {n} : mapAlerts'[p] = mapAlerts[p]
  OBVIOUS
<1>3. SentOnly'
  BY <1>1, <1>2 DEF SentOnly
<1>4. AlertsTypeOK'
  BY <1>3, SentSubset DEF AlertsTypeOK, SentOnly, Sent
<1>5. Linked'
  BY DEF AlertsInv, Linked, Running
<1>6. RulesStored'
  <2> SUFFICES ASSUME NEW p \in Node
               PROVE  /\ mapRules[p] = mapAlerts'[p] \cap Rule
                      /\ toLoad[p] \cap mapAlerts'[p] = {}
                      /\ toLoad[p] \subseteq Sent
                      /\ \/ rulesDat[p] = mapRules[p]
                         \/ rulesDat[p] = toLoad[p] /\ mapRules[p] = {}
    BY <1>1 DEF RulesStored
  <2> QED  BY <1>2 DEF AlertsInv, RulesStored
<1> QED  BY <1>3, <1>4, <1>5, <1>6 DEF AlertsInv

\* Receiving takes the first message of a queue.
LEMMA ReceiveTail ==
    ASSUME AlertsInv, NEW l \in Link, chan[l] # << >>
    PROVE  /\ [chan EXCEPT ![l] = Tail(@)] \in [Link -> Seq(Sent \cup {Version})]
           /\ Head(chan[l]) \in Sent \cup {Version}
           /\ l \in vNodes /\ Back(l) \in vNodes
           /\ \A k \in Link : [chan EXCEPT ![l] = Tail(@)][k] # chan[k] => k \in vNodes
<1> USE InvTypes
<1>1. Tail(chan[l]) \in Seq(Sent \cup {Version}) /\ Head(chan[l]) \in Sent \cup {Version}
  BY HeadTailProperties
<1>2. l \in vNodes /\ Back(l) \in vNodes
  BY DEF AlertsInv, Linked
<1> QED  BY <1>1, <1>2
\* A connection that is opened keeps the invariant.
LEMMA ConnectKeeps ==
    ASSUME AlertsInv, NEW d \in Dials, Connect(d)
    PROVE  AlertsInv'
<1> USE InvTypes
<1>1. d \in Link /\ Back(d) \in Link /\ Back(Back(d)) = d /\ Back(d)[1] = d[2]
  <2>1. d \in Link
    BY DEF Link
  <2> QED  BY <2>1, LinkEnds
<1>2. <<Version>> \in Seq(Sent \cup {Version})
  OBVIOUS
<1>3. /\ vNodes' = vNodes \cup {d, Back(d)}
      /\ chan' = [chan EXCEPT ![d] = <<Version>>]
      /\ UNCHANGED <<nID, expired, mapAlerts, mapRules, rulesDat, toLoad, gotVersion, setKnown, losses>>
      /\ Running(d[1]) /\ Running(d[2])
  BY DEF Connect
<1>4. Sent' = Sent
  BY <1>3 DEF Sent
<1>5. SentOnly'
  BY <1>1, <1>2, <1>3, <1>4 DEF SentOnly
<1>6. AlertsTypeOK'
  BY <1>1, <1>3, <1>5, SentSubset DEF AlertsTypeOK, SentOnly, Sent
<1>7. Linked'
  <2>1. ASSUME NEW l \in vNodes' PROVE Back(l) \in vNodes' /\ Running(l[1])
    BY <1>1, <1>3 DEF AlertsInv, Linked
  <2>2. ASSUME NEW l \in Link, chan'[l] # << >> PROVE l \in vNodes'
    BY <1>1, <1>3, <2>2 DEF AlertsInv, Linked
  <2> QED  BY <1>3, <2>1, <2>2 DEF Linked, Running
<1>8. RulesStored'
  BY <1>3, <1>4 DEF AlertsInv, RulesStored
<1> QED  BY <1>5, <1>6, <1>7, <1>8 DEF AlertsInv

LEMMA DisconnectKeeps ==
    ASSUME AlertsInv, NEW d \in Dials, Disconnect(d)
    PROVE  AlertsInv'
<1> USE InvTypes
<1> DEFINE L == {d, Back(d)}
<1>1. d \in Link /\ Back(d) \in Link /\ Back(Back(d)) = d
  <2>1. d \in Link
    BY DEF Link
  <2> QED  BY <2>1, LinkEnds
<1>2. L \in SUBSET Link /\ \A l \in Link : Back(l) \in L => l \in L
  BY <1>1, LinkEnds
<1>3. Drop(L)
  BY DEF Disconnect
<1>4. UNCHANGED <<nID, expired, mapAlerts, mapRules, rulesDat, toLoad>>
  BY DEF Disconnect
<1> HIDE DEF L
<1>5. /\ chan' \in [Link -> Seq(Sent \cup {Version})] /\ setKnown' \in [Link -> SUBSET Alert]
      /\ vNodes' = vNodes \ L /\ gotVersion' \subseteq vNodes' /\ losses' \in 0 .. MaxLosses
      /\ \A l \in vNodes' : Back(l) \in vNodes'
      /\ \A l \in Link : chan'[l] # << >> => l \in vNodes'
  BY <1>2, <1>3, DropKeeps
<1>6. Sent' = Sent
  BY <1>4 DEF Sent
<1>7. SentOnly'
  BY <1>4, <1>5, <1>6 DEF SentOnly
<1>8. AlertsTypeOK'
  BY <1>4, <1>5, <1>7, SentSubset DEF AlertsTypeOK, SentOnly, Sent
<1>9. Linked'
  BY <1>4, <1>5 DEF AlertsInv, Linked, Running
<1>10. RulesStored'
  BY <1>4, <1>6 DEF AlertsInv, RulesStored
<1> QED  BY <1>7, <1>8, <1>9, <1>10 DEF AlertsInv

\* A crash leaves to be read the rules that were in force.
LEMMA CrashKeeps ==
    ASSUME AlertsInv, NEW n \in Node, Crash(n)
    PROVE  AlertsInv'
<1> USE InvTypes
<1> DEFINE L == {l \in Link : n \in {l[1], l[2]}}
<1>1. L \in SUBSET Link /\ \A l \in Link : Back(l) \in L => l \in L
  BY DEF Back
<1>2. Drop(L)
  BY DEF Crash
<1>3. /\ mapAlerts' = [mapAlerts EXCEPT ![n] = {}]
      /\ mapRules' = [mapRules EXCEPT ![n] = {}]
      /\ toLoad' = [toLoad EXCEPT ![n] = rulesDat[n]]
      /\ UNCHANGED <<nID, expired, rulesDat>>
  BY DEF Crash
<1>4. \A l \in vNodes : l \notin L => l[1] # n
  OBVIOUS
<1> HIDE DEF L
<1>5. /\ chan' \in [Link -> Seq(Sent \cup {Version})] /\ setKnown' \in [Link -> SUBSET Alert]
      /\ vNodes' = vNodes \ L /\ gotVersion' \subseteq vNodes' /\ losses' \in 0 .. MaxLosses
      /\ \A l \in vNodes' : Back(l) \in vNodes'
      /\ \A l \in Link : chan'[l] # << >> => l \in vNodes'
  BY <1>1, <1>2, DropKeeps
<1>6. Sent' = Sent
  BY <1>3 DEF Sent
<1>7. SentOnly'
  BY <1>3, <1>5, <1>6 DEF SentOnly
<1>8. AlertsTypeOK'
  BY <1>3, <1>5, <1>7, SentSubset DEF AlertsTypeOK, SentOnly, Sent
<1>9. Linked'
  <2>1. ASSUME NEW l \in vNodes' PROVE toLoad'[l[1]] = {}
    <3>1. l \in vNodes /\ l[1] # n /\ l[1] \in Node
      BY <1>4, <1>5, LinkEnds
    <3>2. toLoad[l[1]] = {}
      BY <3>1 DEF AlertsInv, Linked, Running
    <3> QED  BY <1>3, <3>1, <3>2
  <2> QED  BY <1>5, <2>1 DEF Linked, Running
<1>10. RulesStored'
  <2> SUFFICES ASSUME NEW p \in Node
               PROVE  /\ mapRules'[p] = mapAlerts'[p] \cap Rule
                      /\ toLoad'[p] \cap mapAlerts'[p] = {}
                      /\ toLoad'[p] \subseteq Sent
                      /\ \/ rulesDat[p] = mapRules'[p]
                         \/ rulesDat[p] = toLoad'[p] /\ mapRules'[p] = {}
    BY <1>3, <1>6 DEF RulesStored
  <2>1. rulesDat[n] \subseteq Sent
    BY DEF AlertsInv, RulesStored
  <2>2. CASE p = n  BY <1>3, <2>1, <2>2
  <2>3. CASE p # n  BY <1>3, <2>3 DEF AlertsInv, RulesStored
  <2> QED  BY <2>2, <2>3
<1> QED  BY <1>7, <1>8, <1>9, <1>10 DEF AlertsInv

\* Reading a rule of rules.dat keeps the invariant.
LEMMA LoadKeeps ==
    ASSUME AlertsInv, NEW n \in Node, NEW r \in Rule, LoadRule(n, r)
    PROVE  AlertsInv'
<1> USE InvTypes
<1>1. /\ r \in toLoad[n] /\ r \in Alert /\ r \in Sent /\ r \notin mapAlerts[n]
      /\ mapRules[n] = mapAlerts[n] \cap Rule /\ AlertsTypeOK
  BY DEF AlertsInv, RulesStored, LoadRule, Alert
<1>2. AddAlert(nID, n, r) /\ toLoad' = [toLoad EXCEPT ![n] = @ \ {r}]
      /\ UNCHANGED <<nID, expired, vNodes, gotVersion, setKnown, chan, losses>>
  BY DEF LoadRule, network
<1>3. /\ mapAlerts'[n] \subseteq mapAlerts[n] \cup {r}
      /\ mapRules'[n] = mapAlerts'[n] \cap Rule
      /\ rulesDat'[n] = mapRules'[n]
      /\ mapAlerts' \in [Node -> SUBSET Alert] /\ mapRules' \in [Node -> SUBSET Rule]
      /\ rulesDat' \in [Node -> SUBSET Rule]
      /\ \A p \in Node \ {n} : /\ mapAlerts'[p] = mapAlerts[p]
                               /\ mapRules'[p] = mapRules[p]
                               /\ rulesDat'[p] = rulesDat[p]
  BY <1>1, <1>2, AcceptedRules
<1>4. Sent' = Sent
  BY <1>2 DEF Sent
<1>5. SentOnly'
  <2>1. \A p \in Node : mapAlerts'[p] \in SUBSET Sent
    BY <1>1, <1>3
  <2>2. mapAlerts' \in [Node -> SUBSET Sent]
    BY <1>3, <2>1
  <2> QED  BY <1>2, <1>4, <2>2 DEF SentOnly
<1>6. AlertsTypeOK'
  BY <1>2, <1>3, <1>5, SentSubset DEF AlertsTypeOK, SentOnly, Sent
<1>7. Linked'
  <2>1. ASSUME NEW l \in vNodes PROVE toLoad'[l[1]] = {}
    BY <1>1, <1>2, LinkEnds DEF AlertsInv, Linked, Running
  <2> QED  BY <1>2, <2>1 DEF AlertsInv, Linked, Running
<1>8. RulesStored'
  <2> SUFFICES ASSUME NEW p \in Node
               PROVE  /\ mapRules'[p] = mapAlerts'[p] \cap Rule
                      /\ toLoad'[p] \cap mapAlerts'[p] = {}
                      /\ toLoad'[p] \subseteq Sent
                      /\ \/ rulesDat'[p] = mapRules'[p]
                         \/ rulesDat'[p] = toLoad'[p] /\ mapRules'[p] = {}
    BY <1>4 DEF RulesStored
  <2>1. CASE p = n
    <3>1. toLoad'[n] = toLoad[n] \ {r} /\ toLoad[n] \cap mapAlerts[n] = {} /\ toLoad[n] \subseteq Sent
      BY <1>2 DEF AlertsInv, RulesStored
    <3> QED  BY <1>3, <2>1, <3>1
  <2>2. CASE p # n  BY <1>2, <1>3, <2>2 DEF AlertsInv, RulesStored
  <2> QED  BY <2>1, <2>2
<1> QED  BY <1>5, <1>6, <1>7, <1>8 DEF AlertsInv

\* A version received, with the alerts offered in return, keeps the invariant.
LEMMA VersionKeeps ==
    ASSUME AlertsInv, NEW l \in Link, ReceiveVersion(l)
    PROVE  /\ AlertsInv'
           /\ setKnown' \in [Link -> SUBSET Alert]
           /\ mapAlerts[l[1]] \ expired \subseteq setKnown'[l]
           /\ \A k \in Link \ {l} : setKnown'[k] = setKnown[k]
           /\ gotVersion' = gotVersion \cup {l}
<1> USE InvTypes
<1> DEFINE offered == mapAlerts[l[1]] \ (expired \cup setKnown[l])
           reply == IF l \in Dials THEN << >> ELSE <<Version>>
           m == Sent \cup {Version}
<1>1. /\ l[1] \in Node /\ Back(l) \in Link /\ Back(Back(l)) = l /\ Back(l) # l
      /\ chan[Back(l)] # << >>
  BY LinkEnds DEF ReceiveVersion
<1>2. offered \subseteq Sent /\ offered \subseteq Alert
  BY <1>1
<1>3. /\ gotVersion' = gotVersion \cup {l}
      /\ UNCHANGED <<nID, expired, mapAlerts, mapRules, rulesDat, toLoad, vNodes, losses>>
  BY DEF ReceiveVersion
<1>4. PICK order \in [1 .. Cardinality(offered) -> offered] :
         /\ setKnown' = [setKnown EXCEPT ![l] = @ \cup offered]
         /\ chan' = [chan EXCEPT ![Back(l)] = Tail(@), ![l] = @ \o reply \o order]
  BY DEF ReceiveVersion
<1>5. order \in Seq(m)
  <2>1. IsFiniteSet(offered)
    <3>1. IsFiniteSet(Alert)
      BY AlertsAssumption DEF Alert
    <3> HIDE DEF offered
    <3> QED  BY <1>2, <3>1, FS_Subset
  <2>2. Cardinality(offered) \in Nat
    <3> HIDE DEF offered
    <3> QED  BY <2>1, FS_CardinalityType
  <2> HIDE DEF offered
  <2>3. order \in [1 .. Cardinality(offered) -> m]
    BY <1>2
  <2> QED  BY <2>2, <2>3
<1>6. chan[l] \o reply \o order \in Seq(m)
  <2>1. chan[l] \in Seq(m)
    OBVIOUS
  <2>2. << >> \in Seq(m) /\ <<Version>> \in Seq(m)
    BY EmptySeq
  <2>3. reply \in Seq(m)
    BY <2>2
  <2> HIDE DEF reply, m, offered
  <2> QED  BY <1>5, <2>1, <2>3, ConcatProperties
<1>7. Tail(chan[Back(l)]) \in Seq(m) /\ l \in vNodes /\ Back(l) \in vNodes
  <2>1. chan[Back(l)] \in Seq(m)
    BY <1>1
  <2>2. Tail(chan[Back(l)]) \in Seq(m)
    BY <1>1, <2>1, HeadTailProperties
  <2> QED  BY <1>1, <2>2 DEF AlertsInv, Linked
<1> HIDE DEF offered, reply
<1>8. chan' \in [Link -> Seq(m)] /\ setKnown' \in [Link -> SUBSET Alert]
  BY <1>1, <1>2, <1>4, <1>6, <1>7
<1>9. \A k \in Link : chan'[k] # chan[k] => k \in vNodes
  BY <1>1, <1>4, <1>7
<1>10. Sent' = Sent
  BY <1>3 DEF Sent
<1>11. SentOnly'
  BY <1>3, <1>8, <1>10 DEF SentOnly
<1>12. AlertsTypeOK'
  BY <1>3, <1>7, <1>8, <1>11, SentSubset DEF AlertsTypeOK, SentOnly, Sent
<1>13. Linked'
  BY <1>3, <1>9 DEF AlertsInv, Linked, Running
<1>14. RulesStored'
  BY <1>3, <1>10 DEF AlertsInv, RulesStored
<1>15. mapAlerts[l[1]] \ expired \subseteq setKnown'[l]
  BY <1>1, <1>4 DEF offered
<1>16. \A k \in Link \ {l} : setKnown'[k] = setKnown[k]
  BY <1>4
<1> QED  BY <1>3, <1>8, <1>11, <1>12, <1>13, <1>14, <1>15, <1>16 DEF AlertsInv

\* An alert that is received and accepted keeps the invariant.
LEMMA ReceiveKeeps ==
    ASSUME AlertsInv, NEW l \in Link, NEW a \in Alert, ReceiveAlert(l, a)
    PROVE  AlertsInv'
<1> USE InvTypes
<1> DEFINE n == l[1]
           m == Sent \cup {Version}
           queues == [chan EXCEPT ![Back(l)] = Tail(@)]
           known == [setKnown EXCEPT ![l] = @ \cup {a}]
<1>1. /\ n \in Node /\ Back(l) \in Link
      /\ chan[Back(l)] # << >> /\ a = Head(chan[Back(l)]) /\ l \in gotVersion
  BY LinkEnds DEF ReceiveAlert
<1>2. /\ queues \in [Link -> Seq(m)] /\ a \in m /\ l \in vNodes
      /\ \A k \in Link : queues[k] # chan[k] => k \in vNodes
  BY <1>1, ReceiveTail
<1>3. a \in Sent /\ a # Version
  BY <1>2, AlertsAssumption DEF Alert
<1>4. /\ mapRules[n] = mapAlerts[n] \cap Rule /\ toLoad[n] = {} /\ AlertsTypeOK
  BY <1>1, <1>2 DEF AlertsInv, RulesStored, Linked, Running
<1>5. /\ AddAlert(nID, n, a) /\ Relay(n, a, known, queues)
      /\ UNCHANGED <<nID, expired, toLoad, vNodes, gotVersion, losses>>
  BY DEF ReceiveAlert
<1>6. known \in [Link -> SUBSET Alert]
  OBVIOUS
<1> HIDE DEF n, queues, known
<1>7. /\ mapAlerts'[n] \subseteq mapAlerts[n] \cup {a}
      /\ mapRules'[n] = mapAlerts'[n] \cap Rule
      /\ mapAlerts'[n] \cap Rule = (mapAlerts[n] \cap Rule) \cup ({a} \cap Rule)
      /\ rulesDat'[n] = IF a \in Rule THEN mapRules'[n] ELSE rulesDat[n]
      /\ mapAlerts' \in [Node -> SUBSET Alert] /\ mapRules' \in [Node -> SUBSET Rule]
      /\ rulesDat' \in [Node -> SUBSET Rule]
      /\ \A p \in Node \ {n} : /\ mapAlerts'[p] = mapAlerts[p]
                               /\ mapRules'[p] = mapRules[p]
                               /\ rulesDat'[p] = rulesDat[p]
  BY <1>1, <1>4, <1>5, AcceptedRules
<1>8. /\ setKnown' \in [Link -> SUBSET Alert] /\ chan' \in [Link -> Seq(m)]
      /\ \A k \in Link : chan'[k] # queues[k] => k \in vNodes
  BY <1>1, <1>2, <1>5, <1>6, RelayKeeps
<1>9. Sent' = Sent
  BY <1>5 DEF Sent
<1>10. SentOnly'
  <2>1. \A p \in Node : mapAlerts'[p] \in SUBSET Sent
    BY <1>1, <1>3, <1>7
  <2>2. mapAlerts' \in [Node -> SUBSET Sent]
    BY <1>7, <2>1
  <2> QED  BY <1>8, <1>9, <2>2 DEF SentOnly
<1>11. AlertsTypeOK'
  BY <1>5, <1>7, <1>8, <1>10, SentSubset DEF AlertsTypeOK, SentOnly, Sent
<1>12. Linked'
  BY <1>2, <1>5, <1>8 DEF AlertsInv, Linked, Running
<1>13. RulesStored'
  <2> SUFFICES ASSUME NEW p \in Node
               PROVE  /\ mapRules'[p] = mapAlerts'[p] \cap Rule
                      /\ toLoad[p] \cap mapAlerts'[p] = {}
                      /\ toLoad[p] \subseteq Sent
                      /\ \/ rulesDat'[p] = mapRules'[p]
                         \/ rulesDat'[p] = toLoad[p] /\ mapRules'[p] = {}
    BY <1>5, <1>9 DEF RulesStored
  <2>1. CASE p = n
    <3>1. rulesDat[n] = mapRules[n]
      BY <1>1, <1>4 DEF AlertsInv, RulesStored
    <3>2. a \notin Rule => mapRules'[n] = mapRules[n]
      BY <1>4, <1>7
    <3>3. rulesDat'[n] = mapRules'[n]
      BY <1>7, <3>1, <3>2
    <3> QED  BY <1>4, <1>7, <2>1, <3>3
  <2>2. CASE p # n  BY <1>7, <2>2 DEF AlertsInv, RulesStored
  <2> QED  BY <2>1, <2>2
<1> QED  BY <1>10, <1>11, <1>12, <1>13 DEF AlertsInv

\* The steps that add no alert to a node: a refusal, an alert passed over, one
\* that expires.
Fewer ==
    \/ \E n \in Node, a \in Alert : SendFails(n, a)
    \/ \E a \in Notice : Expire(a)
    \/ \E n \in Node : ProcessAlerts(n)
    \/ \E l \in Link, a \in Alert : RefuseAlert(l, a) \/ IgnoreAlert(l, a)

LEMMA FewerSteps ==
    ASSUME AlertsInv, Fewer
    PROVE  /\ AlertsInv'
           /\ UNCHANGED <<nID, toLoad, vNodes, gotVersion, setKnown>>
           /\ expired \subseteq expired'
           /\ \A p \in Node : /\ mapAlerts'[p] \subseteq mapAlerts[p]
                              /\ mapAlerts'[p] \cap Rule = mapAlerts[p] \cap Rule
<1> USE InvTypes
<1>1. CASE \E n \in Node, a \in Alert : SendFails(n, a)
  <2>1. PICK n \in Node, a \in Alert : SendFails(n, a)
    BY <1>1
  <2>2. /\ UNCHANGED <<nID, expired, mapRules, rulesDat, toLoad, losses>>
        /\ UNCHANGED <<vNodes, gotVersion, setKnown, chan>>
    BY <2>1 DEF SendFails, network
  <2>3. PICK left \in SUBSET mapAlerts[n] :
           /\ Refuses([nID EXCEPT ![a] = NextID(n)], mapAlerts[n], a, left)
           /\ mapAlerts' = [mapAlerts EXCEPT ![n] = left]
    BY <2>1 DEF SendFails
  <2>4. left \cap Rule = mapAlerts[n] \cap Rule
    BY <2>3, RefusalKeepsRules
  <2>5. AlertsInv'
    BY <2>2, <2>3, <2>4, FewerKeeps
  <2> QED  BY <2>2, <2>3, <2>4, <2>5
<1>2. CASE \E a \in Notice : Expire(a)
  <2>1. PICK a \in Notice : Expire(a)
    BY <1>2
  <2>2. /\ expired' = expired \cup {a}
        /\ UNCHANGED <<nID, mapAlerts, mapRules, rulesDat, toLoad, losses>>
        /\ UNCHANGED <<vNodes, gotVersion, setKnown, chan>>
    BY <2>1 DEF Expire, network
  <2>3. AlertsTypeOK'
    BY <2>2 DEF AlertsInv, AlertsTypeOK
  <2>4. Sent' = Sent
    BY <2>2 DEF Sent
  <2>5. AlertsInv'
    BY <2>2, <2>3, <2>4 DEF AlertsInv, SentOnly, Linked, Running, RulesStored
  <2> QED  BY <2>2, <2>5
<1>3. CASE \E n \in Node : ProcessAlerts(n)
  <2>1. PICK n \in Node : ProcessAlerts(n)
    BY <1>3
  <2>2. /\ UNCHANGED <<nID, expired, mapRules, rulesDat, toLoad, losses>>
        /\ UNCHANGED <<vNodes, gotVersion, setKnown, chan>>
        /\ mapAlerts' = [mapAlerts EXCEPT ![n] = mapAlerts[n] \ expired]
    BY <2>1 DEF ProcessAlerts, network
  <2>3. (mapAlerts[n] \ expired) \cap Rule = mapAlerts[n] \cap Rule
    BY AlertsAssumption
  <2>4. AlertsInv'
    BY <2>2, <2>3, FewerKeeps
  <2> QED  BY <2>2, <2>3, <2>4
<1>4. CASE \E l \in Link, a \in Alert : RefuseAlert(l, a)
  <2>1. PICK l \in Link, a \in Alert : RefuseAlert(l, a)
    BY <1>4
  <2>2. UNCHANGED <<nID, expired, mapRules, rulesDat, toLoad, vNodes, gotVersion, setKnown, losses>>
    BY <2>1 DEF RefuseAlert
  <2>3. l[1] \in Node /\ Back(l) \in Link /\ chan[Back(l)] # << >>
    BY <2>1, LinkEnds DEF RefuseAlert
  <2>4. PICK left \in SUBSET mapAlerts[l[1]] :
           /\ Refuses(nID, mapAlerts[l[1]], a, left)
           /\ mapAlerts' = [mapAlerts EXCEPT ![l[1]] = left]
    BY <2>1 DEF RefuseAlert
  <2>5. left \cap Rule = mapAlerts[l[1]] \cap Rule
    BY <2>4, RefusalKeepsRules
  <2>6. chan' = [chan EXCEPT ![Back(l)] = Tail(@)]
    BY <2>1 DEF RefuseAlert
  <2>7. /\ chan' \in [Link -> Seq(Sent \cup {Version})]
        /\ \A k \in Link : chan'[k] # chan[k] => k \in vNodes
    BY <2>3, <2>6, ReceiveTail
  <2>8. AlertsInv'
    BY <2>2, <2>3, <2>4, <2>5, <2>7, FewerKeeps
  <2> QED  BY <2>2, <2>3, <2>4, <2>5, <2>8
<1>5. CASE \E l \in Link, a \in Alert : IgnoreAlert(l, a)
  <2>1. PICK l \in Link, a \in Alert : IgnoreAlert(l, a)
    BY <1>5
  <2>2. /\ UNCHANGED <<nID, expired, mapRules, rulesDat, toLoad, vNodes, gotVersion, setKnown, losses>>
        /\ mapAlerts' = mapAlerts
    BY <2>1 DEF IgnoreAlert
  <2>3. l[1] \in Node /\ Back(l) \in Link /\ chan[Back(l)] # << >>
    BY <2>1, LinkEnds DEF IgnoreAlert
  <2>4. mapAlerts' = [mapAlerts EXCEPT ![l[1]] = mapAlerts[l[1]]]
    BY <2>2
  <2>5. chan' = [chan EXCEPT ![Back(l)] = Tail(@)]
    BY <2>1 DEF IgnoreAlert
  <2>6. /\ chan' \in [Link -> Seq(Sent \cup {Version})]
        /\ \A k \in Link : chan'[k] # chan[k] => k \in vNodes
    BY <2>3, <2>5, ReceiveTail
  <2>7. AlertsInv'
    BY <2>2, <2>3, <2>4, <2>6, FewerKeeps
  <2> QED  BY <2>2, <2>7
<1> QED  BY <1>1, <1>2, <1>3, <1>4, <1>5 DEF Fewer

\* The other steps, for the proofs by cases.
LEMMA StepCases ==
    ASSUME Next
    PROVE  \/ Fewer
           \/ \E n \in Node, a \in Alert : SendAlert(n, a)
           \/ \E d \in Dials : Connect(d)
           \/ \E d \in Dials : Disconnect(d)
           \/ \E l \in Link : ReceiveVersion(l)
           \/ \E l \in Link, a \in Alert : ReceiveAlert(l, a)
           \/ \E n \in Node, r \in Rule : LoadRule(n, r)
           \/ \E n \in Node : Crash(n)
BY Zenon DEF Next, SteadyNext, Fewer

LEMMA AlertsStep == AlertsInv /\ [Next]_vars => AlertsInv'
<1> SUFFICES ASSUME AlertsInv, [Next]_vars PROVE AlertsInv'
  OBVIOUS
<1>1. CASE UNCHANGED vars
  <2>1. AlertsTypeOK'
    BY <1>1 DEF vars, AlertsInv, AlertsTypeOK
  <2>2. Sent' = Sent
    BY <1>1 DEF vars, Sent
  <2>3. SentOnly'
    BY <1>1, <2>2 DEF vars, AlertsInv, SentOnly
  <2>4. Linked'
    BY <1>1 DEF vars, AlertsInv, Linked, Running
  <2>5. RulesStored'
    BY <1>1, <2>2 DEF vars, AlertsInv, RulesStored
  <2> QED  BY <2>1, <2>3, <2>4, <2>5 DEF AlertsInv
<1>2. CASE Next
  <2>1. CASE Fewer  BY <2>1, FewerSteps
  <2>2. CASE \E n \in Node, a \in Alert : SendAlert(n, a)  BY <2>2, SendKeeps
  <2>3. CASE \E d \in Dials : Connect(d)  BY <2>3, ConnectKeeps
  <2>4. CASE \E d \in Dials : Disconnect(d)  BY <2>4, DisconnectKeeps
  <2>5. CASE \E l \in Link : ReceiveVersion(l)  BY <2>5, VersionKeeps
  <2>6. CASE \E l \in Link, a \in Alert : ReceiveAlert(l, a)  BY <2>6, ReceiveKeeps
  <2>7. CASE \E n \in Node, r \in Rule : LoadRule(n, r)  BY <2>7, LoadKeeps
  <2>8. CASE \E n \in Node : Crash(n)  BY <2>8, CrashKeeps
  <2> QED  BY <1>2, <2>1, <2>2, <2>3, <2>4, <2>5, <2>6, <2>7, <2>8, StepCases
<1> QED  BY <1>1, <1>2

LEMMA AlertsInvAlways == Spec => []AlertsInv
<1>1. Init => AlertsInv
  BY AlertsInit
<1>2. AlertsInv /\ [Next]_vars => AlertsInv'
  BY AlertsStep
<1> QED  BY <1>1, <1>2, PTL DEF Spec

LEMMA SteadyIsSpec == SteadySpec => Spec
<1>1. [SteadyNext]_vars => [Next]_vars
  BY DEF Next
<1> QED  BY <1>1, PTL DEF SteadySpec, Spec

\* The types hold whenever and wherever nodes are lost.
THEOREM AlertsTypes == Spec => []AlertsTypeOK
<1>1. AlertsInv => AlertsTypeOK
  BY DEF AlertsInv
<1> QED  BY <1>1, AlertsInvAlways, PTL

\* A running node has each of its rules applied, held and on disk, whatever
\* alerts cancel or expire and whenever nodes are lost.
THEOREM RulesHeld == Spec => []RulesAreHeld
<1>1. AlertsInv => RulesAreHeld
  BY DEF AlertsInv, RulesStored, RulesAreHeld, Running
<1> QED  BY <1>1, AlertsInvAlways, PTL

-----------------------------------------------------------------------------
(* What a peer has been offered, with every loss.                          *)

LEMMA OfferedStep == AlertsInv /\ AlertsAreOffered /\ [Next]_vars => AlertsAreOffered'
<1> SUFFICES ASSUME AlertsInv, AlertsAreOffered, [Next]_vars,
                    NEW l \in gotVersion'
             PROVE  mapAlerts'[l[1]] \ expired' \subseteq setKnown'[l]
  BY DEF AlertsAreOffered
<1> USE InvTypes
<1>1. \A k \in gotVersion : /\ k \in Link /\ k \in vNodes /\ k[1] \in Node /\ Running(k[1])
                            /\ mapAlerts[k[1]] \ expired \subseteq setKnown[k]
  BY LinkEnds DEF AlertsAreOffered, AlertsInv, Linked
<1>2. CASE UNCHANGED vars
  BY <1>1, <1>2 DEF vars
<1>3. CASE Fewer
  <2>1. /\ UNCHANGED <<gotVersion, setKnown>> /\ expired \subseteq expired'
        /\ \A p \in Node : mapAlerts'[p] \subseteq mapAlerts[p]
    BY <1>3, FewerSteps
  <2> QED  BY <1>1, <2>1
<1>4. CASE \E n \in Node, a \in Alert : SendAlert(n, a)
  <2>1. PICK n \in Node, a \in Alert : SendAlert(n, a)
    BY <1>4
  <2>2. AddAlert(nID', n, a) /\ Relay(n, a, setKnown, chan) /\ UNCHANGED <<expired, gotVersion>>
    BY <2>1 DEF SendAlert
  <2>3. AlertsTypeOK /\ mapRules[n] = mapAlerts[n] \cap Rule
    BY DEF AlertsInv, RulesStored
  <2>4. /\ mapAlerts'[n] \subseteq mapAlerts[n] \cup {a}
        /\ \A p \in Node \ {n} : mapAlerts'[p] = mapAlerts[p]
    BY <2>2, <2>3, AcceptedRules
  <2>5. /\ \A k \in Link : setKnown[k] \subseteq setKnown'[k]
        /\ \A k \in Link \cap vNodes : k[1] = n => a \in setKnown'[k]
    <3>1. chan \in [Link -> Seq(Alert \cup {Version})] /\ a \in Alert \cup {Version}
      BY <2>3 DEF AlertsTypeOK
    <3> QED  BY <2>2, <3>1, RelayKeeps
  <2> QED  BY <1>1, <2>2, <2>4, <2>5
<1>5. CASE \E d \in Dials : Connect(d)
  <2>1. UNCHANGED <<gotVersion, setKnown, mapAlerts, expired>>
    BY <1>5 DEF Connect
  <2> QED  BY <1>1, <2>1
<1>6. CASE \E d \in Dials : Disconnect(d)
  <2>1. PICK d \in Dials : Disconnect(d)
    BY <1>6
  <2>2. Drop({d, Back(d)}) /\ UNCHANGED <<mapAlerts, expired>>
    BY <2>1 DEF Disconnect
  <2>3. d \in Link /\ Back(d) \in Link /\ Back(Back(d)) = d
    <3>1. d \in Link
      BY DEF Link
    <3> QED  BY <3>1, LinkEnds
  <2>4. \A k \in Link : Back(k) \in {d, Back(d)} => k \in {d, Back(d)}
    BY <2>3, LinkEnds
  <2>5. /\ gotVersion' \subseteq gotVersion /\ gotVersion' \subseteq vNodes'
        /\ \A k \in vNodes' : setKnown'[k] = setKnown[k]
    BY <2>2, <2>3, <2>4, DropKeeps
  <2> QED  BY <1>1, <2>2, <2>5
<1>7. CASE \E k \in Link : ReceiveVersion(k)
  <2>1. PICK k \in Link : ReceiveVersion(k)
    BY <1>7
  <2>2. UNCHANGED <<mapAlerts, expired>>
    BY <2>1 DEF ReceiveVersion
  <2>3. /\ mapAlerts[k[1]] \ expired \subseteq setKnown'[k]
        /\ \A j \in Link \ {k} : setKnown'[j] = setKnown[j]
        /\ gotVersion' = gotVersion \cup {k}
    BY <2>1, VersionKeeps
  <2> QED  BY <1>1, <2>2, <2>3
<1>8. CASE \E k \in Link, a \in Alert : ReceiveAlert(k, a)
  <2>1. PICK k \in Link, a \in Alert : ReceiveAlert(k, a)
    BY <1>8
  <2> DEFINE n == k[1]
             queues == [chan EXCEPT ![Back(k)] = Tail(@)]
             known == [setKnown EXCEPT ![k] = @ \cup {a}]
  <2>2. /\ AddAlert(nID, n, a) /\ Relay(n, a, known, queues)
        /\ UNCHANGED <<expired, gotVersion>>
    BY <2>1 DEF ReceiveAlert
  <2>3. /\ n \in Node /\ AlertsTypeOK /\ mapRules[n] = mapAlerts[n] \cap Rule
        /\ Back(k) \in Link /\ chan[Back(k)] # << >> /\ a = Head(chan[Back(k)])
    BY <2>1, LinkEnds DEF AlertsInv, RulesStored, ReceiveAlert
  <2>4. queues \in [Link -> Seq(Sent \cup {Version})] /\ a \in Sent \cup {Version}
    BY <2>3, ReceiveTail
  <2>5. known \in [Link -> SUBSET Alert] /\ \A j \in Link : setKnown[j] \subseteq known[j]
    OBVIOUS
  <2> HIDE DEF n, queues, known
  <2>6. /\ mapAlerts'[n] \subseteq mapAlerts[n] \cup {a}
        /\ \A p \in Node \ {n} : mapAlerts'[p] = mapAlerts[p]
    BY <2>2, <2>3, AcceptedRules
  <2>7. /\ \A j \in Link : known[j] \subseteq setKnown'[j]
        /\ \A j \in Link \cap vNodes : j[1] = n => a \in setKnown'[j]
    BY <2>2, <2>3, <2>4, <2>5, RelayKeeps
  <2>8. /\ l \in Link \cap vNodes /\ l[1] \in Node
        /\ mapAlerts[l[1]] \ expired \subseteq setKnown[l]
    BY <1>1, <2>2
  <2>9. setKnown[l] \subseteq setKnown'[l]
    BY <2>5, <2>7, <2>8
  <2>10. CASE l[1] = n  BY <2>2, <2>6, <2>7, <2>8, <2>9, <2>10
  <2>11. CASE l[1] # n  BY <2>2, <2>6, <2>8, <2>9, <2>11
  <2> QED  BY <2>10, <2>11
<1>9. CASE \E n \in Node, r \in Rule : LoadRule(n, r)
  <2>1. PICK n \in Node, r \in Rule : LoadRule(n, r)
    BY <1>9
  <2>2. /\ r \in toLoad[n] /\ AddAlert(nID, n, r)
        /\ UNCHANGED <<expired, gotVersion, setKnown>>
    BY <2>1 DEF LoadRule, network
  <2>3. AlertsTypeOK /\ mapRules[n] = mapAlerts[n] \cap Rule /\ r \in Alert
    BY DEF AlertsInv, RulesStored, Alert
  <2>4. \A p \in Node \ {n} : mapAlerts'[p] = mapAlerts[p]
    BY <2>2, <2>3, AcceptedRules
  <2>5. l[1] # n
    BY <1>1, <2>2 DEF Running
  <2> QED  BY <1>1, <2>2, <2>4, <2>5
<1>10. CASE \E n \in Node : Crash(n)
  <2>1. PICK n \in Node : Crash(n)
    BY <1>10
  <2> DEFINE L == {k \in Link : n \in {k[1], k[2]}}
  <2>2. Drop(L) /\ mapAlerts' = [mapAlerts EXCEPT ![n] = {}] /\ UNCHANGED expired
    BY <2>1 DEF Crash
  <2>3. L \in SUBSET Link /\ \A k \in Link : Back(k) \in L => k \in L
    BY DEF Back
  <2> HIDE DEF L
  <2>4. /\ gotVersion' \subseteq gotVersion /\ gotVersion' \subseteq vNodes'
        /\ \A k \in vNodes' : setKnown'[k] = setKnown[k]
    BY <2>2, <2>3, DropKeeps
  <2>5. \A p \in Node : mapAlerts'[p] \subseteq mapAlerts[p]
    BY <2>2
  <2> QED  BY <1>1, <2>2, <2>4, <2>5
<1> QED
  BY <1>2, <1>3, <1>4, <1>5, <1>6, <1>7, <1>8, <1>9, <1>10, StepCases DEF Next

\* A peer whose version has come has been offered every alert in effect.
THEOREM AlertsOffered == Spec => []AlertsAreOffered
<1>1. Init => AlertsAreOffered
  BY DEF Init, AlertsAreOffered
<1>2. AlertsInv /\ AlertsAreOffered /\ [Next]_vars => AlertsAreOffered'
  BY OfferedStep
<1> QED  BY <1>1, <1>2, AlertsInvAlways, PTL DEF Spec

-----------------------------------------------------------------------------
(***************************************************************************)
(* Rules are never lost, nor confused, when no node is lost while it reads *)
(* rules.dat.                                                              *)
(***************************************************************************)

LEMMA RulesKept ==
    ASSUME AlertsInv, [SteadyNext]_vars, NEW p \in Node
    PROVE  (mapAlerts[p] \cap Rule) \cup toLoad[p] \subseteq mapAlerts'[p] \cup toLoad'[p]
<1> USE InvTypes
<1>1. \A n \in Node : /\ mapRules[n] = mapAlerts[n] \cap Rule /\ AlertsTypeOK
                      /\ Running(n) => toLoad[n] = {} /\ rulesDat[n] = mapRules[n]
  BY DEF AlertsInv, RulesStored, Running
<1>2. CASE UNCHANGED vars
  BY <1>2 DEF vars
<1>3. CASE Fewer
  BY <1>3, FewerSteps
<1>4. CASE \E n \in Node, a \in Alert : SendAlert(n, a)
  <2>1. PICK n \in Node, a \in Alert : SendAlert(n, a)
    BY <1>4
  <2>2. AddAlert(nID', n, a) /\ UNCHANGED toLoad
    BY <2>1 DEF SendAlert
  <2>3. /\ mapAlerts[n] \cap Rule \subseteq mapAlerts'[n]
        /\ \A k \in Node \ {n} : mapAlerts'[k] = mapAlerts[k]
    BY <1>1, <2>2, AcceptedRules
  <2> QED  BY <2>2, <2>3
<1>5. CASE (\E d \in Dials : Connect(d) \/ Disconnect(d)) \/ \E l \in Link : ReceiveVersion(l)
  <2>1. UNCHANGED <<mapAlerts, toLoad>>
    BY <1>5 DEF Connect, Disconnect, ReceiveVersion
  <2> QED  BY <2>1
<1>6. CASE \E l \in Link, a \in Alert : ReceiveAlert(l, a)
  <2>1. PICK l \in Link, a \in Alert : ReceiveAlert(l, a)
    BY <1>6
  <2>2. AddAlert(nID, l[1], a) /\ UNCHANGED toLoad /\ l[1] \in Node
    BY <2>1, LinkEnds DEF ReceiveAlert
  <2>3. /\ mapAlerts[l[1]] \cap Rule \subseteq mapAlerts'[l[1]]
        /\ \A k \in Node \ {l[1]} : mapAlerts'[k] = mapAlerts[k]
    BY <1>1, <2>2, AcceptedRules
  <2> QED  BY <2>2, <2>3
<1>7. CASE \E n \in Node, r \in Rule : LoadRule(n, r)
  <2>1. PICK n \in Node, r \in Rule : LoadRule(n, r)
    BY <1>7
  <2>2. AddAlert(nID, n, r) /\ toLoad' = [toLoad EXCEPT ![n] = @ \ {r}] /\ r \in Alert
    BY <2>1 DEF LoadRule, Alert
  <2>3. /\ r \in mapAlerts'[n] /\ mapAlerts[n] \cap Rule \subseteq mapAlerts'[n]
        /\ \A k \in Node \ {n} : mapAlerts'[k] = mapAlerts[k]
    BY <1>1, <2>2, AcceptedRules
  <2> QED  BY <2>2, <2>3
<1>8. CASE \E n \in Node : Running(n) /\ Crash(n)
  <2>1. PICK n \in Node : Running(n) /\ Crash(n)
    BY <1>8
  <2>2. /\ toLoad' = [toLoad EXCEPT ![n] = rulesDat[n]]
        /\ mapAlerts' = [mapAlerts EXCEPT ![n] = {}]
    BY <2>1 DEF Crash
  <2> QED  BY <1>1, <2>1, <2>2
<1>9. SteadyNext =>
         \/ Fewer
         \/ \E n \in Node, a \in Alert : SendAlert(n, a)
         \/ (\E d \in Dials : Connect(d) \/ Disconnect(d)) \/ \E l \in Link : ReceiveVersion(l)
         \/ \E l \in Link, a \in Alert : ReceiveAlert(l, a)
         \/ \E n \in Node, r \in Rule : LoadRule(n, r)
         \/ \E n \in Node : Running(n) /\ Crash(n)
  BY Zenon DEF SteadyNext, Fewer
<1> QED  BY <1>2, <1>3, <1>4, <1>5, <1>6, <1>7, <1>8, <1>9

\* A node that has a rule keeps it, whatever alerts come and nodes are lost.
THEOREM RulesStay == SteadySpec => RulesNeverLost
<1>1. AlertsInv /\ [SteadyNext]_vars =>
         [\A n \in Node : (mapAlerts[n] \cap Rule) \cup toLoad[n] \subseteq mapAlerts'[n] \cup toLoad'[n]]_vars
  BY RulesKept
<1> QED  BY <1>1, AlertsInvAlways, SteadyIsSpec, PTL DEF SteadySpec, RulesNeverLost

\* What keeps the IDs apart: a sender has every rule that was sent, so that
\* getNextID does not choose the ID of one.
IDsApart ==
    /\ \A n \in Sender, r \in Rule : nID[r] # 0 => r \in mapAlerts[n] \cup toLoad[n]
    /\ \A q, r \in Rule : nID[q] # 0 /\ nID[q] = nID[r] => q = r

LEMMA IDsApartStep ==
    ASSUME \A n, p \in Sender : n = p,
           AlertsInv, IDsApart, [SteadyNext]_vars
    PROVE  IDsApart'
<1> USE InvTypes
<1>1. \A n \in Node : (mapAlerts[n] \cap Rule) \cup toLoad[n] \subseteq mapAlerts'[n] \cup toLoad'[n]
  BY RulesKept
<1>2. Sender \subseteq Node /\ Rule \subseteq Alert
  BY AlertsAssumption DEF Alert
<1>3. CASE UNCHANGED nID
  BY <1>1, <1>2, <1>3 DEF IDsApart
<1>4. CASE \E n \in Node, a \in Alert : SendAlert(n, a)
  <2>1. PICK n \in Node, a \in Alert : SendAlert(n, a)
    BY <1>4
  <2>2. /\ n \in Sender /\ toLoad[n] = {} /\ nID[a] = 0
        /\ nID' = [nID EXCEPT ![a] = NextID(n)]
        /\ AddAlert(nID', n, a)
    BY <2>1 DEF SendAlert, Running
  <2>3. \A b \in mapAlerts[n] : nID[b] # NextID(n)
    BY NextIDIsUnused DEF AlertsInv
  <2>4. a \in mapAlerts'[n]
    BY <2>2, AcceptedRules DEF AlertsInv, RulesStored
  <2>5. \A r \in Rule : nID[r] # 0 => r \in mapAlerts[n]
    BY <2>2 DEF IDsApart
  <2>6. \A p \in Sender, r \in Rule : nID'[r] # 0 => r \in mapAlerts'[p] \cup toLoad'[p]
    <3> SUFFICES ASSUME NEW r \in Rule, nID'[r] # 0
                 PROVE  r \in mapAlerts'[n] \cup toLoad'[n]
      BY <2>2
    <3>1. CASE r = a  BY <2>4, <3>1
    <3>2. CASE r # a  BY <1>1, <1>2, <2>2, <2>5, <3>2
    <3> QED  BY <3>1, <3>2
  <2>7. ASSUME NEW q \in Rule, NEW r \in Rule, nID'[q] # 0, nID'[q] = nID'[r]
        PROVE  q = r
    <3>1. \A k \in Rule : k # a => nID'[k] = nID[k]
      BY <1>2, <2>2
    <3>2. nID'[a] = NextID(n)
      BY <2>2
    <3>3. \A k \in Rule : k # a /\ nID[k] # 0 => nID[k] # NextID(n)
      BY <2>3, <2>5
    <3> QED  BY <2>7, <3>1, <3>2, <3>3 DEF IDsApart
  <2> QED  BY <2>6, <2>7 DEF IDsApart
<1>5. SteadyNext => UNCHANGED nID \/ \E n \in Node, a \in Alert : SendAlert(n, a)
  BY DEF SteadyNext, SendFails, Expire, ProcessAlerts, Connect, Disconnect, ReceiveVersion,
         ReceiveAlert, RefuseAlert, IgnoreAlert, LoadRule, Crash
<1> QED  BY <1>3, <1>4, <1>5 DEF vars

\* One authority that uses its key at one node, which is not lost while it
\* reads rules.dat, never gives two rules one ID.
THEOREM RulesAgreeAlways ==
    ASSUME \A n, p \in Sender : n = p
    PROVE  SteadySpec => []RulesAgree
<1>1. Init => IDsApart
  BY AlertsAssumption DEF Init, IDsApart, Alert
<1>2. AlertsInv /\ IDsApart /\ [SteadyNext]_vars => IDsApart'
  BY IDsApartStep
<1>3. AlertsInv /\ IDsApart => RulesAgree
  <2> SUFFICES ASSUME AlertsInv, IDsApart, NEW n \in Node, NEW p \in Node,
                      NEW q \in mapRules[n], NEW r \in mapRules[p], nID[q] = nID[r]
               PROVE  q = r
    BY DEF RulesAgree
  <2>1. q \in Rule /\ r \in Rule /\ q \in mapAlerts[n]
    BY InvTypes DEF AlertsInv, RulesStored
  <2>2. nID[q] # 0
    BY <2>1, InvTypes DEF Sent
  <2> QED  BY <2>1, <2>2 DEF IDsApart
<1> QED  BY <1>1, <1>2, <1>3, AlertsInvAlways, SteadyIsSpec, PTL DEF SteadySpec
=============================================================================
