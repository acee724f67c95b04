------------------------------ MODULE AddrMan ------------------------------
(***************************************************************************)
(* The address manager, CAddrMan (src/addrman.h, src/addrman.cpp).         *)
(*                                                                         *)
(* Addresses are kept in "new" buckets, one address in several of them,    *)
(* and in "tried" buckets, with four indexes and two counters that each    *)
(* operation has to keep in step.  Operations run under one lock, so each  *)
(* is one step of the whole object, the record am.                         *)
(*                                                                         *)
(* Times are not followed: what they decide (an entry too old, the oldest  *)
(* of four, whether an address was seen since) can fall out either way.    *)
(* The hash of a bucket is a constant function.  vvTried is a set for each *)
(* bucket, as nothing depends on the order in it.  Ports are left out: an  *)
(* address known with another port makes Good_ and Attempt_ return.        *)
(***************************************************************************)
EXTENDS Integers, FiniteSets, Sequences, Functions

CONSTANTS
    Addr, Source,
    NBucket, KBucket,          \* the "new" and the "tried" buckets
    GetNewBucket(_, _),        \* of an address and a source
    GetTriedBucket(_),
    NewSize, TriedSize,        \* ADDRMAN_NEW_BUCKET_SIZE, ADDRMAN_TRIED_BUCKET_SIZE
    PerAddress,                \* ADDRMAN_NEW_BUCKETS_PER_ADDRESS
    GetAddrPct, GetAddrMax,    \* ADDRMAN_GETADDR_MAX_PCT, ADDRMAN_GETADDR_MAX
    MaxIds                     \* bound on the ids given between two restarts

ASSUME AddrManAssumption ==
    /\ IsFiniteSet(NBucket) /\ NBucket \subseteq Nat
    /\ \A a \in Addr : GetTriedBucket(a) \in KBucket
    /\ \A a \in Addr, s \in Source : GetNewBucket(a, s) \in NBucket
    /\ {NewSize, TriedSize, PerAddress} \subseteq Nat \ {0}
    /\ GetAddrPct \in 0..100 /\ {GetAddrMax, MaxIds} \subseteq Nat

VARIABLE am

Init ==
    am = [nIdCount |-> 0, vRandom |-> << >>,
          mapInfo |-> [id \in {} |-> id], mapAddr |-> [a \in {} |-> a],
          nTried |-> 0, vvTried |-> [k \in KBucket |-> {}],
          nNew |-> 0, vvNew |-> [b \in NBucket |-> {}]]

Ids(m) == DOMAIN m.mapInfo
Known(m) == DOMAIN m.mapAddr

-----------------------------------------------------------------------------
\* vRandom counts from 1 here.
Create(m, a, s) ==
    LET id == m.nIdCount
        info == [addr |-> a, source |-> s, nRefCount |-> 0, fInTried |-> FALSE,
                 nRandomPos |-> Len(m.vRandom) + 1] IN
    [m EXCEPT !.nIdCount = id + 1, !.nNew = @ + 1,
              !.mapInfo = [i \in Ids(m) \cup {id} |-> IF i = id THEN info ELSE @[i]],
              !.mapAddr = [x \in Known(m) \cup {a} |-> IF x = a THEN id ELSE @[x]],
              !.vRandom = Append(@, id)]

\* Mutant: the position of one of the two entries is not updated.
SwapRandom_HalfUpdate(m, i, j) ==
    [m EXCEPT !.vRandom = [@ EXCEPT ![i] = m.vRandom[j], ![j] = m.vRandom[i]],
              !.mapInfo = [@ EXCEPT ![m.vRandom[i]].nRandomPos = j]]

SwapRandom(m, i, j) ==
    IF i = j THEN m
    ELSE [m EXCEPT !.vRandom = [@ EXCEPT ![i] = m.vRandom[j], ![j] = m.vRandom[i]],
                   !.mapInfo = [@ EXCEPT ![m.vRandom[i]].nRandomPos = j,
                                         ![m.vRandom[j]].nRandomPos = i]]

\* The last reference is gone, and the entry with it.
Delete(m, id) ==
    LET w == SwapRandom(m, m.mapInfo[id].nRandomPos, Len(m.vRandom)) IN
    [w EXCEPT !.vRandom = Restrict(@, 1..(Len(@) - 1)), !.nNew = @ - 1,
              !.mapAddr = Restrict(@, Known(m) \ {m.mapInfo[id].addr}),
              !.mapInfo = Restrict(@, Ids(m) \ {id})]

\* ShrinkNew removes from a bucket the first entry that IsTerrible, or the
\* oldest of four taken at random: any entry.
ShrinkNew(m, b) ==
    {LET w == [m EXCEPT !.mapInfo[id].nRefCount = @ - 1, !.vvNew[b] = @ \ {id}] IN
     IF w.mapInfo[id].nRefCount = 0 THEN Delete(w, id) ELSE w : id \in m.vvNew[b]}

\* The entry takes a place in the bucket of its address and source.
Insert(m, id, b) ==
    IF id \in m.vvNew[b] THEN {m}
    ELSE LET w == [m EXCEPT !.mapInfo[id].nRefCount = @ + 1] IN
         {[x EXCEPT !.vvNew[b] = @ \cup {id}] :
             x \in IF Cardinality(m.vvNew[b]) = NewSize THEN ShrinkNew(w, b) ELSE {w}}

\* Add_, for an address of which there is news.  The stochastic test may stop
\* it for one that is in a bucket already.
Add(a, s) ==
    IF a \in Known(am)
    THEN LET id == am.mapAddr[a] IN
         /\ ~am.mapInfo[id].fInTried
         /\ am.mapInfo[id].nRefCount # PerAddress
         /\ am' \in Insert(am, id, GetNewBucket(a, s))
    ELSE /\ am.nIdCount < MaxIds
         /\ am' \in Insert(Create(am, a, s), am.nIdCount, GetNewBucket(a, s))

\* Mutants: the evicted entry is dropped; it goes to its bucket, full or not.
MakeTried_Drops(m, id, nOrigin, old) ==
    LET k == GetTriedBucket(m.mapInfo[id].addr)
        w == [m EXCEPT !.vvNew = [b \in NBucket |-> m.vvNew[b] \ {id}],
                       !.mapInfo[id] = [@ EXCEPT !.nRefCount = 0, !.fInTried = TRUE],
                       !.nNew = @ - 1, !.vvTried[k] = @ \cup {id}] IN
    IF Cardinality(m.vvTried[k]) < TriedSize THEN [w EXCEPT !.nTried = @ + 1]
    ELSE Delete([w EXCEPT !.vvTried[k] = @ \ {old}, !.nNew = @ + 1], old)

MakeTried_Crowds(m, id, nOrigin, old) ==
    LET k == GetTriedBucket(m.mapInfo[id].addr)
        w == [m EXCEPT !.vvNew = [b \in NBucket |-> m.vvNew[b] \ {id}],
                       !.mapInfo[id] = [@ EXCEPT !.nRefCount = 0, !.fInTried = TRUE],
                       !.nNew = @ - 1, !.vvTried[k] = @ \cup {id}] IN
    IF Cardinality(m.vvTried[k]) < TriedSize THEN [w EXCEPT !.nTried = @ + 1]
    ELSE [w EXCEPT !.vvTried[k] = @ \ {old}, !.nNew = @ + 1,
                   !.mapInfo[old] = [@ EXCEPT !.nRefCount = 1, !.fInTried = FALSE],
                   !.vvNew[GetNewBucket(m.mapInfo[old].addr, m.mapInfo[old].source)]
                        = @ \cup {old}]

\* MakeTried: the entry leaves every "new" bucket.  When its "tried" bucket is
\* full, old is evicted to its own "new" bucket, or to nOrigin.
MakeTried(m, id, nOrigin, old) ==
    LET k == GetTriedBucket(m.mapInfo[id].addr)
        w == [m EXCEPT !.vvNew = [b \in NBucket |-> m.vvNew[b] \ {id}],
                       !.mapInfo[id] = [@ EXCEPT !.nRefCount = 0, !.fInTried = TRUE],
                       !.nNew = @ - 1, !.vvTried[k] = @ \cup {id}]
        home == GetNewBucket(m.mapInfo[old].addr, m.mapInfo[old].source)
    IN
    IF Cardinality(m.vvTried[k]) < TriedSize THEN [w EXCEPT !.nTried = @ + 1]
    ELSE [w EXCEPT !.vvTried[k] = @ \ {old}, !.nNew = @ + 1,
                   !.mapInfo[old] = [@ EXCEPT !.nRefCount = 1, !.fInTried = FALSE],
                   !.vvNew[IF Cardinality(w.vvNew[home]) < NewSize THEN home ELSE nOrigin]
                        = @ \cup {old}]

\* Good_, for an entry not yet tried; SelectTried may choose any position.
Good(a) ==
    /\ a \in Known(am)
    /\ LET id == am.mapAddr[a]
           full == am.vvTried[GetTriedBucket(a)] IN
       /\ ~am.mapInfo[id].fInTried
       /\ \E nOrigin \in NBucket :
             /\ id \in am.vvNew[nOrigin]
             /\ \E old \in IF Cardinality(full) < TriedSize THEN {id} ELSE full :
                   am' = MakeTried(am, id, nOrigin, old)

\* The first n positions of vRandom swapped, each with one not before it.
Shuffled(m, n, pick) ==
    LET shuffle[i \in 0..n] ==
            IF i = 0 THEN m ELSE SwapRandom(shuffle[i - 1], i, pick[i])
    IN shuffle[n]

\* GetAddr_ shuffles the first of vRandom.
GetAddr ==
    LET some == (GetAddrPct * Len(am.vRandom)) \div 100
        n == IF some > GetAddrMax THEN GetAddrMax ELSE some IN
    \E pick \in [1..n -> 1..Len(am.vRandom)] :
       /\ \A i \in 1..n : pick[i] >= i
       /\ am' = Shuffled(am, n, pick)

-----------------------------------------------------------------------------
(***************************************************************************)
(* The serialized form, written by ThreadDumpAddress and at shutdown, and  *)
(* read at the next start.  A dump made earlier leads where a restart at   *)
(* the time of the dump leads.                                             *)
(***************************************************************************)

\* The place of an id among some, in ascending order, from 0.
Rank(ids, id) == Cardinality({i \in ids : i < id})

Referenced(m) == {id \in Ids(m) : m.mapInfo[id].nRefCount # 0}
Tried(m) == {id \in Ids(m) : m.mapInfo[id].fInTried}

\* What is written: the entries in the order of their ids, no more than the
\* counters say, and for each "new" bucket the indexes of its entries.
WrittenNew(m) == LET all == Referenced(m) IN {id \in all : Rank(all, id) < m.nNew}
WrittenTried(m) == LET all == Tried(m) IN {id \in all : Rank(all, id) < m.nTried}

\* Mutant: the index counts every entry before, tried ones too.
mapUnkIds_All(m, id) == Rank(Ids(m), id)

mapUnkIds(m, id) == Rank(Referenced(m), id)

\* The tried entries that do not find their bucket full when they are read.
Kept(m) ==
    LET tried == WrittenTried(m)
        k(id) == GetTriedBucket(m.mapInfo[id].addr) IN
    {id \in tried : Cardinality({i \in tried : i < id /\ k(i) = k(id)}) < TriedSize}

\* The entry that is read as each of the ids, "new" entries first.
NewId(new, kept, id) ==
    IF id \in new THEN Rank(new, id) ELSE Cardinality(new) + Rank(kept, id)

Read(new, kept) ==
    [i \in 0..(Cardinality(new) + Cardinality(kept) - 1) |->
        CHOOSE id \in new \cup kept : NewId(new, kept, id) = i]

\* What is read: everything that is memory only is rebuilt.  An entry goes into
\* the first of its "new" buckets, as many as it may have references.
Loaded(m) ==
    LET new == WrittenNew(m)
        kept == Kept(m)
        old == Read(new, kept)
        nIds == Cardinality(new) + Cardinality(kept)
        written == [b \in NBucket |-> {mapUnkIds(m, id) : id \in m.vvNew[b]}]
        buckets == [b \in NBucket |-> {i \in written[b] :
            Cardinality({c \in NBucket : c < b /\ i \in written[c]}) < PerAddress}]
    IN [nIdCount |-> nIds, vRandom |-> [p \in 1..nIds |-> p - 1],
        nNew |-> Cardinality(new), nTried |-> Cardinality(kept),
        mapInfo |-> [i \in 0..(nIds - 1) |->
            [addr |-> m.mapInfo[old[i]].addr, source |-> m.mapInfo[old[i]].source,
             nRefCount |-> Cardinality({b \in NBucket : i \in buckets[b]}),
             fInTried |-> i >= Cardinality(new), nRandomPos |-> i + 1]],
        mapAddr |-> [a \in {m.mapInfo[old[i]].addr : i \in 0..(nIds - 1)} |->
            CHOOSE i \in 0..(nIds - 1) : m.mapInfo[old[i]].addr = a],
        vvTried |-> [k \in KBucket |-> {i \in Cardinality(new)..(nIds - 1) :
                        GetTriedBucket(m.mapInfo[old[i]].addr) = k}],
        vvNew |-> buckets]

Restart == am' = Loaded(am)

Next ==
    \/ \E a \in Addr, s \in Source : Add(a, s)
    \/ \E a \in Addr : Good(a)
    \/ GetAddr
    \/ Restart

Spec == Init /\ [][Next]_am

-----------------------------------------------------------------------------
(***************************************************************************)
(* Properties.                                                             *)
(***************************************************************************)

\* CAddrMan::Check_ finds nothing wrong: the counters, the ids in the buckets,
\* the references, the index by address and the positions in vRandom agree.
CheckPasses ==
    /\ Len(am.vRandom) = am.nTried + am.nNew
    /\ Cardinality(Tried(am)) = am.nTried
    /\ Cardinality(Ids(am)) = am.nTried + am.nNew
    /\ \A id \in Ids(am) :
          LET info == am.mapInfo[id] IN
          /\ info.addr \in Known(am) /\ am.mapAddr[info.addr] = id
          /\ info.nRandomPos \in DOMAIN am.vRandom /\ am.vRandom[info.nRandomPos] = id
          /\ info.nRefCount = Cardinality({b \in NBucket : id \in am.vvNew[b]})
          /\ IF info.fInTried THEN info.nRefCount = 0 ELSE info.nRefCount \in 1..PerAddress
    /\ UNION {am.vvTried[k] : k \in KBucket} = Tried(am)
    /\ UNION {am.vvNew[b] : b \in NBucket} = Ids(am) \ Tried(am)

\* "Only keep a limited number of addresses around" (addrman.h): no bucket
\* outgrows its size, though the size is tested for equality only and evicted
\* entries come back into the bucket another one has left.
BucketsBounded ==
    /\ \A b \in NBucket : Cardinality(am.vvNew[b]) <= NewSize
    /\ \A k \in KBucket : Cardinality(am.vvTried[k]) <= TriedSize

\* "They are never deleted while in the tried table, only possibly evicted
\* back to the new table" (addrman.h).
TriedStayKnown ==
    [][\A id \in Ids(am) : am.mapInfo[id].fInTried => am.mapInfo[id].addr \in Known(am')]_am

\* What is known of an address: whether it was tried, and its buckets.
Standing(m, a) ==
    LET id == m.mapAddr[a] IN
    [tried |-> m.mapInfo[id].fInTried, source |-> m.mapInfo[id].source,
     buckets |-> {b \in NBucket : id \in m.vvNew[b]}, kbuckets |-> {k \in KBucket : id \in m.vvTried[k]}]

\* A restart loses no address and moves none to another bucket, though ids,
\* references and positions are rebuilt.
RestartKeepsTable ==
    [][Restart => /\ Known(am') = Known(am)
                  /\ \A a \in Known(am) : Standing(am', a) = Standing(am, a)]_am
=============================================================================
