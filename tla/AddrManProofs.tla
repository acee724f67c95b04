--------------------------- MODULE AddrManProofs ---------------------------
(***************************************************************************)
(* Theorems about AddrMan, for any addresses, sources and hash, any number *)
(* of buckets and any sizes.                                               *)
(***************************************************************************)
EXTENDS AddrMan, FiniteSetTheorems, NaturalsInduction, WellFoundedInduction, TLAPS

Info == [addr : Addr, source : Source, nRefCount : Int, fInTried : BOOLEAN, nRandomPos : Int]

TypeOK(m) ==
    /\ m \in [nIdCount : Nat, vRandom : Seq(Nat), nTried : Int, nNew : Int,
              mapInfo : [Ids(m) -> Info], mapAddr : [Known(m) -> Nat],
              vvTried : [KBucket -> SUBSET Nat], vvNew : [NBucket -> SUBSET Nat]]
    /\ Ids(m) \subseteq Nat /\ Known(m) \subseteq Addr

\* Every id has a place in vRandom, and every place has an id.
RandomInv(m) ==
    /\ \A id \in Ids(m) :
          LET p == m.mapInfo[id].nRandomPos IN p \in 1..Len(m.vRandom) /\ m.vRandom[p] = id
    /\ \A p \in 1..Len(m.vRandom) :
          m.vRandom[p] \in Ids(m) /\ m.mapInfo[m.vRandom[p]].nRandomPos = p

LEMMA ArrayIsSeq ==
    ASSUME NEW n \in Nat, NEW f \in [1..n -> Nat]
    PROVE  f \in Seq(Nat) /\ Len(f) = n
OBVIOUS

\* What a swap leaves alone: everything but the positions.
SameEntry(i, j) ==
    /\ i.addr = j.addr /\ i.source = j.source
    /\ i.nRefCount = j.nRefCount /\ i.fInTried = j.fInTried

SameBut(w, m) ==
    /\ w.nIdCount = m.nIdCount /\ w.nTried = m.nTried /\ w.nNew = m.nNew
    /\ w.mapAddr = m.mapAddr /\ w.vvTried = m.vvTried /\ w.vvNew = m.vvNew
    /\ Len(w.vRandom) = Len(m.vRandom) /\ Ids(w) = Ids(m)
    /\ \A id \in Ids(m) : SameEntry(w.mapInfo[id], m.mapInfo[id])

\* A swap keeps the positions right and changes nothing else.
LEMMA SwapKeeps ==
    ASSUME NEW m, TypeOK(m), RandomInv(m),
           NEW i \in 1..Len(m.vRandom), NEW j \in 1..Len(m.vRandom)
    PROVE  LET w == SwapRandom(m, i, j) IN
           /\ TypeOK(w) /\ RandomInv(w) /\ SameBut(w, m)
           /\ w.vRandom[j] = m.vRandom[i]
<1> DEFINE w == SwapRandom(m, i, j)
<1>1. CASE i = j
  <2>1. w = m
    BY <1>1 DEF SwapRandom
  <2> QED  BY <1>1, <2>1 DEF SameBut, SameEntry
<1>2. CASE i # j
  <2> DEFINE x == m.vRandom[i]
             y == m.vRandom[j]
  <2>1. /\ x = m.vRandom[i] /\ y = m.vRandom[j]
        /\ x \in Ids(m) /\ y \in Ids(m) /\ x # y
        /\ m.mapInfo[x].nRandomPos = i /\ m.mapInfo[y].nRandomPos = j
    BY <1>2 DEF RandomInv
  <2>2. /\ w = [m EXCEPT !.vRandom = w.vRandom, !.mapInfo = w.mapInfo]
        /\ w.vRandom = [m.vRandom EXCEPT ![i] = y, ![j] = x]
        /\ w.mapInfo = [m.mapInfo EXCEPT ![x].nRandomPos = j, ![y].nRandomPos = i]
    BY <1>2 DEF SwapRandom, TypeOK
  <2>3. w.vRandom \in Seq(Nat) /\ Len(w.vRandom) = Len(m.vRandom)
    BY <2>1, <2>2 DEF TypeOK
  <2>4. \A p \in 1..Len(m.vRandom) :
           w.vRandom[p] = IF p = i THEN y ELSE IF p = j THEN x ELSE m.vRandom[p]
    BY <2>1, <2>2 DEF TypeOK
  <2>5. /\ Ids(w) = Ids(m)
        /\ \A id \in Ids(m) :
              w.mapInfo[id] = [m.mapInfo[id] EXCEPT !.nRandomPos =
                                  IF id = x THEN j ELSE IF id = y THEN i ELSE m.mapInfo[id].nRandomPos]
    BY <2>1, <2>2 DEF Ids, TypeOK, Info
  <2> HIDE DEF w, x, y
  <2>6. \A id \in Ids(m) :
           /\ w.mapInfo[id] \in Info
           /\ SameEntry(w.mapInfo[id], m.mapInfo[id])
           /\ w.mapInfo[id].nRandomPos =
                 IF id = x THEN j ELSE IF id = y THEN i ELSE m.mapInfo[id].nRandomPos
    <3> TAKE id \in Ids(m)
    <3> DEFINE r == m.mapInfo[id]
               q == IF id = x THEN j ELSE IF id = y THEN i ELSE r.nRandomPos
    <3>1. r \in Info
      BY DEF TypeOK
    <3>2. w.mapInfo[id] = [r EXCEPT !.nRandomPos = q]
      BY <2>5
    <3>3. q \in Int
      BY <3>1 DEF Info
    <3> HIDE DEF r, q
    <3>4. /\ w.mapInfo[id] \in Info /\ SameEntry(w.mapInfo[id], r)
          /\ w.mapInfo[id].nRandomPos = q
      BY <3>1, <3>2, <3>3 DEF Info, SameEntry
    <3> QED  BY <3>4 DEF r, q
  <2>7. w.mapInfo \in [Ids(m) -> Info]
    <3>1. w.mapInfo = [id \in Ids(m) |-> w.mapInfo[id]]
      BY <2>2 DEF Ids, TypeOK
    <3> QED  BY <2>6, <3>1
  <2>8. SameBut(w, m)
    <3>1. /\ w.nIdCount = m.nIdCount /\ w.nTried = m.nTried /\ w.nNew = m.nNew
          /\ w.mapAddr = m.mapAddr /\ w.vvTried = m.vvTried /\ w.vvNew = m.vvNew
      BY <2>2 DEF TypeOK
    <3> QED  BY <2>3, <2>5, <2>6, <3>1 DEF SameBut
  <2>9. TypeOK(w)
    BY <2>2, <2>3, <2>5, <2>7 DEF TypeOK, Known
  <2>10. RandomInv(w)
    <3>1. Ids(w) = Ids(m)
      BY <2>5
    <3>2. ASSUME NEW id \in Ids(m)
          PROVE  LET p == w.mapInfo[id].nRandomPos IN
                 p \in 1..Len(m.vRandom) /\ w.vRandom[p] = id
      <4> DEFINE p == m.mapInfo[id].nRandomPos
      <4>1. p \in 1..Len(m.vRandom) /\ m.vRandom[p] = id
        BY DEF RandomInv
      <4>2. CASE id = x
        BY <1>2, <2>1, <2>4, <2>6, <4>2
      <4>3. CASE id = y
        BY <1>2, <2>1, <2>4, <2>6, <4>3
      <4>4. CASE id # x /\ id # y
        BY <2>1, <2>4, <2>6, <4>1, <4>4
      <4> QED  BY <4>2, <4>3, <4>4
    <3>3. ASSUME NEW p \in 1..Len(m.vRandom)
          PROVE  w.vRandom[p] \in Ids(m) /\ w.mapInfo[w.vRandom[p]].nRandomPos = p
      <4>1. m.vRandom[p] \in Ids(m) /\ m.mapInfo[m.vRandom[p]].nRandomPos = p
        BY DEF RandomInv
      <4>2. CASE p = i
        BY <1>2, <2>1, <2>4, <2>6, <4>2
      <4>3. CASE p = j
        BY <1>2, <2>1, <2>4, <2>6, <4>3
      <4>4. CASE p # i /\ p # j
        BY <2>1, <2>4, <2>6, <4>1, <4>4
      <4> QED  BY <4>2, <4>3, <4>4
    <3> QED  BY <2>3, <3>1, <3>2, <3>3 DEF RandomInv
  <2> QED  BY <1>2, <2>4, <2>8, <2>9, <2>10 DEF w, x
<1> QED  BY <1>1, <1>2

-----------------------------------------------------------------------------
BucketsOf(m, id) == {b \in NBucket : id \in m.vvNew[b]}

\* The index by address and the table by id are inverse to each other.
AddrInv(m) ==
    /\ \A id \in Ids(m) :
          m.mapInfo[id].addr \in Known(m) /\ m.mapAddr[m.mapInfo[id].addr] = id
    /\ \A a \in Known(m) :
          m.mapAddr[a] \in Ids(m) /\ m.mapInfo[m.mapAddr[a]].addr = a

\* The "tried" buckets hold the tried entries, each where its address belongs.
TriedInv(m) ==
    /\ \A k \in KBucket : \A id \in m.vvTried[k] :
          id \in Tried(m) /\ GetTriedBucket(m.mapInfo[id].addr) = k
    /\ \A id \in Tried(m) : id \in m.vvTried[GetTriedBucket(m.mapInfo[id].addr)]

\* The reference count is the number of "new" buckets an entry is in, and one
\* more for an entry whose place is still to be made.
NewInv(m, owed) ==
    /\ \A b \in NBucket : m.vvNew[b] \subseteq Ids(m)
    /\ \A id \in Ids(m) :
          m.mapInfo[id].nRefCount = Cardinality(BucketsOf(m, id))
                                        + IF id \in owed THEN 1 ELSE 0

\* An entry is tried or in "new" buckets, but for the one being handled.
RangeInv(m, bare) ==
    \A id \in Ids(m) \ bare :
        IF m.mapInfo[id].fInTried THEN m.mapInfo[id].nRefCount = 0
        ELSE m.mapInfo[id].nRefCount \in 1..PerAddress

CountInv(m) ==
    /\ Ids(m) \subseteq 0..(m.nIdCount - 1)
    /\ Cardinality(Tried(m)) = m.nTried
    /\ Cardinality(Ids(m)) = m.nTried + m.nNew
    /\ Len(m.vRandom) = m.nTried + m.nNew

BoundInv(m) ==
    /\ \A b \in NBucket : Cardinality(m.vvNew[b]) <= NewSize
    /\ \A k \in KBucket : Cardinality(m.vvTried[k]) <= TriedSize

TableInv(m, owed, bare) ==
    /\ TypeOK(m) /\ RandomInv(m) /\ AddrInv(m) /\ TriedInv(m)
    /\ NewInv(m, owed) /\ RangeInv(m, bare) /\ CountInv(m) /\ BoundInv(m)

\* Whatever has finitely many ids has finite buckets and indexes.
LEMMA FinitelyMany ==
    ASSUME NEW m, TypeOK(m), CountInv(m)
    PROVE  /\ IsFiniteSet(Ids(m)) /\ IsFiniteSet(Tried(m))
           /\ \A id : IsFiniteSet(BucketsOf(m, id)) /\ Cardinality(BucketsOf(m, id)) \in Nat
<1>1. IsFiniteSet(0..(m.nIdCount - 1))
  BY FS_Interval DEF TypeOK
<1>2. IsFiniteSet(Ids(m)) /\ IsFiniteSet(Tried(m))
  <2>1. IsFiniteSet(Ids(m))
    BY <1>1, FS_Subset DEF CountInv
  <2> QED  BY <2>1, FS_Subset DEF Tried
<1>3. ASSUME NEW id
      PROVE  IsFiniteSet(BucketsOf(m, id)) /\ Cardinality(BucketsOf(m, id)) \in Nat
  <2>1. IsFiniteSet(BucketsOf(m, id))
    BY AddrManAssumption, FS_Subset DEF BucketsOf
  <2> QED  BY <2>1, FS_CardinalityType
<1> QED  BY <1>2, <1>3

\* A new reference count and new places for one entry, and what they leave alone.
Counted(m, id, n, N) == [m EXCEPT !.mapInfo[id].nRefCount = n, !.vvNew = N]

LEMMA CountChanges ==
    ASSUME NEW m, TypeOK(m), NEW id \in Ids(m), NEW n \in Int,
           NEW N \in [NBucket -> SUBSET Nat]
    PROVE  LET w == Counted(m, id, n, N) IN
           /\ TypeOK(w) /\ Ids(w) = Ids(m) /\ Known(w) = Known(m) /\ w.vvNew = N
           /\ w.nIdCount = m.nIdCount /\ w.nTried = m.nTried /\ w.nNew = m.nNew
           /\ w.mapAddr = m.mapAddr /\ w.vvTried = m.vvTried /\ w.vRandom = m.vRandom
           /\ \A i \in Ids(m) :
                 /\ w.mapInfo[i].addr = m.mapInfo[i].addr
                 /\ w.mapInfo[i].source = m.mapInfo[i].source
                 /\ w.mapInfo[i].fInTried = m.mapInfo[i].fInTried
                 /\ w.mapInfo[i].nRandomPos = m.mapInfo[i].nRandomPos
                 /\ w.mapInfo[i].nRefCount = IF i = id THEN n ELSE m.mapInfo[i].nRefCount
<1> DEFINE w == Counted(m, id, n, N)
<1>1. /\ w.vvNew = N /\ w.nIdCount = m.nIdCount /\ w.nTried = m.nTried
      /\ w.nNew = m.nNew /\ w.mapAddr = m.mapAddr /\ w.vvTried = m.vvTried
      /\ w.vRandom = m.vRandom
      /\ w.mapInfo = [m.mapInfo EXCEPT ![id] = [m.mapInfo[id] EXCEPT !.nRefCount = n]]
      /\ w = [m EXCEPT !.mapInfo = w.mapInfo, !.vvNew = w.vvNew]
  BY DEF TypeOK, Counted
<1>2. Ids(w) = Ids(m) /\ Known(w) = Known(m)
  BY <1>1 DEF TypeOK, Ids, Known
<1> HIDE DEF w
<1>3. ASSUME NEW i \in Ids(m)
      PROVE  /\ w.mapInfo[i] \in Info
             /\ w.mapInfo[i].addr = m.mapInfo[i].addr
             /\ w.mapInfo[i].source = m.mapInfo[i].source
             /\ w.mapInfo[i].fInTried = m.mapInfo[i].fInTried
             /\ w.mapInfo[i].nRandomPos = m.mapInfo[i].nRandomPos
             /\ w.mapInfo[i].nRefCount = IF i = id THEN n ELSE m.mapInfo[i].nRefCount
  <2>1. m.mapInfo[i] \in Info
    BY DEF TypeOK
  <2>2. w.mapInfo[i] = IF i = id THEN [m.mapInfo[i] EXCEPT !.nRefCount = n] ELSE m.mapInfo[i]
    BY <1>1 DEF TypeOK, Ids
  <2> QED  BY <2>1, <2>2 DEF Info
<1>4. TypeOK(w)
  <2>1. w.mapInfo = [i \in Ids(m) |-> w.mapInfo[i]]
    BY <1>1 DEF Ids, TypeOK
  <2>2. w.mapInfo \in [Ids(m) -> Info]
    BY <1>3, <2>1
  <2> QED  BY <1>1, <1>2, <2>2 DEF TypeOK
<1> QED  BY <1>1, <1>2, <1>3, <1>4 DEF w

LEMMA CountChangesKeep ==
    ASSUME NEW m, TypeOK(m), NEW id \in Ids(m), NEW n \in Int,
           NEW N \in [NBucket -> SUBSET Nat],
           RandomInv(m), AddrInv(m), TriedInv(m), CountInv(m)
    PROVE  LET w == Counted(m, id, n, N) IN
           RandomInv(w) /\ AddrInv(w) /\ TriedInv(w) /\ CountInv(w) /\ Tried(w) = Tried(m)
<1> DEFINE w == Counted(m, id, n, N)
<1>1. /\ Ids(w) = Ids(m) /\ Known(w) = Known(m)
      /\ w.nIdCount = m.nIdCount /\ w.nTried = m.nTried /\ w.nNew = m.nNew
      /\ w.mapAddr = m.mapAddr /\ w.vvTried = m.vvTried /\ w.vRandom = m.vRandom
      /\ \A i \in Ids(m) :
            /\ w.mapInfo[i].addr = m.mapInfo[i].addr
            /\ w.mapInfo[i].fInTried = m.mapInfo[i].fInTried
            /\ w.mapInfo[i].nRandomPos = m.mapInfo[i].nRandomPos
  BY CountChanges
<1> HIDE DEF w
<1>2. Tried(w) = Tried(m)
  BY <1>1 DEF Tried
<1>3. RandomInv(w)
  BY <1>1 DEF RandomInv
<1>4. AddrInv(w)
  BY <1>1 DEF AddrInv
<1>5. TriedInv(w)
  <2>1. Tried(m) \subseteq Ids(m)
    BY DEF Tried
  <2> QED  BY <1>1, <1>2, <2>1 DEF TriedInv
<1>6. CountInv(w)
  BY <1>1, <1>2 DEF CountInv
<1> QED  BY <1>2, <1>3, <1>4, <1>5, <1>6 DEF w

\* Add_ counts the reference before it makes the place for it.
LEMMA OweReference ==
    ASSUME NEW m, NEW id \in Ids(m), TableInv(m, {}, {id}), ~m.mapInfo[id].fInTried,
           m.mapInfo[id].nRefCount \in 0..(PerAddress - 1)
    PROVE  LET w == [m EXCEPT !.mapInfo[id].nRefCount = @ + 1] IN
           /\ TableInv(w, {id}, {}) /\ Ids(w) = Ids(m) /\ w.vvNew = m.vvNew
           /\ \A i \in Ids(m) :
                 /\ w.mapInfo[i].addr = m.mapInfo[i].addr
                 /\ w.mapInfo[i].fInTried = m.mapInfo[i].fInTried
<1> DEFINE n == m.mapInfo[id].nRefCount + 1
           w == Counted(m, id, n, m.vvNew)
<1>1. TypeOK(m) /\ RandomInv(m) /\ AddrInv(m) /\ TriedInv(m) /\ CountInv(m)
  BY DEF TableInv
<1>2. n \in 1..PerAddress /\ PerAddress \in Nat
  BY AddrManAssumption
<1>3. m.vvNew \in [NBucket -> SUBSET Nat]
  BY <1>1 DEF TypeOK
<1>4. [m EXCEPT !.mapInfo[id].nRefCount = @ + 1] = w
  BY <1>1 DEF TypeOK, Counted
<1> HIDE DEF n
<1>5. /\ TypeOK(w) /\ Ids(w) = Ids(m) /\ w.vvNew = m.vvNew /\ w.vvTried = m.vvTried
      /\ \A i \in Ids(m) :
            /\ w.mapInfo[i].addr = m.mapInfo[i].addr
            /\ w.mapInfo[i].fInTried = m.mapInfo[i].fInTried
            /\ w.mapInfo[i].nRefCount = IF i = id THEN n ELSE m.mapInfo[i].nRefCount
  BY <1>1, <1>2, <1>3, CountChanges
<1>6. RandomInv(w) /\ AddrInv(w) /\ TriedInv(w) /\ CountInv(w) /\ Tried(w) = Tried(m)
  BY <1>1, <1>2, <1>3, CountChangesKeep
<1> HIDE DEF w
<1>7. NewInv(w, {id})
  <2>1. \A i \in Ids(m) : Cardinality(BucketsOf(w, i)) \in Nat
                             /\ BucketsOf(w, i) = BucketsOf(m, i)
    BY <1>5, <1>6, FinitelyMany DEF BucketsOf
  <2>2. NewInv(m, {})
    BY DEF TableInv
  <2> QED  BY <1>5, <2>1, <2>2 DEF NewInv, n
<1>8. RangeInv(w, {})
  BY <1>2, <1>5 DEF RangeInv, TableInv
<1>9. BoundInv(w)
  BY <1>5 DEF BoundInv, TableInv
<1> QED  BY <1>4, <1>5, <1>6, <1>7, <1>8, <1>9 DEF TableInv

\* The place made is taken, and the count is right again.
LEMMA TakePlace ==
    ASSUME NEW m, NEW id \in Ids(m), TableInv(m, {id}, {}), ~m.mapInfo[id].fInTried,
           NEW b \in NBucket, id \notin m.vvNew[b], Cardinality(m.vvNew[b]) < NewSize
    PROVE  LET w == [m EXCEPT !.vvNew[b] = @ \cup {id}] IN
           /\ TableInv(w, {}, {}) /\ w.mapInfo = m.mapInfo
<1> DEFINE n == m.mapInfo[id].nRefCount
           N == [m.vvNew EXCEPT ![b] = @ \cup {id}]
           w == Counted(m, id, n, N)
           v == [m EXCEPT !.vvNew[b] = @ \cup {id}]
<1>1. /\ TypeOK(m) /\ RandomInv(m) /\ AddrInv(m) /\ TriedInv(m) /\ CountInv(m)
      /\ NewInv(m, {id}) /\ RangeInv(m, {}) /\ BoundInv(m)
  BY DEF TableInv
<1>2. n \in Int
  BY <1>1 DEF TypeOK, Info
<1>3. N \in [NBucket -> SUBSET Nat]
  BY <1>1 DEF TypeOK
<1>4. v.mapInfo = m.mapInfo /\ v = w
  <2>1. m.mapInfo = [m.mapInfo EXCEPT ![id].nRefCount = n]
    BY <1>1 DEF TypeOK, Info
  <2> QED  BY <1>1, <2>1 DEF TypeOK, Counted
<1> HIDE DEF n, N
<1>5. /\ TypeOK(w) /\ Ids(w) = Ids(m) /\ w.vvNew = N /\ w.vvTried = m.vvTried
  BY <1>1, <1>2, <1>3, CountChanges
<1>6. RandomInv(w) /\ AddrInv(w) /\ TriedInv(w) /\ CountInv(w) /\ Tried(w) = Tried(m)
  BY <1>1, <1>2, <1>3, CountChangesKeep
<1> HIDE DEF w, v
<1>7. \A c \in NBucket : N[c] = IF c = b THEN m.vvNew[b] \cup {id} ELSE m.vvNew[c]
  BY <1>1 DEF N, TypeOK
<1>8. IsFiniteSet(Ids(m)) /\ \A i : IsFiniteSet(BucketsOf(m, i))
                                       /\ Cardinality(BucketsOf(m, i)) \in Nat
  BY <1>1, FinitelyMany
<1>9. NewInv(w, {})
  <2>1. \A c \in NBucket : w.vvNew[c] \subseteq Ids(w)
    BY <1>1, <1>5, <1>7 DEF NewInv
  <2>2. ASSUME NEW i \in Ids(m), i # id
        PROVE  w.mapInfo[i].nRefCount = Cardinality(BucketsOf(w, i))
    <3>1. BucketsOf(w, i) = BucketsOf(m, i)
      BY <1>5, <1>7, <2>2 DEF BucketsOf
    <3> QED  BY <1>1, <1>4, <1>8, <2>2, <3>1 DEF NewInv
  <2>3. w.mapInfo[id].nRefCount = Cardinality(BucketsOf(w, id))
    <3>1. BucketsOf(w, id) = BucketsOf(m, id) \cup {b} /\ b \notin BucketsOf(m, id)
      BY <1>5, <1>7 DEF BucketsOf
    <3>2. Cardinality(BucketsOf(w, id)) = Cardinality(BucketsOf(m, id)) + 1
      BY <1>8, <3>1, FS_AddElement
    <3> QED  BY <1>1, <1>4, <1>8, <3>2 DEF NewInv
  <2>4. \A i \in Ids(m) : Cardinality(BucketsOf(w, i)) \in Nat
    BY <1>5, <1>6, FinitelyMany
  <2> QED  BY <1>5, <2>1, <2>2, <2>3, <2>4 DEF NewInv
<1>10. RangeInv(w, {})
  BY <1>1, <1>4, <1>5 DEF RangeInv
<1>11. BoundInv(w)
  <2>1. IsFiniteSet(m.vvNew[b]) /\ Cardinality(m.vvNew[b]) \in Nat /\ NewSize \in Nat
    BY <1>1, <1>8, FS_Subset, FS_CardinalityType, AddrManAssumption DEF NewInv
  <2>2. Cardinality(m.vvNew[b] \cup {id}) = Cardinality(m.vvNew[b]) + 1
    BY <2>1, FS_AddElement
  <2> QED  BY <1>1, <1>5, <1>7, <2>1, <2>2 DEF BoundInv
<1> QED  BY <1>4, <1>5, <1>6, <1>9, <1>10, <1>11 DEF TableInv, v

\* Swaps of positions are nothing to the rest of the table.
LEMMA SameButKeeps ==
    ASSUME NEW m, NEW w, NEW owed, NEW bare, TableInv(m, owed, bare),
           TypeOK(w), RandomInv(w), SameBut(w, m)
    PROVE  TableInv(w, owed, bare)
<1>1. /\ Ids(w) = Ids(m) /\ Known(w) = Known(m) /\ Len(w.vRandom) = Len(m.vRandom)
      /\ w.nIdCount = m.nIdCount /\ w.nTried = m.nTried /\ w.nNew = m.nNew
      /\ w.mapAddr = m.mapAddr /\ w.vvTried = m.vvTried /\ w.vvNew = m.vvNew
      /\ \A i \in Ids(m) :
            /\ w.mapInfo[i].addr = m.mapInfo[i].addr
            /\ w.mapInfo[i].fInTried = m.mapInfo[i].fInTried
            /\ w.mapInfo[i].nRefCount = m.mapInfo[i].nRefCount
  BY DEF SameBut, SameEntry, Known
<1>2. Tried(w) = Tried(m) /\ Tried(m) \subseteq Ids(m)
  BY <1>1 DEF Tried
<1>3. AddrInv(w)
  BY <1>1 DEF AddrInv, TableInv
<1>4. TriedInv(w)
  BY <1>1, <1>2 DEF TriedInv, TableInv
<1>5. NewInv(w, owed)
  <2>1. \A i : BucketsOf(w, i) = BucketsOf(m, i)
    BY <1>1 DEF BucketsOf
  <2> QED  BY <1>1, <2>1 DEF NewInv, TableInv
<1>6. RangeInv(w, bare)
  BY <1>1 DEF RangeInv, TableInv
<1>7. CountInv(w)
  BY <1>1, <1>2 DEF CountInv, TableInv
<1>8. BoundInv(w)
  BY <1>1 DEF BoundInv, TableInv
<1> QED  BY <1>3, <1>4, <1>5, <1>6, <1>7, <1>8 DEF TableInv

\* ShrinkNew takes a reference from an entry of the bucket.
Left(m, b, id) == [m EXCEPT !.mapInfo[id].nRefCount = @ - 1, !.vvNew[b] = @ \ {id}]

LEMMA LeavePlace ==
    ASSUME NEW m, NEW owed, TableInv(m, owed, {}),
           NEW b \in NBucket, NEW id \in m.vvNew[b], id \notin owed
    PROVE  LET w == Left(m, b, id) IN
           /\ TableInv(w, owed, {id}) /\ Ids(w) = Ids(m) /\ id \in Ids(m)
           /\ w.mapInfo[id].nRefCount \in 0..(PerAddress - 1)
           /\ ~w.mapInfo[id].fInTried
           /\ w.vvNew[b] = m.vvNew[b] \ {id}
           /\ Cardinality(w.vvNew[b]) = Cardinality(m.vvNew[b]) - 1
           /\ \A i \in Ids(m) :
                 /\ w.mapInfo[i].addr = m.mapInfo[i].addr
                 /\ w.mapInfo[i].fInTried = m.mapInfo[i].fInTried
<1> DEFINE n == m.mapInfo[id].nRefCount - 1
           N == [m.vvNew EXCEPT ![b] = @ \ {id}]
           w == Counted(m, id, n, N)
           v == Left(m, b, id)
<1>1. /\ TypeOK(m) /\ RandomInv(m) /\ AddrInv(m) /\ TriedInv(m) /\ CountInv(m)
      /\ NewInv(m, owed) /\ RangeInv(m, {}) /\ BoundInv(m)
  BY DEF TableInv
<1>2. id \in Ids(m)
  BY <1>1 DEF NewInv
<1>3. n \in Int
  BY <1>1, <1>2 DEF TypeOK, Info
<1>4. N \in [NBucket -> SUBSET Nat]
  BY <1>1 DEF TypeOK
<1>5. v = w
  BY <1>1, <1>2 DEF TypeOK, Counted, Left
<1>6. \A c \in NBucket : N[c] = IF c = b THEN m.vvNew[b] \ {id} ELSE m.vvNew[c]
  BY <1>1 DEF TypeOK
<1>7. IsFiniteSet(Ids(m)) /\ \A i : IsFiniteSet(BucketsOf(m, i))
                                       /\ Cardinality(BucketsOf(m, i)) \in Nat
  BY <1>1, FinitelyMany
<1>8. b \in BucketsOf(m, id) /\ n = Cardinality(BucketsOf(m, id)) - 1
  <2>1. m.mapInfo[id].nRefCount = Cardinality(BucketsOf(m, id))
    BY <1>1, <1>2, <1>7 DEF NewInv
  <2> QED  BY <2>1 DEF BucketsOf
<1>9. n \in 0..(PerAddress - 1) /\ ~m.mapInfo[id].fInTried
  <2>1. Cardinality(BucketsOf(m, id)) # 0
    BY <1>7, <1>8, FS_EmptySet
  <2> QED  BY <1>1, <1>2, <1>7, <1>8, <2>1, AddrManAssumption DEF RangeInv
<1> HIDE DEF n, N
<1>10. /\ TypeOK(w) /\ Ids(w) = Ids(m) /\ w.vvNew = N /\ w.vvTried = m.vvTried
       /\ \A i \in Ids(m) :
             /\ w.mapInfo[i].addr = m.mapInfo[i].addr
             /\ w.mapInfo[i].fInTried = m.mapInfo[i].fInTried
             /\ w.mapInfo[i].nRefCount = IF i = id THEN n ELSE m.mapInfo[i].nRefCount
  BY <1>1, <1>2, <1>3, <1>4, CountChanges
<1>11. RandomInv(w) /\ AddrInv(w) /\ TriedInv(w) /\ CountInv(w) /\ Tried(w) = Tried(m)
  BY <1>1, <1>2, <1>3, <1>4, CountChangesKeep
<1> HIDE DEF w, v
<1>12. NewInv(w, owed)
  <2>1. \A c \in NBucket : w.vvNew[c] \subseteq Ids(w)
    BY <1>1, <1>6, <1>10 DEF NewInv
  <2>2. ASSUME NEW i \in Ids(m), i # id
        PROVE  w.mapInfo[i].nRefCount = Cardinality(BucketsOf(w, i))
                                           + IF i \in owed THEN 1 ELSE 0
    <3>1. BucketsOf(w, i) = BucketsOf(m, i)
      BY <1>6, <1>10, <2>2 DEF BucketsOf
    <3> QED  BY <1>1, <1>10, <2>2, <3>1 DEF NewInv
  <2>3. w.mapInfo[id].nRefCount = Cardinality(BucketsOf(w, id))
    <3>1. BucketsOf(w, id) = BucketsOf(m, id) \ {b}
      BY <1>6, <1>10 DEF BucketsOf
    <3>2. Cardinality(BucketsOf(w, id)) = Cardinality(BucketsOf(m, id)) - 1
      BY <1>7, <1>8, <3>1, FS_RemoveElement
    <3> QED  BY <1>2, <1>8, <1>10, <3>2
  <2>4. Cardinality(BucketsOf(w, id)) \in Nat
    BY <1>10, <1>11, FinitelyMany
  <2> QED  BY <1>10, <2>1, <2>2, <2>3, <2>4 DEF NewInv
<1>13. RangeInv(w, {id})
  BY <1>1, <1>10 DEF RangeInv
<1>14. IsFiniteSet(m.vvNew[b]) /\ Cardinality(m.vvNew[b]) \in Nat /\ NewSize \in Nat
  BY <1>1, <1>7, FS_Subset, FS_CardinalityType, AddrManAssumption DEF NewInv
<1>15. Cardinality(N[b]) = Cardinality(m.vvNew[b]) - 1
  BY <1>6, <1>14, FS_RemoveElement
<1>16. BoundInv(w)
  BY <1>1, <1>6, <1>10, <1>14, <1>15 DEF BoundInv
<1> QED  BY <1>2, <1>5, <1>6, <1>9, <1>10, <1>11, <1>12, <1>13, <1>15, <1>16 DEF TableInv, v

\* An entry that is in no bucket is deleted from all the indexes at once.
LEMMA DeleteKeeps ==
    ASSUME NEW m, NEW owed, NEW id \in Ids(m), TableInv(m, owed, {id}), id \notin owed,
           ~m.mapInfo[id].fInTried, m.mapInfo[id].nRefCount = 0
    PROVE  LET w == Delete(m, id) IN
           /\ TableInv(w, owed, {}) /\ Ids(w) = Ids(m) \ {id} /\ w.vvNew = m.vvNew
           /\ \A i \in Ids(w) :
                 /\ w.mapInfo[i].addr = m.mapInfo[i].addr
                 /\ w.mapInfo[i].fInTried = m.mapInfo[i].fInTried
<1> DEFINE L == Len(m.vRandom)
           s == SwapRandom(m, m.mapInfo[id].nRandomPos, Len(m.vRandom))
           w == Delete(m, id)
<1>1. TypeOK(m) /\ RandomInv(m) /\ L \in Nat
  BY DEF TableInv, TypeOK
<1>2. /\ m.mapInfo[id].nRandomPos \in 1..L /\ m.vRandom[m.mapInfo[id].nRandomPos] = id
      /\ L \in 1..L
  BY <1>1 DEF RandomInv
<1>3. TypeOK(s) /\ RandomInv(s) /\ SameBut(s, m) /\ s.vRandom[L] = id
  BY <1>1, <1>2, SwapKeeps
<1>4. /\ AddrInv(s) /\ TriedInv(s) /\ NewInv(s, owed) /\ RangeInv(s, {id})
      /\ CountInv(s) /\ BoundInv(s)
  BY <1>3, SameButKeeps DEF TableInv
<1>5. /\ Ids(s) = Ids(m) /\ Known(s) = Known(m) /\ Len(s.vRandom) = L /\ s.vvNew = m.vvNew
      /\ \A i \in Ids(m) :
            /\ s.mapInfo[i].addr = m.mapInfo[i].addr
            /\ s.mapInfo[i].fInTried = m.mapInfo[i].fInTried
            /\ s.mapInfo[i].nRefCount = m.mapInfo[i].nRefCount
  BY <1>3 DEF SameBut, SameEntry, Known
<1> DEFINE a == s.mapInfo[id].addr
<1>6. w = [s EXCEPT !.vRandom = Restrict(@, 1..(Len(@) - 1)), !.nNew = @ - 1,
                    !.mapAddr = Restrict(@, Known(s) \ {a}),
                    !.mapInfo = Restrict(@, Ids(s) \ {id})]
  BY <1>5 DEF Delete
<1> HIDE DEF s, w
<1>7. /\ w.nIdCount = s.nIdCount /\ w.nTried = s.nTried /\ w.nNew = s.nNew - 1
      /\ w.vvTried = s.vvTried /\ w.vvNew = s.vvNew
      /\ w.vRandom = [p \in 1..(L - 1) |-> s.vRandom[p]]
      /\ w.mapAddr = [x \in Known(s) \ {a} |-> s.mapAddr[x]]
      /\ w.mapInfo = [i \in Ids(s) \ {id} |-> s.mapInfo[i]]
  BY <1>3, <1>5, <1>6 DEF TypeOK, Restrict
<1>8. w.vRandom \in Seq(Nat) /\ Len(w.vRandom) = L - 1
      /\ \A p \in 1..(L - 1) : w.vRandom[p] = s.vRandom[p] /\ p \in 1..L
  <2>1. s.vRandom \in [1..L -> Nat] /\ L - 1 \in Nat /\ 1..(L - 1) \subseteq 1..L
    <3>1. s.vRandom \in Seq(Nat) /\ Len(s.vRandom) = L
      BY <1>3, <1>5 DEF TypeOK
    <3>2. s.vRandom \in [1..L -> Nat]
      BY <3>1
    <3> HIDE DEF L
    <3> QED  BY <1>1, <1>2, <3>2
  <2>2. w.vRandom \in [1..(L - 1) -> Nat]
    BY <1>7, <2>1
  <2>3. w.vRandom \in Seq(Nat) /\ Len(w.vRandom) = L - 1
    BY <2>1, <2>2, ArrayIsSeq
  <2> QED  BY <1>7, <2>1, <2>3
<1>9. /\ Ids(w) = Ids(s) \ {id} /\ \A i \in Ids(w) : w.mapInfo[i] = s.mapInfo[i]
      /\ Known(w) = Known(s) \ {a} /\ \A x \in Known(w) : w.mapAddr[x] = s.mapAddr[x]
  BY <1>7 DEF Ids, Known
<1>10. TypeOK(w)
  <2>1. w.mapInfo \in [Ids(w) -> Info] /\ w.mapAddr \in [Known(w) -> Nat]
    BY <1>3, <1>7, <1>9 DEF TypeOK
  <2>2. /\ w.vvTried \in [KBucket -> SUBSET Nat] /\ w.vvNew \in [NBucket -> SUBSET Nat]
        /\ w.nIdCount \in Nat /\ w.nTried \in Int /\ w.nNew \in Int
        /\ Ids(w) \subseteq Nat /\ Known(w) \subseteq Addr
    <3>1. /\ s.vvTried \in [KBucket -> SUBSET Nat] /\ s.vvNew \in [NBucket -> SUBSET Nat]
          /\ s.nIdCount \in Nat /\ s.nTried \in Int /\ s.nNew \in Int
          /\ Ids(s) \subseteq Nat /\ Known(s) \subseteq Addr
      BY <1>3 DEF TypeOK
    <3> QED  BY <1>7, <1>9, <3>1
  <2>3. w = [nIdCount |-> w.nIdCount, vRandom |-> w.vRandom, nTried |-> w.nTried,
             nNew |-> w.nNew, mapInfo |-> w.mapInfo, mapAddr |-> w.mapAddr,
             vvTried |-> w.vvTried, vvNew |-> w.vvNew]
    BY <1>3, <1>6 DEF TypeOK
  <2> QED  BY <1>8, <2>1, <2>2, <2>3 DEF TypeOK
<1>11. RandomInv(w)
  <2>1. s.mapInfo[id].nRandomPos = L
    BY <1>2, <1>3, <1>5 DEF RandomInv
  <2>2. ASSUME NEW i \in Ids(w)
        PROVE  LET p == w.mapInfo[i].nRandomPos IN
               p \in 1..(L - 1) /\ w.vRandom[p] = i
    <3>1. /\ s.mapInfo[i].nRandomPos \in 1..L /\ s.vRandom[s.mapInfo[i].nRandomPos] = i
          /\ i # id
      BY <1>3, <1>5, <1>9 DEF RandomInv
    <3>2. s.mapInfo[i].nRandomPos # L
      BY <1>3, <3>1
    <3>3. s.mapInfo[i].nRandomPos \in 1..(L - 1)
      BY <1>1, <3>1, <3>2
    <3> QED  BY <1>8, <1>9, <3>1, <3>3
  <2>3. ASSUME NEW p \in 1..(L - 1)
        PROVE  w.vRandom[p] \in Ids(w) /\ w.mapInfo[w.vRandom[p]].nRandomPos = p
    <3>1. p \in 1..L /\ p # L
      BY <1>1, <1>8
    <3>2. s.vRandom[p] \in Ids(s) /\ s.mapInfo[s.vRandom[p]].nRandomPos = p
      BY <1>3, <1>5, <3>1 DEF RandomInv
    <3>3. s.vRandom[p] # id
      BY <2>1, <3>1, <3>2
    <3> QED  BY <1>8, <1>9, <3>2, <3>3
  <2> QED  BY <1>8, <2>2, <2>3 DEF RandomInv
<1>12. AddrInv(w)
  <2>1. ASSUME NEW i \in Ids(w)
        PROVE  w.mapInfo[i].addr \in Known(w) /\ w.mapAddr[w.mapInfo[i].addr] = i
    <3>1. i \in Ids(s) /\ i # id /\ w.mapInfo[i] = s.mapInfo[i]
      BY <1>9
    <3>2. s.mapInfo[i].addr \in Known(s) /\ s.mapAddr[s.mapInfo[i].addr] = i /\ s.mapAddr[a] = id
      BY <1>4, <1>5, <3>1 DEF AddrInv
    <3> QED  BY <1>9, <3>1, <3>2
  <2>2. ASSUME NEW x \in Known(w)
        PROVE  w.mapAddr[x] \in Ids(w) /\ w.mapInfo[w.mapAddr[x]].addr = x
    <3>1. x \in Known(s) /\ x # a /\ w.mapAddr[x] = s.mapAddr[x]
      BY <1>9
    <3>2. s.mapAddr[x] \in Ids(s) /\ s.mapInfo[s.mapAddr[x]].addr = x
      BY <1>4, <3>1 DEF AddrInv
    <3>3. s.mapAddr[x] # id
      BY <3>1, <3>2
    <3> QED  BY <1>9, <3>1, <3>2, <3>3
  <2> QED  BY <2>1, <2>2 DEF AddrInv
<1>13. Tried(w) = Tried(s)
  BY <1>5, <1>9 DEF Tried
<1>14. TriedInv(w)
  <2>1. Tried(w) \subseteq Ids(w) /\ Ids(w) \subseteq Ids(s)
    BY <1>9 DEF Tried
  <2> QED  BY <1>4, <1>7, <1>9, <1>13, <2>1 DEF TriedInv
<1>15. NewInv(w, owed)
  <2>1. \A i : BucketsOf(w, i) = BucketsOf(s, i)
    BY <1>7 DEF BucketsOf
  <2>2. IsFiniteSet(BucketsOf(s, id)) /\ Cardinality(BucketsOf(s, id)) \in Nat
    BY <1>3, <1>4, FinitelyMany
  <2>3. Cardinality(BucketsOf(s, id)) = 0
    BY <1>4, <1>5, <2>2 DEF NewInv
  <2>4. BucketsOf(s, id) = {}
    BY <2>2, <2>3, FS_EmptySet
  <2>5. \A b \in NBucket : w.vvNew[b] \subseteq Ids(w)
    <3>1. \A b \in NBucket : id \notin s.vvNew[b]
      BY <2>4 DEF BucketsOf
    <3>2. \A b \in NBucket : s.vvNew[b] \subseteq Ids(s)
      BY <1>4 DEF NewInv
    <3> QED  BY <1>7, <1>9, <3>1, <3>2
  <2> QED  BY <1>4, <1>9, <2>1, <2>5 DEF NewInv
<1>16. RangeInv(w, {})
  BY <1>4, <1>9 DEF RangeInv
<1>17. CountInv(w)
  <2>1. Cardinality(Ids(w)) = Cardinality(Ids(s)) - 1
    BY <1>3, <1>4, <1>5, <1>9, FinitelyMany, FS_RemoveElement
  <2>2. /\ Ids(w) \subseteq 0..(w.nIdCount - 1) /\ Cardinality(Tried(w)) = w.nTried
        /\ s.nTried \in Int /\ s.nNew \in Int
    BY <1>3, <1>4, <1>7, <1>9, <1>13 DEF CountInv, TypeOK
  <2>3. Cardinality(Ids(s)) = s.nTried + s.nNew /\ Len(s.vRandom) = s.nTried + s.nNew
    BY <1>4 DEF CountInv
  <2>4. w.nTried = s.nTried /\ w.nNew = s.nNew - 1 /\ Len(w.vRandom) = Len(s.vRandom) - 1
    BY <1>5, <1>7, <1>8
  <2>5. Cardinality(Ids(w)) = w.nTried + w.nNew /\ Len(w.vRandom) = w.nTried + w.nNew
    BY <2>1, <2>2, <2>3, <2>4
  <2> QED  BY <2>2, <2>5 DEF CountInv
<1>18. BoundInv(w)
  BY <1>4, <1>7 DEF BoundInv
<1> QED  BY <1>5, <1>7, <1>9, <1>10, <1>11, <1>12, <1>14, <1>15, <1>16, <1>17, <1>18 DEF TableInv, w

\* A new entry is in all the indexes and in no bucket yet.
LEMMA CreateKeeps ==
    ASSUME NEW m, TableInv(m, {}, {}), NEW a \in Addr, a \notin Known(m), NEW s \in Source
    PROVE  LET w == Create(m, a, s)
               id == m.nIdCount IN
           /\ TableInv(w, {}, {id}) /\ id \notin Ids(m) /\ Ids(w) = Ids(m) \cup {id}
           /\ w.vvNew = m.vvNew
           /\ ~w.mapInfo[id].fInTried /\ w.mapInfo[id].nRefCount = 0
           /\ \A i \in Ids(m) : w.mapInfo[i] = m.mapInfo[i]
<1> DEFINE w == Create(m, a, s)
           id == m.nIdCount
           L == Len(m.vRandom)
           info == [addr |-> a, source |-> s, nRefCount |-> 0, fInTried |-> FALSE,
                    nRandomPos |-> L + 1]
<1>1. /\ TypeOK(m) /\ RandomInv(m) /\ AddrInv(m) /\ TriedInv(m) /\ CountInv(m)
      /\ NewInv(m, {}) /\ RangeInv(m, {}) /\ BoundInv(m)
  BY DEF TableInv
<1>2. id \in Nat /\ L \in Nat /\ id \notin Ids(m) /\ info \in Info
  <2>1. id \in Nat /\ L \in Nat
    BY <1>1 DEF TypeOK
  <2> QED  BY <1>1, <2>1 DEF CountInv, Info
<1>3. w = [m EXCEPT !.nIdCount = id + 1, !.nNew = @ + 1,
                    !.mapInfo = [i \in Ids(m) \cup {id} |-> IF i = id THEN info ELSE @[i]],
                    !.mapAddr = [x \in Known(m) \cup {a} |-> IF x = a THEN id ELSE @[x]],
                    !.vRandom = Append(@, id)]
  BY DEF Create
<1> HIDE DEF w, info
<1>4. /\ w.nIdCount = id + 1 /\ w.nTried = m.nTried /\ w.nNew = m.nNew + 1
      /\ w.vvTried = m.vvTried /\ w.vvNew = m.vvNew /\ w.vRandom = Append(m.vRandom, id)
      /\ w.mapInfo = [i \in Ids(m) \cup {id} |-> IF i = id THEN info ELSE m.mapInfo[i]]
      /\ w.mapAddr = [x \in Known(m) \cup {a} |-> IF x = a THEN id ELSE m.mapAddr[x]]
  BY <1>1, <1>3 DEF TypeOK
<1>5. w = [nIdCount |-> w.nIdCount, vRandom |-> w.vRandom, nTried |-> w.nTried,
           nNew |-> w.nNew, mapInfo |-> w.mapInfo, mapAddr |-> w.mapAddr,
           vvTried |-> w.vvTried, vvNew |-> w.vvNew]
  BY <1>1, <1>3 DEF TypeOK
<1>6. /\ Ids(w) = Ids(m) \cup {id} /\ Known(w) = Known(m) \cup {a}
      /\ w.mapInfo[id] = info /\ \A i \in Ids(m) : w.mapInfo[i] = m.mapInfo[i]
      /\ w.mapAddr[a] = id /\ \A x \in Known(m) : w.mapAddr[x] = m.mapAddr[x]
  BY <1>2, <1>4 DEF Ids, Known
<1>7. /\ w.vRandom \in Seq(Nat) /\ Len(w.vRandom) = L + 1 /\ w.vRandom[L + 1] = id
      /\ \A p \in 1..L : w.vRandom[p] = m.vRandom[p]
  <2>1. m.vRandom \in Seq(Nat)
    BY <1>1 DEF TypeOK
  <2> QED  BY <1>2, <1>4, <2>1
<1>8. TypeOK(w)
  <2>1. w.mapInfo \in [Ids(w) -> Info] /\ w.mapAddr \in [Known(w) -> Nat]
    <3>1. m.mapInfo \in [Ids(m) -> Info] /\ m.mapAddr \in [Known(m) -> Nat]
      BY <1>1 DEF TypeOK
    <3> QED  BY <1>2, <1>4, <1>6, <3>1
  <2>2. /\ w.vvTried \in [KBucket -> SUBSET Nat] /\ w.vvNew \in [NBucket -> SUBSET Nat]
        /\ w.nIdCount \in Nat /\ w.nTried \in Int /\ w.nNew \in Int
    BY <1>1, <1>2, <1>4 DEF TypeOK
  <2>3. Ids(w) \subseteq Nat /\ Known(w) \subseteq Addr
    BY <1>1, <1>2, <1>6 DEF TypeOK
  <2> QED  BY <1>5, <1>7, <2>1, <2>2, <2>3 DEF TypeOK
<1>9. RandomInv(w)
  <2>1. info.nRandomPos = L + 1
    BY DEF info
  <2>2. ASSUME NEW i \in Ids(w)
        PROVE  LET p == w.mapInfo[i].nRandomPos IN
               p \in 1..(L + 1) /\ w.vRandom[p] = i
    <3>1. CASE i = id
      BY <1>2, <1>6, <1>7, <2>1, <3>1
    <3>2. CASE i \in Ids(m)
      <4>1. /\ m.mapInfo[i].nRandomPos \in 1..L /\ m.vRandom[m.mapInfo[i].nRandomPos] = i
        BY <1>1, <3>2 DEF RandomInv
      <4>2. w.mapInfo[i] = m.mapInfo[i]
        BY <1>6, <3>2
      <4> HIDE DEF L
      <4>3. m.mapInfo[i].nRandomPos \in 1..(L + 1)
        BY <1>2, <4>1
      <4> QED  BY <1>7, <4>1, <4>2, <4>3
    <3> QED  BY <1>6, <3>1, <3>2
  <2>3. ASSUME NEW p \in 1..(L + 1)
        PROVE  w.vRandom[p] \in Ids(w) /\ w.mapInfo[w.vRandom[p]].nRandomPos = p
    <3>1. CASE p = L + 1
      BY <1>6, <1>7, <2>1, <3>1
    <3>2. CASE p # L + 1
      <4>1. p \in 1..L
        BY <1>2, <3>2
      <4>2. m.vRandom[p] \in Ids(m) /\ m.mapInfo[m.vRandom[p]].nRandomPos = p
        BY <1>1, <4>1 DEF RandomInv
      <4> QED  BY <1>6, <1>7, <4>1, <4>2
    <3> QED  BY <3>1, <3>2
  <2> QED  BY <1>7, <2>2, <2>3 DEF RandomInv
<1>10. info.addr = a /\ info.nRefCount = 0 /\ info.fInTried = FALSE
  BY DEF info
<1>11. AddrInv(w)
  <2>1. ASSUME NEW i \in Ids(w)
        PROVE  w.mapInfo[i].addr \in Known(w) /\ w.mapAddr[w.mapInfo[i].addr] = i
    <3>1. CASE i = id
      BY <1>6, <1>10, <3>1
    <3>2. CASE i \in Ids(m)
      BY <1>1, <1>6, <3>2 DEF AddrInv
    <3> QED  BY <1>6, <3>1, <3>2
  <2>2. ASSUME NEW x \in Known(w)
        PROVE  w.mapAddr[x] \in Ids(w) /\ w.mapInfo[w.mapAddr[x]].addr = x
    <3>1. CASE x = a
      BY <1>6, <1>10, <3>1
    <3>2. CASE x \in Known(m)
      BY <1>1, <1>6, <3>2 DEF AddrInv
    <3> QED  BY <1>6, <3>1, <3>2
  <2> QED  BY <2>1, <2>2 DEF AddrInv
<1>12. Tried(w) = Tried(m) /\ Tried(m) \subseteq Ids(m)
  BY <1>6, <1>10 DEF Tried
<1>13. TriedInv(w)
  BY <1>1, <1>4, <1>6, <1>12 DEF TriedInv
<1>14. NewInv(w, {})
  <2>1. \A i : BucketsOf(w, i) = BucketsOf(m, i)
    BY <1>4 DEF BucketsOf
  <2>2. \A b \in NBucket : w.vvNew[b] \subseteq Ids(m)
    BY <1>1, <1>4 DEF NewInv
  <2>3. BucketsOf(w, id) = {} /\ Cardinality(BucketsOf(w, id)) = 0
    BY <1>2, <2>2, FS_EmptySet DEF BucketsOf
  <2>4. ASSUME NEW i \in Ids(m)
        PROVE  w.mapInfo[i].nRefCount = Cardinality(BucketsOf(w, i))
                  /\ Cardinality(BucketsOf(w, i)) \in Nat
    <3>1. Cardinality(BucketsOf(m, i)) \in Nat
      BY <1>1, FinitelyMany
    <3>2. m.mapInfo[i].nRefCount = Cardinality(BucketsOf(m, i))
      BY <1>1, <3>1 DEF NewInv
    <3> QED  BY <1>6, <2>1, <3>1, <3>2
  <2>5. \A i \in Ids(w) : w.mapInfo[i].nRefCount = Cardinality(BucketsOf(w, i))
                              /\ Cardinality(BucketsOf(w, i)) \in Nat
    BY <1>6, <1>10, <2>3, <2>4
  <2>6. \A b \in NBucket : w.vvNew[b] \subseteq Ids(w)
    BY <1>6, <2>2
  <2> QED  BY <2>5, <2>6 DEF NewInv
<1>15. RangeInv(w, {id})
  BY <1>1, <1>6 DEF RangeInv
<1>16. CountInv(w)
  <2>1. Ids(w) \subseteq 0..(w.nIdCount - 1)
    <3>1. Ids(m) \subseteq 0..(id - 1)
      BY <1>1 DEF CountInv
    <3> HIDE DEF id
    <3> QED  BY <1>2, <1>4, <1>6, <3>1
  <2>2. Cardinality(Ids(w)) = Cardinality(Ids(m)) + 1
    BY <1>1, <1>2, <1>6, FinitelyMany, FS_AddElement
  <2>3. /\ Cardinality(Ids(m)) = m.nTried + m.nNew /\ L = m.nTried + m.nNew
        /\ Cardinality(Tried(w)) = w.nTried
    BY <1>1, <1>4, <1>12 DEF CountInv
  <2>4. m.nTried \in Int /\ m.nNew \in Int
    BY <1>1 DEF TypeOK
  <2>5. Cardinality(Ids(w)) = w.nTried + w.nNew /\ Len(w.vRandom) = w.nTried + w.nNew
    <3>1. w.nTried = m.nTried /\ w.nNew = m.nNew + 1 /\ Len(w.vRandom) = L + 1
      BY <1>4, <1>7
    <3> HIDE DEF L
    <3> QED  BY <2>2, <2>3, <2>4, <3>1
  <2> QED  BY <2>1, <2>3, <2>5 DEF CountInv
<1>17. BoundInv(w)
  BY <1>1, <1>4 DEF BoundInv
<1> QED  BY <1>2, <1>4, <1>6, <1>8, <1>9, <1>10, <1>11, <1>13, <1>14, <1>15, <1>16, <1>17
         DEF TableInv, w

\* What an operation on "new" buckets leaves of the entries it does not drop,
\* among which are the tried ones.
Spares(w, m) ==
    /\ Tried(m) \subseteq Ids(w) /\ Ids(w) \subseteq Ids(m)
    /\ \A i \in Ids(w) :
          /\ w.mapInfo[i].addr = m.mapInfo[i].addr
          /\ w.mapInfo[i].fInTried = m.mapInfo[i].fInTried

\* ShrinkNew makes a place in the bucket, and drops an entry only when that
\* was its last one.
LEMMA ShrinkKeeps ==
    ASSUME NEW m, NEW id \in Ids(m), TableInv(m, {id}, {}), NEW b \in NBucket,
           id \notin m.vvNew[b], NEW w \in ShrinkNew(m, b)
    PROVE  /\ TableInv(w, {id}, {}) /\ Spares(w, m) /\ id \in Ids(w)
           /\ id \notin w.vvNew[b] /\ Cardinality(w.vvNew[b]) = Cardinality(m.vvNew[b]) - 1
<1>1. PICK x \in m.vvNew[b] :
         w = IF Left(m, b, x).mapInfo[x].nRefCount = 0 THEN Delete(Left(m, b, x), x)
             ELSE Left(m, b, x)
  BY DEF ShrinkNew, Left
<1> DEFINE u == Left(m, b, x)
<1>2. x # id
  OBVIOUS
<1>3. /\ TableInv(u, {id}, {x}) /\ Ids(u) = Ids(m) /\ x \in Ids(m)
      /\ u.mapInfo[x].nRefCount \in 0..(PerAddress - 1) /\ ~u.mapInfo[x].fInTried
      /\ u.vvNew[b] = m.vvNew[b] \ {x}
      /\ Cardinality(u.vvNew[b]) = Cardinality(m.vvNew[b]) - 1
      /\ \A i \in Ids(m) :
            /\ u.mapInfo[i].addr = m.mapInfo[i].addr
            /\ u.mapInfo[i].fInTried = m.mapInfo[i].fInTried
  BY <1>2, LeavePlace
<1>4. w = IF u.mapInfo[x].nRefCount = 0 THEN Delete(u, x) ELSE u
  BY <1>1
<1> HIDE DEF u
<1>5. CASE u.mapInfo[x].nRefCount = 0
  <2>1. /\ TableInv(w, {id}, {}) /\ Ids(w) = Ids(u) \ {x} /\ w.vvNew = u.vvNew
        /\ \A i \in Ids(w) :
              /\ w.mapInfo[i].addr = u.mapInfo[i].addr
              /\ w.mapInfo[i].fInTried = u.mapInfo[i].fInTried
    BY <1>2, <1>3, <1>4, <1>5, DeleteKeeps
  <2>2. Spares(w, m)
    BY <1>3, <2>1 DEF Spares, Tried
  <2> QED  BY <1>2, <1>3, <2>1, <2>2
<1>6. CASE u.mapInfo[x].nRefCount # 0
  <2>1. RangeInv(u, {})
    BY <1>3, <1>6, AddrManAssumption DEF TableInv, RangeInv
  <2>2. TableInv(u, {id}, {})
    BY <1>3, <2>1 DEF TableInv
  <2>3. Spares(u, m)
    BY <1>3 DEF Spares, Tried
  <2> QED  BY <1>3, <1>4, <1>6, <2>2, <2>3
<1> QED  BY <1>5, <1>6

\* Add_ puts an entry into a bucket, which is no fuller than before when it
\* was full.
LEMMA InsertKeeps ==
    ASSUME NEW m, NEW id \in Ids(m), TableInv(m, {}, {id}), ~m.mapInfo[id].fInTried,
           m.mapInfo[id].nRefCount \in 0..(PerAddress - 1), NEW b \in NBucket,
           id \in m.vvNew[b] => TableInv(m, {}, {}),
           NEW w \in Insert(m, id, b)
    PROVE  TableInv(w, {}, {}) /\ Spares(w, m)
<1>1. CASE id \in m.vvNew[b]
  <2>1. w = m
    BY <1>1 DEF Insert
  <2> QED  BY <1>1, <2>1 DEF Spares, Tried
<1>2. CASE id \notin m.vvNew[b]
  <2> DEFINE v == [m EXCEPT !.mapInfo[id].nRefCount = @ + 1]
             place(x) == [x EXCEPT !.vvNew[b] = @ \cup {id}]
  <2>1. /\ TableInv(v, {id}, {}) /\ Ids(v) = Ids(m) /\ v.vvNew = m.vvNew
        /\ \A i \in Ids(m) :
              /\ v.mapInfo[i].addr = m.mapInfo[i].addr
              /\ v.mapInfo[i].fInTried = m.mapInfo[i].fInTried
    BY OweReference
  <2>2. PICK x \in (IF Cardinality(m.vvNew[b]) = NewSize THEN ShrinkNew(v, b) ELSE {v}) :
           w = place(x)
    BY <1>2 DEF Insert
  <2> HIDE DEF v
  <2>3. /\ TableInv(x, {id}, {}) /\ Spares(x, v) /\ id \in Ids(x) /\ id \notin x.vvNew[b]
        /\ Cardinality(x.vvNew[b]) < NewSize
    <3>1. Cardinality(m.vvNew[b]) <= NewSize /\ NewSize \in Nat
      BY AddrManAssumption DEF TableInv, BoundInv
    <3>2. IsFiniteSet(m.vvNew[b]) /\ Cardinality(m.vvNew[b]) \in Nat
      BY FinitelyMany, FS_Subset, FS_CardinalityType DEF TableInv, NewInv
    <3>3. CASE Cardinality(m.vvNew[b]) = NewSize
      <4>1. x \in ShrinkNew(v, b)
        BY <2>2, <3>3
      <4>2. /\ TableInv(x, {id}, {}) /\ Spares(x, v) /\ id \in Ids(x) /\ id \notin x.vvNew[b]
            /\ Cardinality(x.vvNew[b]) = Cardinality(v.vvNew[b]) - 1
        <5>1. id \in Ids(v) /\ id \notin v.vvNew[b] /\ TableInv(v, {id}, {})
          BY <1>2, <2>1
        <5> QED  BY <4>1, <5>1, ShrinkKeeps
      <4> QED  BY <2>1, <3>1, <3>3, <4>2
    <3>4. CASE Cardinality(m.vvNew[b]) # NewSize
      <4>1. x = v
        BY <2>2, <3>4
      <4>2. Spares(v, v)
        BY DEF Spares, Tried
      <4> QED  BY <1>2, <2>1, <3>1, <3>2, <3>4, <4>1, <4>2
    <3> QED  BY <3>3, <3>4
  <2>4. ~x.mapInfo[id].fInTried
    BY <2>1, <2>3 DEF Spares
  <2>5. TableInv(w, {}, {}) /\ w.mapInfo = x.mapInfo
    BY <2>2, <2>3, <2>4, TakePlace
  <2>6. Spares(w, m)
    BY <2>1, <2>3, <2>5 DEF Spares, Tried, Ids
  <2> QED  BY <2>5, <2>6
<1> QED  BY <1>1, <1>2

-----------------------------------------------------------------------------
\* An entry between the "new" and the "tried" tables, and what that leaves alone.
Moved(m, id, r, t, N, K, nNew, nTried) ==
    [m EXCEPT !.mapInfo[id] = [@ EXCEPT !.nRefCount = r, !.fInTried = t],
              !.vvNew = N, !.vvTried = K, !.nNew = nNew, !.nTried = nTried]

LEMMA MovedChanges ==
    ASSUME NEW m, TypeOK(m), RandomInv(m), AddrInv(m), NEW id \in Ids(m),
           NEW r \in Int, NEW t \in BOOLEAN, NEW N \in [NBucket -> SUBSET Nat],
           NEW K \in [KBucket -> SUBSET Nat], NEW nNew \in Int, NEW nTried \in Int
    PROVE  LET w == Moved(m, id, r, t, N, K, nNew, nTried) IN
           /\ TypeOK(w) /\ RandomInv(w) /\ AddrInv(w) /\ Ids(w) = Ids(m) /\ Known(w) = Known(m)
           /\ w.vvNew = N /\ w.vvTried = K /\ w.nNew = nNew /\ w.nTried = nTried
           /\ w.nIdCount = m.nIdCount /\ w.vRandom = m.vRandom /\ w.mapAddr = m.mapAddr
           /\ \A i \in Ids(m) :
                 /\ w.mapInfo[i].addr = m.mapInfo[i].addr
                 /\ w.mapInfo[i].source = m.mapInfo[i].source
                 /\ w.mapInfo[i].fInTried <=> (i = id /\ t) \/ (i # id /\ m.mapInfo[i].fInTried)
                 /\ w.mapInfo[i].nRefCount = IF i = id THEN r ELSE m.mapInfo[i].nRefCount
<1> DEFINE w == Moved(m, id, r, t, N, K, nNew, nTried)
<1>1. /\ w.vvNew = N /\ w.vvTried = K /\ w.nNew = nNew /\ w.nTried = nTried
      /\ w.nIdCount = m.nIdCount /\ w.vRandom = m.vRandom /\ w.mapAddr = m.mapAddr
      /\ w.mapInfo = [m.mapInfo EXCEPT
                         ![id] = [m.mapInfo[id] EXCEPT !.nRefCount = r, !.fInTried = t]]
  BY DEF Moved, TypeOK
<1>2. w = [nIdCount |-> w.nIdCount, vRandom |-> w.vRandom, nTried |-> w.nTried,
           nNew |-> w.nNew, mapInfo |-> w.mapInfo, mapAddr |-> w.mapAddr,
           vvTried |-> w.vvTried, vvNew |-> w.vvNew]
  <2> DEFINE I == [m.mapInfo EXCEPT
                      ![id] = [m.mapInfo[id] EXCEPT !.nRefCount = r, !.fInTried = t]]
  <2>1. w = [m EXCEPT !.mapInfo = I, !.vvNew = N, !.vvTried = K, !.nNew = nNew,
                      !.nTried = nTried]
    BY DEF Moved, TypeOK
  <2> HIDE DEF I, w
  <2> QED  BY <2>1 DEF TypeOK
<1> HIDE DEF w
<1>3. Ids(w) = Ids(m) /\ Known(w) = Known(m)
  BY <1>1 DEF TypeOK, Ids, Known
<1>4. ASSUME NEW i \in Ids(m)
      PROVE  /\ w.mapInfo[i] \in Info
             /\ w.mapInfo[i].addr = m.mapInfo[i].addr
             /\ w.mapInfo[i].source = m.mapInfo[i].source
             /\ w.mapInfo[i].nRandomPos = m.mapInfo[i].nRandomPos
             /\ w.mapInfo[i].fInTried <=> (i = id /\ t) \/ (i # id /\ m.mapInfo[i].fInTried)
             /\ w.mapInfo[i].nRefCount = IF i = id THEN r ELSE m.mapInfo[i].nRefCount
  <2>1. m.mapInfo[i] \in Info
    BY DEF TypeOK
  <2>2. w.mapInfo[i] = IF i = id THEN [m.mapInfo[i] EXCEPT !.nRefCount = r, !.fInTried = t]
                       ELSE m.mapInfo[i]
    BY <1>1 DEF TypeOK, Ids
  <2>3. CASE i = id
    BY <2>1, <2>2, <2>3 DEF Info
  <2>4. CASE i # id
    BY <2>1, <2>2, <2>4 DEF Info
  <2> QED  BY <2>3, <2>4
<1>5. TypeOK(w)
  <2>1. w.mapInfo = [i \in Ids(m) |-> w.mapInfo[i]]
    BY <1>1 DEF Ids, TypeOK
  <2>2. w.mapInfo \in [Ids(w) -> Info]
    BY <1>3, <1>4, <2>1
  <2>3. /\ w.vRandom \in Seq(Nat) /\ w.mapAddr \in [Known(w) -> Nat] /\ w.nIdCount \in Nat
        /\ Ids(w) \subseteq Nat /\ Known(w) \subseteq Addr
    BY <1>1, <1>3 DEF TypeOK
  <2> QED  BY <1>1, <1>2, <2>2, <2>3 DEF TypeOK
<1>6. RandomInv(w)
  BY <1>1, <1>3, <1>4 DEF RandomInv
<1>7. AddrInv(w)
  BY <1>1, <1>3, <1>4 DEF AddrInv
<1> QED  BY <1>1, <1>3, <1>4, <1>5, <1>6, <1>7 DEF w

\* What Good_ hands to MakeTried: an entry that is not tried, a bucket it is in
\* and, when its "tried" bucket is full, one of that bucket.
Candidate(m, id, nOrigin, old) ==
    LET k == GetTriedBucket(m.mapInfo[id].addr) IN
    /\ id \in Ids(m) /\ ~m.mapInfo[id].fInTried
    /\ nOrigin \in NBucket /\ id \in m.vvNew[nOrigin]
    /\ IF Cardinality(m.vvTried[k]) < TriedSize THEN old = id ELSE old \in m.vvTried[k]

\* The entry is in no "new" bucket any more, and every other is where it was.
LEMMA LeavesNew ==
    ASSUME NEW m, TableInv(m, {}, {}), NEW id, NEW nOrigin, NEW old,
           Candidate(m, id, nOrigin, old)
    PROVE  LET N == [b \in NBucket |-> m.vvNew[b] \ {id}] IN
           /\ N \in [NBucket -> SUBSET Nat]
           /\ \A b \in NBucket : /\ N[b] \subseteq Ids(m) \ {id} /\ IsFiniteSet(N[b])
                                 /\ Cardinality(N[b]) \in Nat /\ Cardinality(N[b]) <= NewSize
           /\ Cardinality(N[nOrigin]) < NewSize
<1> DEFINE N == [b \in NBucket |-> m.vvNew[b] \ {id}]
<1>1. TypeOK(m) /\ CountInv(m) /\ NewInv(m, {}) /\ BoundInv(m)
  BY DEF TableInv
<1>2. N \in [NBucket -> SUBSET Nat]
  BY <1>1 DEF TypeOK
<1>3. ASSUME NEW b \in NBucket
      PROVE  /\ N[b] \subseteq Ids(m) \ {id} /\ IsFiniteSet(N[b])
             /\ Cardinality(N[b]) \in Nat /\ Cardinality(N[b]) <= NewSize
             /\ id \in m.vvNew[b] => Cardinality(N[b]) < NewSize
  <2>1. m.vvNew[b] \subseteq Ids(m) /\ Cardinality(m.vvNew[b]) <= NewSize /\ NewSize \in Nat
    BY <1>1, AddrManAssumption DEF NewInv, BoundInv
  <2>2. IsFiniteSet(m.vvNew[b]) /\ Cardinality(m.vvNew[b]) \in Nat
    BY <1>1, <2>1, FinitelyMany, FS_Subset, FS_CardinalityType
  <2>3. /\ IsFiniteSet(m.vvNew[b] \ {id})
        /\ Cardinality(m.vvNew[b] \ {id}) =
              IF id \in m.vvNew[b] THEN Cardinality(m.vvNew[b]) - 1
              ELSE Cardinality(m.vvNew[b])
    BY <2>2, FS_RemoveElement
  <2>4. Cardinality(m.vvNew[b] \ {id}) \in Nat
    BY <2>3, FS_CardinalityType
  <2> QED  BY <2>1, <2>2, <2>3, <2>4
<1>4. nOrigin \in NBucket /\ id \in m.vvNew[nOrigin]
  BY DEF Candidate
<1> HIDE DEF N
<1>5. Cardinality(N[nOrigin]) < NewSize
  BY <1>3, <1>4
<1> QED  BY <1>2, <1>3, <1>5 DEF N

\* There is room in the "tried" bucket.
LEMMA MakeTriedWithRoom ==
    ASSUME NEW m, TableInv(m, {}, {}), NEW id, NEW nOrigin, NEW old,
           Candidate(m, id, nOrigin, old),
           Cardinality(m.vvTried[GetTriedBucket(m.mapInfo[id].addr)]) < TriedSize
    PROVE  LET w == MakeTried(m, id, nOrigin, old) IN
           TableInv(w, {}, {}) /\ Known(w) = Known(m)
<1> DEFINE k == GetTriedBucket(m.mapInfo[id].addr)
           N == [b \in NBucket |-> m.vvNew[b] \ {id}]
           K == [m.vvTried EXCEPT ![k] = @ \cup {id}]
           zero == 0
           yes == TRUE
           w == Moved(m, id, zero, yes, N, K, m.nNew - 1, m.nTried + 1)
<1>1. /\ TypeOK(m) /\ RandomInv(m) /\ AddrInv(m) /\ TriedInv(m) /\ CountInv(m)
      /\ NewInv(m, {}) /\ RangeInv(m, {}) /\ BoundInv(m)
  BY DEF TableInv
<1>2. /\ id \in Ids(m) /\ ~m.mapInfo[id].fInTried /\ m.mapInfo[id].addr \in Addr
      /\ id \notin Tried(m) /\ Tried(m) \subseteq Ids(m)
  BY <1>1 DEF Candidate, TypeOK, Info, Tried
<1>3. k \in KBucket
  BY <1>2, AddrManAssumption
<1>4. m.nNew \in Int /\ m.nTried \in Int /\ id \in Nat
  BY <1>1, <1>2 DEF TypeOK
<1>5. K \in [KBucket -> SUBSET Nat]
  BY <1>1, <1>4 DEF TypeOK
<1>6. \A c \in KBucket : K[c] = IF c = k THEN m.vvTried[k] \cup {id} ELSE m.vvTried[c]
  BY <1>1, <1>3 DEF TypeOK
<1>7. MakeTried(m, id, nOrigin, old) = w
  BY <1>1 DEF MakeTried, Moved, TypeOK
<1>8. zero = 0 /\ yes
  OBVIOUS
<1> HIDE DEF k, N, K, zero, yes
<1>9. /\ N \in [NBucket -> SUBSET Nat]
      /\ \A b \in NBucket : N[b] \subseteq Ids(m) \ {id} /\ Cardinality(N[b]) <= NewSize
  BY LeavesNew DEF N
<1>10. /\ TypeOK(w) /\ RandomInv(w) /\ AddrInv(w) /\ Ids(w) = Ids(m) /\ Known(w) = Known(m)
      /\ w.vvNew = N /\ w.vvTried = K /\ w.nNew = m.nNew - 1 /\ w.nTried = m.nTried + 1
      /\ w.nIdCount = m.nIdCount /\ w.vRandom = m.vRandom
      /\ \A i \in Ids(m) :
            /\ w.mapInfo[i].addr = m.mapInfo[i].addr
            /\ w.mapInfo[i].fInTried <=> i = id \/ m.mapInfo[i].fInTried
            /\ w.mapInfo[i].nRefCount = IF i = id THEN 0 ELSE m.mapInfo[i].nRefCount
  <2>1. zero \in Int /\ m.nNew - 1 \in Int /\ m.nTried + 1 \in Int
    BY <1>4, <1>8
  <2>2. yes \in BOOLEAN
    BY DEF yes
  <2>3. /\ TypeOK(w) /\ RandomInv(w) /\ AddrInv(w) /\ Ids(w) = Ids(m) /\ Known(w) = Known(m)
        /\ w.vvNew = N /\ w.vvTried = K /\ w.nNew = m.nNew - 1 /\ w.nTried = m.nTried + 1
        /\ w.nIdCount = m.nIdCount /\ w.vRandom = m.vRandom
        /\ \A i \in Ids(m) :
              /\ w.mapInfo[i].addr = m.mapInfo[i].addr
              /\ w.mapInfo[i].fInTried <=> (i = id /\ yes) \/ (i # id /\ m.mapInfo[i].fInTried)
              /\ w.mapInfo[i].nRefCount = IF i = id THEN zero ELSE m.mapInfo[i].nRefCount
    BY <1>1, <1>2, <1>5, <1>9, <2>1, <2>2, MovedChanges
  <2> HIDE DEF w
  <2> QED  BY <1>8, <2>3
<1> HIDE DEF w
<1>11. Tried(w) = Tried(m) \cup {id}
  BY <1>2, <1>10 DEF Tried
<1>12. TriedInv(w)
  <2>1. ASSUME NEW c \in KBucket, NEW i \in K[c]
        PROVE  i \in Tried(w) /\ GetTriedBucket(w.mapInfo[i].addr) = c
    <3>1. CASE i = id /\ c = k
      BY <1>2, <1>10, <1>11, <3>1 DEF k
    <3>2. CASE i \in m.vvTried[c]
      <4>1. i \in Tried(m) /\ GetTriedBucket(m.mapInfo[i].addr) = c
        BY <1>1, <3>2 DEF TriedInv
      <4> QED  BY <1>2, <1>10, <1>11, <4>1
    <3> QED  BY <1>6, <3>1, <3>2
  <2>2. ASSUME NEW i \in Tried(w)
        PROVE  i \in K[GetTriedBucket(w.mapInfo[i].addr)]
    <3>1. CASE i = id
      BY <1>2, <1>3, <1>6, <1>10, <3>1 DEF k
    <3>2. CASE i \in Tried(m)
      <4>1. /\ i \in m.vvTried[GetTriedBucket(m.mapInfo[i].addr)]
            /\ m.mapInfo[i].addr \in Addr /\ w.mapInfo[i].addr = m.mapInfo[i].addr
        BY <1>1, <1>2, <1>10, <3>2 DEF TriedInv, TypeOK, Info
      <4>2. GetTriedBucket(m.mapInfo[i].addr) \in KBucket
        BY <4>1, AddrManAssumption
      <4> QED  BY <1>6, <4>1, <4>2
    <3> QED  BY <1>11, <3>1, <3>2
  <2> QED  BY <1>10, <2>1, <2>2 DEF TriedInv
<1>13. NewInv(w, {})
  <2>1. ASSUME NEW i \in Ids(m)
        PROVE  w.mapInfo[i].nRefCount = Cardinality(BucketsOf(w, i))
                  /\ Cardinality(BucketsOf(w, i)) \in Nat
    <3>1. CASE i = id
      <4>1. BucketsOf(w, id) = {}
        BY <1>9, <1>10 DEF BucketsOf
      <4>2. Cardinality(BucketsOf(w, id)) = 0
        BY <4>1, FS_EmptySet
      <4> QED  BY <1>10, <3>1, <4>2
    <3>2. CASE i # id
      <4>1. BucketsOf(w, i) = BucketsOf(m, i)
        BY <1>10, <3>2 DEF BucketsOf, N
      <4>2. Cardinality(BucketsOf(m, i)) \in Nat
        BY <1>1, FinitelyMany
      <4>3. m.mapInfo[i].nRefCount = Cardinality(BucketsOf(m, i))
        BY <1>1, <4>2 DEF NewInv
      <4> QED  BY <1>10, <3>2, <4>1, <4>2, <4>3
    <3> QED  BY <3>1, <3>2
  <2>2. \A b \in NBucket : w.vvNew[b] \subseteq Ids(w)
    BY <1>9, <1>10
  <2> QED  BY <1>10, <2>1, <2>2 DEF NewInv
<1>14. RangeInv(w, {})
  BY <1>1, <1>10 DEF RangeInv
<1>15. CountInv(w)
  <2>1. Cardinality(Tried(w)) = Cardinality(Tried(m)) + 1
    BY <1>1, <1>2, <1>11, FinitelyMany, FS_AddElement
  <2> QED  BY <1>1, <1>4, <1>10, <2>1 DEF CountInv
<1>16. BoundInv(w)
  <2>1. m.vvTried[k] \subseteq Ids(m)
    BY <1>1, <1>2, <1>3 DEF TriedInv
  <2>2. IsFiniteSet(m.vvTried[k]) /\ Cardinality(m.vvTried[k]) \in Nat /\ TriedSize \in Nat
    BY <1>1, <2>1, FinitelyMany, FS_Subset, FS_CardinalityType, AddrManAssumption
  <2>3. Cardinality(m.vvTried[k] \cup {id}) <= Cardinality(m.vvTried[k]) + 1
    BY <2>2, FS_AddElement
  <2>4. Cardinality(m.vvTried[k] \cup {id}) \in Nat
    BY <2>2, FS_AddElement, FS_CardinalityType
  <2>5. Cardinality(m.vvTried[k] \cup {id}) <= TriedSize
    BY <2>2, <2>3, <2>4 DEF k
  <2>6. \A c \in KBucket : Cardinality(K[c]) <= TriedSize
    BY <1>1, <1>6, <2>5 DEF BoundInv
  <2> QED  BY <1>9, <1>10, <2>6 DEF BoundInv
<1> QED  BY <1>7, <1>10, <1>12, <1>13, <1>14, <1>15, <1>16 DEF TableInv

\* The "tried" bucket is full: an entry of it goes back into a "new" bucket,
\* where there is a place, if only the one that was left.
LEMMA MakeTriedEvicts ==
    ASSUME NEW m, TableInv(m, {}, {}), NEW id, NEW nOrigin, NEW old,
           Candidate(m, id, nOrigin, old),
           ~(Cardinality(m.vvTried[GetTriedBucket(m.mapInfo[id].addr)]) < TriedSize)
    PROVE  LET w == MakeTried(m, id, nOrigin, old) IN
           TableInv(w, {}, {}) /\ Known(w) = Known(m)
<1> DEFINE k == GetTriedBucket(m.mapInfo[id].addr)
           home == GetNewBucket(m.mapInfo[old].addr, m.mapInfo[old].source)
           N == [b \in NBucket |-> m.vvNew[b] \ {id}]
           K == [m.vvTried EXCEPT ![k] = @ \cup {id}]
           zero == 0
           one == 1
           yes == TRUE
           no == FALSE
           u == Moved(m, id, zero, yes, N, K, m.nNew - 1, m.nTried)
           dest == IF Cardinality(u.vvNew[home]) < NewSize THEN home ELSE nOrigin
           N2 == [u.vvNew EXCEPT ![dest] = @ \cup {old}]
           K2 == [u.vvTried EXCEPT ![k] = @ \ {old}]
           w == Moved(u, old, one, no, N2, K2, u.nNew + 1, u.nTried)
<1>1. /\ TypeOK(m) /\ RandomInv(m) /\ AddrInv(m) /\ TriedInv(m) /\ CountInv(m)
      /\ NewInv(m, {}) /\ RangeInv(m, {}) /\ BoundInv(m)
  BY DEF TableInv
<1>2. /\ id \in Ids(m) /\ ~m.mapInfo[id].fInTried /\ m.mapInfo[id].addr \in Addr
      /\ id \notin Tried(m) /\ Tried(m) \subseteq Ids(m) /\ nOrigin \in NBucket
  BY <1>1 DEF Candidate, TypeOK, Info, Tried
<1>3. k \in KBucket /\ old \in m.vvTried[k]
  BY <1>2, AddrManAssumption DEF Candidate
<1>4. m.nNew \in Int /\ m.nTried \in Int /\ id \in Nat
  BY <1>1, <1>2 DEF TypeOK
<1>5. K \in [KBucket -> SUBSET Nat]
  BY <1>1, <1>4 DEF TypeOK
<1>6. \A c \in KBucket : K[c] = IF c = k THEN m.vvTried[k] \cup {id} ELSE m.vvTried[c]
  BY <1>1, <1>3 DEF TypeOK
<1>7. /\ old \in Tried(m) /\ old \in Ids(m) /\ old # id /\ m.mapInfo[old].fInTried
      /\ GetTriedBucket(m.mapInfo[old].addr) = k
  BY <1>1, <1>2, <1>3 DEF TriedInv, Tried
<1>8. home \in NBucket
  <2>1. m.mapInfo[old].addr \in Addr /\ m.mapInfo[old].source \in Source
    BY <1>1, <1>7 DEF TypeOK, Info
  <2> QED  BY <2>1, AddrManAssumption
<1>9. zero = 0 /\ one = 1 /\ zero \in Int /\ one \in Int
  OBVIOUS
<1>10. yes /\ ~no /\ yes \in BOOLEAN /\ no \in BOOLEAN
  OBVIOUS
<1>11. u = [m EXCEPT !.vvNew = [b \in NBucket |-> m.vvNew[b] \ {id}],
                     !.mapInfo[id] = [@ EXCEPT !.nRefCount = 0, !.fInTried = TRUE],
                     !.nNew = @ - 1, !.vvTried[k] = @ \cup {id}]
  BY <1>1 DEF Moved, TypeOK
<1>12. MakeTried(m, id, nOrigin, old) =
         [u EXCEPT !.vvTried[k] = @ \ {old}, !.nNew = @ + 1,
                   !.mapInfo[old] = [@ EXCEPT !.nRefCount = 1, !.fInTried = FALSE],
                   !.vvNew[dest] = @ \cup {old}]
  BY <1>11 DEF MakeTried
<1> HIDE DEF k, N, K, zero, one, yes, no, home, u
<1>13. /\ N \in [NBucket -> SUBSET Nat]
       /\ \A b \in NBucket : /\ N[b] \subseteq Ids(m) \ {id} /\ IsFiniteSet(N[b])
                             /\ Cardinality(N[b]) \in Nat /\ Cardinality(N[b]) <= NewSize
       /\ Cardinality(N[nOrigin]) < NewSize
  BY LeavesNew DEF N
<1>14. /\ TypeOK(u) /\ RandomInv(u) /\ AddrInv(u) /\ Ids(u) = Ids(m) /\ Known(u) = Known(m)
       /\ u.vvNew = N /\ u.vvTried = K /\ u.nNew = m.nNew - 1 /\ u.nTried = m.nTried
       /\ u.nIdCount = m.nIdCount /\ u.vRandom = m.vRandom
       /\ \A i \in Ids(m) :
             /\ u.mapInfo[i].addr = m.mapInfo[i].addr
             /\ u.mapInfo[i].fInTried <=> (i = id /\ yes) \/ (i # id /\ m.mapInfo[i].fInTried)
             /\ u.mapInfo[i].nRefCount = IF i = id THEN zero ELSE m.mapInfo[i].nRefCount
  <2>1. m.nNew - 1 \in Int
    BY <1>4
  <2>2. N \in [NBucket -> SUBSET Nat]
    BY <1>13
  <2>3. zero \in Int
    BY <1>9
  <2>4. yes \in BOOLEAN
    BY <1>10
  <2>5. TypeOK(m) /\ RandomInv(m) /\ AddrInv(m) /\ id \in Ids(m) /\ m.nTried \in Int
    BY <1>1, <1>2, <1>4
  <2> HIDE DEF dest, N2, K2, w
  <2> QED  BY <1>5, <2>1, <2>2, <2>3, <2>4, <2>5, MovedChanges DEF u
<1>15. MakeTried(m, id, nOrigin, old) = w
  BY <1>12, <1>14 DEF Moved, TypeOK, one, no
<1>16. /\ dest \in NBucket /\ Cardinality(N[dest]) < NewSize
  BY <1>2, <1>8, <1>13, <1>14
<1> HIDE DEF dest
<1>17. /\ N2 \in [NBucket -> SUBSET Nat] /\ K2 \in [KBucket -> SUBSET Nat]
       /\ \A b \in NBucket : N2[b] = IF b = dest THEN N[b] \cup {old} ELSE N[b]
       /\ \A c \in KBucket : K2[c] = IF c = k THEN (m.vvTried[k] \cup {id}) \ {old}
                                     ELSE m.vvTried[c]
  <2>1. old \in Nat
    BY <1>1, <1>7 DEF TypeOK
  <2> QED  BY <1>3, <1>5, <1>6, <1>13, <1>14, <1>16, <2>1
<1> HIDE DEF N2, K2
<1>18. /\ TypeOK(w) /\ RandomInv(w) /\ AddrInv(w) /\ Ids(w) = Ids(m) /\ Known(w) = Known(m)
       /\ w.vvNew = N2 /\ w.vvTried = K2 /\ w.nNew = m.nNew /\ w.nTried = m.nTried
       /\ w.nIdCount = m.nIdCount /\ w.vRandom = m.vRandom
       /\ \A i \in Ids(m) :
             /\ w.mapInfo[i].addr = m.mapInfo[i].addr
             /\ w.mapInfo[i].fInTried <=> i = id \/ (i # old /\ m.mapInfo[i].fInTried)
             /\ w.mapInfo[i].nRefCount = IF i = old THEN 1 ELSE IF i = id THEN 0
                                         ELSE m.mapInfo[i].nRefCount
  <2>1. u.nNew + 1 \in Int /\ u.nTried \in Int /\ u.nNew + 1 = m.nNew /\ old \in Ids(u)
    BY <1>4, <1>7, <1>14
  <2>2. /\ TypeOK(w) /\ RandomInv(w) /\ AddrInv(w) /\ Ids(w) = Ids(u) /\ Known(w) = Known(u)
        /\ w.vvNew = N2 /\ w.vvTried = K2 /\ w.nNew = u.nNew + 1 /\ w.nTried = u.nTried
        /\ w.nIdCount = u.nIdCount /\ w.vRandom = u.vRandom
        /\ \A i \in Ids(u) :
              /\ w.mapInfo[i].addr = u.mapInfo[i].addr
              /\ w.mapInfo[i].fInTried <=> (i = old /\ no) \/ (i # old /\ u.mapInfo[i].fInTried)
              /\ w.mapInfo[i].nRefCount = IF i = old THEN one ELSE u.mapInfo[i].nRefCount
    BY <1>9, <1>10, <1>14, <1>17, <2>1, MovedChanges
  <2> HIDE DEF w
  <2> QED  BY <1>7, <1>9, <1>10, <1>14, <2>1, <2>2
<1> HIDE DEF w
<1>19. Tried(w) = (Tried(m) \cup {id}) \ {old}
  BY <1>2, <1>7, <1>18 DEF Tried
<1>20. TriedInv(w)
  <2>1. ASSUME NEW c \in KBucket, NEW i \in K2[c]
        PROVE  i \in Tried(w) /\ GetTriedBucket(w.mapInfo[i].addr) = c
    <3>1. CASE i = id /\ c = k
      BY <1>2, <1>7, <1>18, <1>19, <3>1 DEF k
    <3>2. CASE i \in m.vvTried[c]
      <4>1. i \in Tried(m) /\ GetTriedBucket(m.mapInfo[i].addr) = c
        BY <1>1, <3>2 DEF TriedInv
      <4>2. i # old
        BY <1>7, <1>17, <4>1
      <4> QED  BY <1>2, <1>18, <1>19, <4>1, <4>2
    <3> QED  BY <1>17, <3>1, <3>2
  <2>2. ASSUME NEW i \in Tried(w)
        PROVE  i \in K2[GetTriedBucket(w.mapInfo[i].addr)]
    <3>1. CASE i = id
      BY <1>2, <1>3, <1>7, <1>17, <1>18, <3>1 DEF k
    <3>2. CASE i \in Tried(m) /\ i # old
      <4>1. /\ i \in m.vvTried[GetTriedBucket(m.mapInfo[i].addr)]
            /\ m.mapInfo[i].addr \in Addr /\ w.mapInfo[i].addr = m.mapInfo[i].addr
        BY <1>1, <1>2, <1>18, <3>2 DEF TriedInv, TypeOK, Info
      <4>2. GetTriedBucket(m.mapInfo[i].addr) \in KBucket
        BY <4>1, AddrManAssumption
      <4> QED  BY <1>17, <3>2, <4>1, <4>2
    <3> QED  BY <1>19, <3>1, <3>2
  <2> QED  BY <1>18, <2>1, <2>2 DEF TriedInv
<1>21. NewInv(w, {})
  <2>1. ASSUME NEW i \in Ids(m)
        PROVE  w.mapInfo[i].nRefCount = Cardinality(BucketsOf(w, i))
                  /\ Cardinality(BucketsOf(w, i)) \in Nat
    <3>1. CASE i = id
      <4>1. BucketsOf(w, id) = {}
        BY <1>7, <1>13, <1>17, <1>18 DEF BucketsOf
      <4>2. Cardinality(BucketsOf(w, id)) = 0
        BY <4>1, FS_EmptySet
      <4> QED  BY <1>7, <1>18, <3>1, <4>2
    <3>2. CASE i = old
      <4>1. Cardinality(BucketsOf(m, old)) \in Nat /\ IsFiniteSet(BucketsOf(m, old))
        BY <1>1, FinitelyMany
      <4>2. m.mapInfo[old].nRefCount = 0
        BY <1>1, <1>7 DEF RangeInv
      <4>3. m.mapInfo[old].nRefCount = Cardinality(BucketsOf(m, old))
        BY <1>1, <1>7, <4>1 DEF NewInv
      <4>4. BucketsOf(m, old) = {}
        BY <4>1, <4>2, <4>3, FS_EmptySet
      <4>5. \A b \in NBucket : old \notin N[b]
        BY <4>4 DEF BucketsOf, N
      <4>6. BucketsOf(w, old) = {dest}
        BY <1>16, <1>17, <1>18, <4>5 DEF BucketsOf
      <4>7. Cardinality(BucketsOf(w, old)) = 1
        BY <4>6, FS_Singleton
      <4> QED  BY <1>18, <3>2, <4>7
    <3>3. CASE i # id /\ i # old
      <4>1. BucketsOf(w, i) = BucketsOf(m, i)
        BY <1>17, <1>18, <3>3 DEF BucketsOf, N
      <4>2. Cardinality(BucketsOf(m, i)) \in Nat
        BY <1>1, FinitelyMany
      <4>3. m.mapInfo[i].nRefCount = Cardinality(BucketsOf(m, i))
        BY <1>1, <4>2 DEF NewInv
      <4> QED  BY <1>18, <3>3, <4>1, <4>2, <4>3
    <3> QED  BY <3>1, <3>2, <3>3
  <2>2. \A b \in NBucket : w.vvNew[b] \subseteq Ids(w)
    BY <1>7, <1>13, <1>17, <1>18
  <2> QED  BY <1>18, <2>1, <2>2 DEF NewInv
<1>22. RangeInv(w, {})
  BY <1>1, <1>7, <1>18, AddrManAssumption DEF RangeInv
<1>23. CountInv(w)
  <2>1. IsFiniteSet(Tried(m))
    BY <1>1, FinitelyMany
  <2>2. /\ IsFiniteSet(Tried(m) \cup {id})
        /\ Cardinality(Tried(m) \cup {id}) = Cardinality(Tried(m)) + 1
    BY <1>2, <2>1, FS_AddElement
  <2>3. Cardinality(Tried(w)) = (Cardinality(Tried(m)) + 1) - 1
    BY <1>7, <1>19, <2>2, FS_RemoveElement
  <2>4. Cardinality(Tried(m)) \in Nat
    BY <2>1, FS_CardinalityType
  <2> QED  BY <1>1, <1>18, <2>3, <2>4 DEF CountInv
<1>24. BoundInv(w)
  <2>1. m.vvTried[k] \subseteq Ids(m) /\ id \notin m.vvTried[k]
    BY <1>1, <1>2, <1>3 DEF TriedInv
  <2>2. IsFiniteSet(m.vvTried[k]) /\ Cardinality(m.vvTried[k]) \in Nat
    BY <1>1, <2>1, FinitelyMany, FS_Subset, FS_CardinalityType
  <2>3. /\ IsFiniteSet(m.vvTried[k] \cup {id})
        /\ Cardinality(m.vvTried[k] \cup {id}) = Cardinality(m.vvTried[k]) + 1
    BY <2>1, <2>2, FS_AddElement
  <2>4. Cardinality((m.vvTried[k] \cup {id}) \ {old}) = (Cardinality(m.vvTried[k]) + 1) - 1
    BY <1>3, <2>3, FS_RemoveElement
  <2>5. \A c \in KBucket : Cardinality(w.vvTried[c]) <= TriedSize
    <3>1. TriedSize \in Nat
      BY AddrManAssumption
    <3>2. Cardinality(m.vvTried[k]) <= TriedSize
      BY <1>1, <1>3 DEF BoundInv
    <3>3. Cardinality(K2[k]) <= TriedSize
      <4>1. K2[k] = (m.vvTried[k] \cup {id}) \ {old}
        BY <1>3, <1>17
      <4>2. Cardinality(K2[k]) = (Cardinality(m.vvTried[k]) + 1) - 1
        BY <2>4, <4>1
      <4> QED  BY <2>2, <3>1, <3>2, <4>2
    <3>4. \A c \in KBucket : c # k => Cardinality(K2[c]) <= TriedSize
      BY <1>1, <1>17 DEF BoundInv
    <3> QED  BY <1>18, <3>3, <3>4
  <2>6. Cardinality(N[dest] \cup {old}) <= NewSize
    <3>1. Cardinality(N[dest] \cup {old}) = IF old \in N[dest] THEN Cardinality(N[dest])
                                            ELSE Cardinality(N[dest]) + 1
      BY <1>13, <1>16, FS_AddElement
    <3>2. Cardinality(N[dest]) \in Nat /\ NewSize \in Nat
      BY <1>13, <1>16, AddrManAssumption
    <3> QED  BY <1>16, <3>1, <3>2
  <2>7. \A b \in NBucket : Cardinality(w.vvNew[b]) <= NewSize
    BY <1>13, <1>17, <1>18, <2>6
  <2> QED  BY <2>5, <2>7 DEF BoundInv
<1> QED  BY <1>15, <1>18, <1>20, <1>21, <1>22, <1>23, <1>24 DEF TableInv

-----------------------------------------------------------------------------
LEMMA GoodKeeps ==
    ASSUME TableInv(am, {}, {}), NEW a \in Addr, Good(a)
    PROVE  TableInv(am', {}, {}) /\ Known(am') = Known(am)
<1> DEFINE id == am.mapAddr[a]
           full == am.vvTried[GetTriedBucket(a)]
<1>1. /\ a \in Known(am) /\ ~am.mapInfo[id].fInTried
      /\ \E nOrigin \in NBucket :
            /\ id \in am.vvNew[nOrigin]
            /\ \E old \in IF Cardinality(full) < TriedSize THEN {id} ELSE full :
                  am' = MakeTried(am, id, nOrigin, old)
  BY DEF Good
<1>2. id \in Ids(am) /\ am.mapInfo[id].addr = a
  BY <1>1 DEF TableInv, AddrInv
<1> HIDE DEF id
<1>3. PICK nOrigin \in NBucket :
         /\ id \in am.vvNew[nOrigin]
         /\ \E old \in IF Cardinality(full) < TriedSize THEN {id} ELSE full :
               am' = MakeTried(am, id, nOrigin, old)
  BY <1>1
<1>4. PICK old \in IF Cardinality(full) < TriedSize THEN {id} ELSE full :
         am' = MakeTried(am, id, nOrigin, old)
  BY <1>3
<1>5. Candidate(am, id, nOrigin, old)
  BY <1>1, <1>2, <1>3, <1>4 DEF Candidate
<1>6. CASE Cardinality(am.vvTried[GetTriedBucket(am.mapInfo[id].addr)]) < TriedSize
  BY <1>4, <1>5, <1>6, MakeTriedWithRoom
<1>7. CASE ~(Cardinality(am.vvTried[GetTriedBucket(am.mapInfo[id].addr)]) < TriedSize)
  BY <1>4, <1>5, <1>7, MakeTriedEvicts
<1> QED  BY <1>6, <1>7

\* An address of which there is news, known or not.
LEMMA AddKeeps ==
    ASSUME TableInv(am, {}, {}), NEW a \in Addr, NEW s \in Source, Add(a, s)
    PROVE  /\ TableInv(am', {}, {}) /\ Tried(am) \subseteq Ids(am')
           /\ \A i \in Tried(am) : am'.mapInfo[i].addr = am.mapInfo[i].addr
<1> DEFINE b == GetNewBucket(a, s)
<1>1. b \in NBucket
  BY AddrManAssumption
<1> HIDE DEF b
<1>2. CASE a \in Known(am)
  <2> DEFINE id == am.mapAddr[a]
  <2>1. /\ ~am.mapInfo[id].fInTried /\ am.mapInfo[id].nRefCount # PerAddress
        /\ am' \in Insert(am, id, b)
    BY <1>2 DEF Add, b
  <2>2. id \in Ids(am)
    BY <1>2 DEF TableInv, AddrInv
  <2> HIDE DEF id
  <2>3. am.mapInfo[id].nRefCount \in 1..PerAddress /\ PerAddress \in Nat
    BY <2>1, <2>2, AddrManAssumption DEF TableInv, RangeInv
  <2>4. am.mapInfo[id].nRefCount \in 0..(PerAddress - 1)
    BY <2>1, <2>3
  <2>5. TableInv(am, {}, {id})
    BY DEF TableInv, RangeInv
  <2>6. TableInv(am', {}, {}) /\ Spares(am', am)
    BY <1>1, <2>1, <2>2, <2>4, <2>5, InsertKeeps
  <2> QED  BY <2>6 DEF Spares
<1>3. CASE a \notin Known(am)
  <2> DEFINE id == am.nIdCount
             w == Create(am, a, s)
  <2>1. am' \in Insert(w, id, b)
    BY <1>3 DEF Add, b
  <2>2. /\ TableInv(w, {}, {id}) /\ id \notin Ids(am) /\ Ids(w) = Ids(am) \cup {id}
        /\ w.vvNew = am.vvNew /\ ~w.mapInfo[id].fInTried /\ w.mapInfo[id].nRefCount = 0
        /\ \A i \in Ids(am) : w.mapInfo[i] = am.mapInfo[i]
    BY <1>3, CreateKeeps
  <2> HIDE DEF id, w
  <2>3. id \notin w.vvNew[b]
    BY <1>1, <2>2 DEF TableInv, NewInv
  <2>4. w.mapInfo[id].nRefCount \in 0..(PerAddress - 1)
    BY <2>2, AddrManAssumption
  <2>5. TableInv(am', {}, {}) /\ Spares(am', w)
    BY <1>1, <2>1, <2>2, <2>3, <2>4, InsertKeeps
  <2>6. Tried(w) = Tried(am)
    BY <2>2 DEF Tried
  <2> QED  BY <2>2, <2>5, <2>6 DEF Spares, Tried
<1> QED  BY <1>2, <1>3

-----------------------------------------------------------------------------
\* Every non-empty set of naturals has a least member: the induction below
\* stands on it.
LEMMA LeastIndex ==
    ASSUME NEW T \in SUBSET Nat, T # {}
    PROVE  \E x \in T : \A y \in T : x <= y
<1> DEFINE R == OpToRel(<, Nat)
<1>1. \A x, y \in Nat : y < x => <<y, x>> \in R
  BY DEF OpToRel
<1>2. PICK x \in T : \A y \in T : <<y, x>> \notin R
  <2> HIDE DEF R
  <2> QED  BY NatLessThanWellFounded, WFMin DEF R
<1> HIDE DEF R
<1>3. \A y \in T : ~(y < x)
  BY <1>1, <1>2
<1> QED  BY <1>3

\* f is what each of the first n swaps leaves of m.
Shuffle(f, m, n, pick) ==
    f = [i \in 0..n |-> IF i = 0 THEN m ELSE SwapRandom(f[i - 1], i, pick[i])]

LEMMA ShuffleExists ==
    ASSUME NEW m, NEW pick, NEW n \in Nat
    PROVE  \E f : Shuffle(f, m, n, pick)
<1> DEFINE T == {k \in Nat : ~ \E f : Shuffle(f, m, k, pick)}
<1>1. SUFFICES ASSUME T # {} PROVE FALSE
  OBVIOUS
<1>2. PICK k \in T : \A j \in T : k <= j
  <2>1. T \in SUBSET Nat
    OBVIOUS
  <2> HIDE DEF T
  <2> QED  BY <1>1, <2>1, LeastIndex
<1>3. CASE k = 0
  <2> DEFINE f == [i \in 0..0 |-> m]
  <2>1. f = [i \in 0..0 |-> IF i = 0 THEN m ELSE SwapRandom(f[i - 1], i, pick[i])]
    OBVIOUS
  <2> HIDE DEF f
  <2> QED  BY <1>3, <2>1 DEF Shuffle
<1>4. CASE k # 0
  <2>1. k \in Nat /\ k - 1 \in Nat /\ k - 1 \notin T
    BY <1>2, <1>4
  <2>2. PICK g : Shuffle(g, m, k - 1, pick)
    BY <2>1
  <2> DEFINE f == [i \in 0..k |-> IF i = 0 THEN m ELSE SwapRandom(g[i - 1], i, pick[i])]
  <2>3. \A i \in 0..(k - 1) : g[i] = IF i = 0 THEN m ELSE SwapRandom(g[i - 1], i, pick[i])
    BY <2>2 DEF Shuffle
  <2>4. \A i \in 0..(k - 1) : f[i] = g[i]
    BY <2>1, <2>3
  <2>5. \A i \in 0..k : i # 0 => i - 1 \in 0..(k - 1)
    BY <2>1
  <2>6. f = [i \in 0..k |-> IF i = 0 THEN m ELSE SwapRandom(f[i - 1], i, pick[i])]
    <3>1. \A i \in 0..k : i # 0 => f[i - 1] = g[i - 1]
      BY <2>4, <2>5
    <3> DEFINE h == f
    <3>2. \A i \in 0..k : i # 0 => h[i - 1] = g[i - 1]
      BY <3>1
    <3> HIDE DEF h
    <3>3. f = [i \in 0..k |-> IF i = 0 THEN m ELSE SwapRandom(h[i - 1], i, pick[i])]
      BY <3>2
    <3> QED  BY <3>3 DEF h
  <2> HIDE DEF f
  <2> QED  BY <2>6 DEF Shuffle
<1> QED  BY <1>3, <1>4

\* Every swap of the shuffle leaves the table right.
LEMMA ShuffleKeeps ==
    ASSUME NEW m, TypeOK(m), RandomInv(m), NEW n \in Nat, n <= Len(m.vRandom),
           NEW pick \in [1..n -> 1..Len(m.vRandom)], NEW f, Shuffle(f, m, n, pick)
    PROVE  \A k \in 0..n : TypeOK(f[k]) /\ RandomInv(f[k]) /\ SameBut(f[k], m)
<1> DEFINE P(k) == TypeOK(f[k]) /\ RandomInv(f[k]) /\ SameBut(f[k], m)
           T == {k \in 0..n : ~P(k)}
<1>1. SUFFICES ASSUME T # {} PROVE FALSE
  OBVIOUS
<1>2. PICK k \in T : \A j \in T : k <= j
  <2>1. T \in SUBSET Nat
    OBVIOUS
  <2> HIDE DEF T
  <2> QED  BY <1>1, <2>1, LeastIndex
<1>3. \A i \in 0..n : f[i] = IF i = 0 THEN m ELSE SwapRandom(f[i - 1], i, pick[i])
  BY DEF Shuffle
<1>4. k \in 0..n /\ ~P(k)
  OBVIOUS
<1>5. CASE k = 0
  <2>1. f[0] = m
    BY <1>3, <1>4, <1>5
  <2>2. SameBut(m, m)
    BY DEF SameBut, SameEntry
  <2> QED  BY <1>4, <1>5, <2>1, <2>2
<1>6. CASE k # 0
  <2>1. k - 1 \in 0..n /\ k \in 1..n /\ k - 1 \notin T
    BY <1>2, <1>6
  <2>2. P(k - 1)
    BY <2>1
  <2> DEFINE w == f[k - 1]
             j == pick[k]
  <2>3. TypeOK(w) /\ RandomInv(w) /\ SameBut(w, m) /\ f[k] = SwapRandom(w, k, j)
    BY <1>3, <1>4, <1>6, <2>2
  <2>4. Len(w.vRandom) = Len(m.vRandom) /\ Len(m.vRandom) \in Nat
    BY <2>3 DEF SameBut, TypeOK
  <2>5. j \in 1..Len(m.vRandom)
    BY <2>1
  <2> HIDE DEF w, j
  <2>6. k \in 1..Len(w.vRandom) /\ j \in 1..Len(w.vRandom)
    BY <2>1, <2>4, <2>5
  <2>7. TypeOK(f[k]) /\ RandomInv(f[k]) /\ SameBut(f[k], w)
    BY <2>3, <2>6, SwapKeeps
  <2>8. SameBut(f[k], m)
    BY <2>3, <2>7 DEF SameBut, SameEntry
  <2> QED  BY <1>4, <2>7, <2>8
<1> QED  BY <1>5, <1>6

\* GetAddr_ changes the order of vRandom and nothing else.
LEMMA GetAddrKeeps ==
    ASSUME TableInv(am, {}, {}), GetAddr
    PROVE  TableInv(am', {}, {}) /\ SameBut(am', am)
<1> DEFINE some == (GetAddrPct * Len(am.vRandom)) \div 100
           n == IF some > GetAddrMax THEN GetAddrMax ELSE some
<1>1. TypeOK(am) /\ RandomInv(am) /\ Len(am.vRandom) \in Nat
  BY DEF TableInv, TypeOK
<1>2. PICK pick \in [1..n -> 1..Len(am.vRandom)] : am' = Shuffled(am, n, pick)
  BY DEF GetAddr
<1>3. some \in Nat /\ some <= Len(am.vRandom)
  <2>1. GetAddrPct \in Nat /\ GetAddrPct <= 100
    BY AddrManAssumption
  <2> DEFINE l == Len(am.vRandom)
             p == GetAddrPct * l
  <2>2. p \in Nat /\ p <= 100 * l
    BY <1>1, <2>1
  <2> HIDE DEF l, p
  <2>3. p \div 100 \in Nat /\ p \div 100 <= l
    BY <1>1, <2>2 DEF l
  <2> QED  BY <2>3 DEF l, p
<1> HIDE DEF some
<1>4. n \in Nat /\ n <= Len(am.vRandom)
  BY <1>1, <1>3, AddrManAssumption
<1> HIDE DEF n
<1> DEFINE f == CHOOSE g : Shuffle(g, am, n, pick)
<1>5. Shuffled(am, n, pick) = f[n]
  BY DEF Shuffled, Shuffle
<1>6. Shuffle(f, am, n, pick)
  BY <1>4, ShuffleExists
<1> HIDE DEF f
<1>7. TypeOK(f[n]) /\ RandomInv(f[n]) /\ SameBut(f[n], am)
  <2>1. n \in 0..n
    BY <1>4
  <2> QED  BY <1>1, <1>4, <1>6, <2>1, ShuffleKeeps
<1> QED  BY <1>2, <1>5, <1>7, SameButKeeps

-----------------------------------------------------------------------------
(* The restart: the entries are numbered again, in the order they are written. *)

\* Rank numbers a finite set of ids from 0, without a gap.
LEMMA RankEnumerates ==
    ASSUME NEW S \in SUBSET Nat, IsFiniteSet(S)
    PROVE  /\ \A x \in S : Rank(S, x) \in 0..(Cardinality(S) - 1)
           /\ \A x, y \in S : Rank(S, x) = Rank(S, y) => x = y
           /\ \A r \in 0..(Cardinality(S) - 1) : \E x \in S : Rank(S, x) = r
<1> DEFINE Below(x) == {i \in S : i < x}
           C == Cardinality(S)
<1>1. C \in Nat
  BY FS_CardinalityType
<1>2. \A x \in S : Rank(S, x) = Cardinality(Below(x))
  BY DEF Rank
<1>3. ASSUME NEW x \in S
      PROVE  /\ IsFiniteSet(Below(x)) /\ Rank(S, x) \in Nat
             /\ Rank(S, x) \in 0..(C - 1)
  <2>1. IsFiniteSet(S \ {x}) /\ Cardinality(S \ {x}) = C - 1
    BY FS_RemoveElement
  <2>2. Below(x) \in SUBSET (S \ {x})
    OBVIOUS
  <2> HIDE DEF Below, C
  <2>3. IsFiniteSet(Below(x)) /\ Cardinality(Below(x)) <= C - 1
    BY <2>1, <2>2, FS_Subset
  <2>4. Cardinality(Below(x)) \in Nat
    BY <2>3, FS_CardinalityType
  <2> QED  BY <1>1, <1>2, <2>3, <2>4
<1>4. ASSUME NEW x \in S, NEW y \in S, x < y
      PROVE  Rank(S, x) < Rank(S, y)
  <2>1. IsFiniteSet(Below(x) \cup {x}) /\ Cardinality(Below(x) \cup {x}) = Rank(S, x) + 1
    <3>1. x \notin Below(x)
      OBVIOUS
    <3> HIDE DEF Below
    <3> QED  BY <1>2, <1>3, <3>1, FS_AddElement
  <2>2. Below(x) \cup {x} \in SUBSET Below(y)
    <3>1. x \in Nat /\ y \in Nat /\ \A i \in S : i \in Nat
      OBVIOUS
    <3>2. \A i \in Below(x) \cup {x} : i \in S /\ i < y
      BY <1>4, <3>1
    <3> QED  BY <3>2
  <2>3. Cardinality(Below(x) \cup {x}) <= Cardinality(Below(y))
    <3> HIDE DEF Below
    <3> QED  BY <1>3, <2>2, FS_Subset
  <2> HIDE DEF Below
  <2> QED  BY <1>2, <1>3, <2>1, <2>3
<1>5. \A x, y \in S : Rank(S, x) = Rank(S, y) => x = y
  <2>1. \A x, y \in S : x # y => x < y \/ y < x
    OBVIOUS
  <2>2. \A x \in S : Rank(S, x) \in Nat
    BY <1>3
  <2> QED  BY <1>4, <2>1, <2>2
<1>6. \A r \in 0..(C - 1) : \E x \in S : Rank(S, x) = r
  <2> DEFINE f == [x \in S |-> Rank(S, x)]
             I == 0..(C - 1)
  <2>1. f \in Injection(S, I)
    BY <1>3, <1>5 DEF Injection, IsInjective
  <2>2. IsFiniteSet(I) /\ Cardinality(I) = C
    <3> HIDE DEF C
    <3>1. C - 1 \in Int /\ 0 \in Int
      BY <1>1
    <3>2. IsFiniteSet(I) /\ Cardinality(I) = IF 0 > C - 1 THEN 0 ELSE (C - 1) - 0 + 1
      BY <3>1, FS_Interval
    <3> QED  BY <1>1, <3>2
  <2>3. f \in Surjection(S, I)
    <3> HIDE DEF f, I
    <3> QED  BY <2>1, <2>2, FS_Injection
  <2> QED  BY <2>3 DEF Surjection
<1> QED  BY <1>3, <1>5, <1>6

\* So does NewId two sets of ids, one after the other, and Read is its inverse.
LEMMA ReadInverts ==
    ASSUME NEW new \in SUBSET Nat, NEW kept \in SUBSET Nat, IsFiniteSet(new), IsFiniteSet(kept),
           new \cap kept = {}
    PROVE  LET n == Cardinality(new)
               all == Cardinality(new) + Cardinality(kept) IN
           /\ n \in Nat /\ all \in Nat /\ n <= all
           /\ \A id \in new \cup kept :
                 /\ NewId(new, kept, id) \in 0..(all - 1)
                 /\ Read(new, kept)[NewId(new, kept, id)] = id
                 /\ id \in new <=> NewId(new, kept, id) < n
           /\ \A i \in 0..(all - 1) :
                 /\ Read(new, kept)[i] \in new \cup kept
                 /\ NewId(new, kept, Read(new, kept)[i]) = i
<1> DEFINE n == Cardinality(new)
           k == Cardinality(kept)
           N(id) == NewId(new, kept, id)
           R == Read(new, kept)
<1>1. n \in Nat /\ k \in Nat
  BY FS_CardinalityType
<1>2. \A id \in new : N(id) = Rank(new, id) /\ N(id) \in 0..(n - 1)
  BY RankEnumerates DEF NewId
<1>3. \A id \in kept : N(id) = n + Rank(kept, id) /\ Rank(kept, id) \in 0..(k - 1)
  BY RankEnumerates DEF NewId
<1>4. /\ \A x, y \in new : N(x) = N(y) => x = y
      /\ \A r \in 0..(n - 1) : \E x \in new : N(x) = r
  <2>1. /\ \A x, y \in new : Rank(new, x) = Rank(new, y) => x = y
        /\ \A r \in 0..(n - 1) : \E x \in new : Rank(new, x) = r
    BY RankEnumerates
  <2> QED  BY <1>2, <2>1
<1>5. /\ \A x, y \in kept : N(x) = N(y) => x = y
      /\ \A r \in 0..(k - 1) : \E x \in kept : N(x) = n + r
  <2>1. /\ \A x, y \in kept : Rank(kept, x) = Rank(kept, y) => x = y
        /\ \A r \in 0..(k - 1) : \E x \in kept : Rank(kept, x) = r
    BY RankEnumerates
  <2> QED  BY <1>1, <1>3, <2>1
<1>6. R = [i \in 0..(n + k - 1) |-> CHOOSE id \in new \cup kept : N(id) = i]
  BY DEF Read
<1> HIDE DEF N, n, k, R
<1>7. \A id \in new : N(id) \in 0..(n + k - 1) /\ N(id) < n
  BY <1>1, <1>2
<1>8. \A id \in kept : N(id) \in 0..(n + k - 1) /\ ~(N(id) < n)
  BY <1>1, <1>3
<1>9. \A x, y \in new \cup kept : N(x) = N(y) => x = y
  BY <1>4, <1>5, <1>7, <1>8
<1>10. ASSUME NEW i \in 0..(n + k - 1)
       PROVE  \E id \in new \cup kept : N(id) = i
  <2>1. CASE i < n
    BY <1>1, <1>4, <2>1
  <2>2. CASE ~(i < n)
    <3>1. i - n \in 0..(k - 1) /\ n + (i - n) = i
      BY <1>1, <2>2
    <3> QED  BY <1>5, <3>1
  <2> QED  BY <2>1, <2>2
<1>11. \A i \in 0..(n + k - 1) : R[i] \in new \cup kept /\ N(R[i]) = i
  BY <1>6, <1>10
<1>12. \A id \in new \cup kept : R[N(id)] = id
  BY <1>7, <1>8, <1>9, <1>11
<1>13. n <= n + k /\ n + k \in Nat
  BY <1>1
<1>14. \A id \in new \cup kept : id \in new <=> N(id) < n
  BY <1>7, <1>8
<1>15. \A id \in new \cup kept : N(id) \in 0..(n + k - 1)
  BY <1>7, <1>8
<1> QED  BY <1>1, <1>11, <1>12, <1>13, <1>14, <1>15 DEF N, n, k, R

\* Everything is written, and every entry read is kept.
LEMMA AllWritten ==
    ASSUME NEW m, TableInv(m, {}, {})
    PROVE  /\ Referenced(m) = Ids(m) \ Tried(m) /\ Tried(m) \subseteq Ids(m)
           /\ WrittenNew(m) = Referenced(m) /\ Kept(m) = Tried(m)
           /\ IsFiniteSet(Referenced(m)) /\ IsFiniteSet(Tried(m))
           /\ Cardinality(Referenced(m)) = m.nNew /\ Cardinality(Tried(m)) = m.nTried
<1>1. /\ TypeOK(m) /\ TriedInv(m) /\ CountInv(m) /\ RangeInv(m, {}) /\ BoundInv(m)
  BY DEF TableInv
<1>2. Referenced(m) = Ids(m) \ Tried(m) /\ Tried(m) \subseteq Ids(m)
  BY <1>1, AddrManAssumption DEF RangeInv, Referenced, Tried
<1>3. IsFiniteSet(Ids(m)) /\ IsFiniteSet(Tried(m))
  BY <1>1, FinitelyMany
<1>4. IsFiniteSet(Referenced(m)) /\ Cardinality(Referenced(m)) = m.nNew
  <2>1. Cardinality(Ids(m) \ Tried(m)) = Cardinality(Ids(m)) - Cardinality(Ids(m) \cap Tried(m))
    BY <1>3, FS_Difference
  <2>2. Ids(m) \cap Tried(m) = Tried(m)
    BY <1>2
  <2>3. m.nTried \in Int /\ m.nNew \in Int
    BY <1>1 DEF TypeOK
  <2>4. IsFiniteSet(Ids(m) \ Tried(m))
    BY <1>3, FS_Difference
  <2>5. /\ Cardinality(Tried(m)) = m.nTried
        /\ Cardinality(Ids(m)) = m.nTried + m.nNew
    BY <1>1 DEF CountInv
  <2>6. Cardinality(Ids(m) \ Tried(m)) = m.nNew
    <3> DEFINE x == Cardinality(Ids(m) \ Tried(m))
               y == Cardinality(Ids(m))
               z == Cardinality(Tried(m))
    <3>1. x = y - z
      BY <2>1, <2>2
    <3>2. y = m.nTried + m.nNew /\ z = m.nTried
      BY <2>5
    <3> HIDE DEF x, y, z
    <3>3. x = m.nNew
      BY <2>3, <3>1, <3>2
    <3> QED  BY <3>3 DEF x
  <2> QED  BY <1>2, <2>4, <2>6
<1>5. Referenced(m) \in SUBSET Nat /\ Tried(m) \in SUBSET Nat
  BY <1>1, <1>2 DEF TypeOK
<1>6. Cardinality(Tried(m)) = m.nTried
  BY <1>1 DEF CountInv
<1>7. WrittenNew(m) = Referenced(m)
  <2>1. \A id \in Referenced(m) : Rank(Referenced(m), id) \in 0..(m.nNew - 1)
    BY <1>4, <1>5, RankEnumerates
  <2>2. m.nNew \in Int
    BY <1>1 DEF TypeOK
  <2> QED  BY <2>1, <2>2 DEF WrittenNew
<1>8. WrittenTried(m) = Tried(m)
  <2>1. \A id \in Tried(m) : Rank(Tried(m), id) \in 0..(m.nTried - 1)
    BY <1>3, <1>5, <1>6, RankEnumerates
  <2>2. m.nTried \in Int
    BY <1>1 DEF TypeOK
  <2> QED  BY <2>1, <2>2 DEF WrittenTried
<1>9. ASSUME NEW id \in Tried(m)
      PROVE  LET k(x) == GetTriedBucket(m.mapInfo[x].addr) IN
             Cardinality({i \in Tried(m) : i < id /\ k(i) = k(id)}) < TriedSize
  <2> DEFINE k(x) == GetTriedBucket(m.mapInfo[x].addr)
             B == m.vvTried[k(id)]
             E == {i \in Tried(m) : i < id /\ k(i) = k(id)}
  <2>1. k(id) \in KBucket
    <3>1. m.mapInfo[id].addr \in Addr
      BY <1>1, <1>2 DEF TypeOK, Info
    <3> QED  BY <3>1, AddrManAssumption
  <2>2. B \subseteq Tried(m) /\ id \in B /\ E \subseteq B
    BY <1>1, <2>1 DEF TriedInv
  <2>3. id \in Nat /\ id \notin E
    BY <1>5
  <2>4. Cardinality(B) <= TriedSize
    BY <1>1, <2>1 DEF BoundInv
  <2> HIDE DEF B, E
  <2>5. IsFiniteSet(B)
    BY <1>3, <2>2, FS_Subset
  <2>6. /\ IsFiniteSet(B \ {id}) /\ Cardinality(B \ {id}) = Cardinality(B) - 1
        /\ Cardinality(B) \in Nat
    BY <2>2, <2>5, FS_RemoveElement, FS_CardinalityType
  <2>7. IsFiniteSet(E) /\ Cardinality(E) <= Cardinality(B \ {id})
    BY <2>2, <2>3, <2>6, FS_Subset
  <2>8. Cardinality(E) \in Nat /\ TriedSize \in Nat
    BY <2>7, FS_CardinalityType, AddrManAssumption
  <2>9. Cardinality(E) < TriedSize
    BY <2>4, <2>6, <2>7, <2>8
  <2> QED  BY <2>9 DEF E
<1>10. Kept(m) = Tried(m)
  BY <1>8, <1>9 DEF Kept
<1> QED  BY <1>2, <1>3, <1>4, <1>6, <1>7, <1>10

\* w is m with the ids given anew: id is N[id] now, and i was old[i].
Renamed(w, m, old, N) ==
    /\ w.nIdCount \in Nat /\ Ids(w) = 0..(w.nIdCount - 1) /\ Known(w) = Known(m)
    /\ w.nNew = m.nNew /\ w.nTried = m.nTried /\ w.nIdCount = w.nTried + w.nNew
    /\ w.vRandom = [p \in 1..w.nIdCount |-> p - 1]
    /\ \A id \in Ids(m) : N[id] \in Ids(w) /\ old[N[id]] = id
    /\ \A i \in Ids(w) :
          /\ old[i] \in Ids(m) /\ N[old[i]] = i
          /\ w.mapInfo[i].addr = m.mapInfo[old[i]].addr
          /\ w.mapInfo[i].source = m.mapInfo[old[i]].source
          /\ w.mapInfo[i].fInTried <=> m.mapInfo[old[i]].fInTried
          /\ w.mapInfo[i].nRefCount = m.mapInfo[old[i]].nRefCount
          /\ w.mapInfo[i].nRandomPos = i + 1
    /\ \A a \in Known(m) : w.mapAddr[a] = N[m.mapAddr[a]]
    /\ \A b \in NBucket : w.vvNew[b] = {N[id] : id \in m.vvNew[b]}
    /\ \A k \in KBucket : w.vvTried[k] = {N[id] : id \in m.vvTried[k]}

LEMMA RestartRenames ==
    ASSUME NEW m, TableInv(m, {}, {})
    PROVE  LET w == Loaded(m) IN
           /\ TypeOK(w)
           /\ Renamed(w, m, Read(Referenced(m), Tried(m)),
                      [id \in Ids(m) |-> NewId(Referenced(m), Tried(m), id)])
<1> DEFINE w == Loaded(m)
           new == WrittenNew(m)
           kept == Kept(m)
           old == Read(new, kept)
           n == Cardinality(new)
           all == Cardinality(new) + Cardinality(kept)
           N == [id \in Ids(m) |-> NewId(new, kept, id)]
           In(i) == Cardinality({b \in NBucket : i \in w.vvNew[b]})
           W == [b \in NBucket |-> {mapUnkIds(m, id) : id \in m.vvNew[b]}]
           I == 0..(all - 1)
<1>1. /\ TypeOK(m) /\ AddrInv(m) /\ TriedInv(m) /\ NewInv(m, {}) /\ CountInv(m) /\ RangeInv(m, {})
  BY DEF TableInv
<1>2. /\ new = Referenced(m) /\ kept = Tried(m) /\ new \cup kept = Ids(m)
      /\ new \cap kept = {} /\ IsFiniteSet(new) /\ IsFiniteSet(kept)
      /\ n = m.nNew /\ Cardinality(kept) = m.nTried
  BY AllWritten
<1>3. new \in SUBSET Nat /\ kept \in SUBSET Nat
  BY <1>1, <1>2 DEF TypeOK
<1>4. /\ w.nIdCount = all /\ w.vRandom = [p \in 1..all |-> p - 1]
      /\ w.nNew = n /\ w.nTried = Cardinality(kept)
  BY DEF Loaded
<1>5. w.vvNew = [b \in NBucket |-> {i \in W[b] :
                    Cardinality({c \in NBucket : c < b /\ i \in W[c]}) < PerAddress}]
  BY DEF Loaded
<1>6. w.vvTried = [k \in KBucket |-> {i \in n..(all - 1) : GetTriedBucket(m.mapInfo[old[i]].addr) = k}]
  BY DEF Loaded
<1>7. w.mapAddr = [a \in {m.mapInfo[old[i]].addr : i \in I} |->
                      CHOOSE i \in I : m.mapInfo[old[i]].addr = a]
  BY DEF Loaded
<1>8. w.mapInfo =
        [i \in I |->
            [addr |-> m.mapInfo[old[i]].addr, source |-> m.mapInfo[old[i]].source,
             nRefCount |-> In(i), fInTried |-> i >= n, nRandomPos |-> i + 1]]
  <2>1. \A i : In(i) = Cardinality({b \in NBucket : i \in
                           [d \in NBucket |-> {j \in W[d] :
                               Cardinality({c \in NBucket : c < d /\ j \in W[c]}) < PerAddress}][b]})
    BY <1>5
  <2> QED  BY <2>1 DEF Loaded
<1>9. w = [nIdCount |-> w.nIdCount, vRandom |-> w.vRandom, nNew |-> w.nNew,
           nTried |-> w.nTried, mapInfo |-> w.mapInfo, mapAddr |-> w.mapAddr,
           vvTried |-> w.vvTried, vvNew |-> w.vvNew]
  BY DEF Loaded
<1>10. \A b \in NBucket : W[b] = {mapUnkIds(m, id) : id \in m.vvNew[b]}
  OBVIOUS
<1> HIDE DEF w, new, kept, old, In, W
<1>11. /\ n \in Nat /\ all \in Nat /\ n <= all
       /\ \A id \in Ids(m) : N[id] \in I /\ old[N[id]] = id /\ (id \in new <=> N[id] < n)
       /\ \A i \in I : old[i] \in Ids(m) /\ N[old[i]] = i
  <2>1. /\ n \in Nat /\ all \in Nat /\ n <= all
        /\ \A id \in new \cup kept :
              /\ NewId(new, kept, id) \in 0..(all - 1)
              /\ old[NewId(new, kept, id)] = id
              /\ id \in new <=> NewId(new, kept, id) < n
        /\ \A i \in 0..(all - 1) :
              old[i] \in new \cup kept /\ NewId(new, kept, old[i]) = i
    BY <1>2, <1>3, ReadInverts DEF old
  <2> QED  BY <1>2, <2>1
<1>12. \A id \in Ids(m) : N[id] = NewId(new, kept, id)
  OBVIOUS
<1> HIDE DEF N, n, all
<1>13. \A i \in I : (old[i] \in new <=> i < n) /\ (old[i] \in kept <=> i >= n)
  BY <1>2, <1>11
<1>14. \A b \in NBucket : w.vvNew[b] = {N[id] : id \in m.vvNew[b]}
  <2>1. ASSUME NEW b \in NBucket, NEW id \in m.vvNew[b]
        PROVE  id \in Ids(m) /\ mapUnkIds(m, id) = N[id]
    <3>1. id \in Ids(m) /\ b \in BucketsOf(m, id)
      BY <1>1 DEF NewInv, BucketsOf
    <3>2. IsFiniteSet(BucketsOf(m, id)) /\ Cardinality(BucketsOf(m, id)) \in Nat
      BY <1>1, FinitelyMany
    <3>3. Cardinality(BucketsOf(m, id)) # 0
      BY <3>1, <3>2, FS_EmptySet
    <3>4. m.mapInfo[id].nRefCount # 0
      BY <1>1, <3>1, <3>2, <3>3 DEF NewInv
    <3>5. id \in new
      BY <1>2, <3>1, <3>4 DEF Referenced
    <3> QED  BY <1>2, <1>12, <3>1, <3>5 DEF mapUnkIds, NewId
  <2>2. \A b \in NBucket : W[b] = {N[id] : id \in m.vvNew[b]}
    BY <1>10, <2>1
  <2>3. ASSUME NEW b \in NBucket, NEW i \in W[b]
        PROVE  Cardinality({c \in NBucket : c < b /\ i \in W[c]}) < PerAddress
    <3> DEFINE E == {c \in NBucket : c < b /\ i \in W[c]}
               id == old[i]
               B == BucketsOf(m, id)
    <3>1. PICK x \in m.vvNew[b] : i = N[x]
      BY <2>2
    <3>2. id = x /\ id \in Ids(m) /\ b \in B
      BY <1>11, <2>1, <3>1 DEF BucketsOf
    <3>3. \A c \in E : c \in B /\ c # b
      <4>1. b \in Nat
        BY AddrManAssumption
      <4>2. \A c \in E : \A y \in m.vvNew[c] : i = N[y] => y = id
        BY <1>11, <2>1
      <4> QED  BY <2>2, <4>1, <4>2 DEF BucketsOf
    <3> HIDE DEF E, id
    <3>4. IsFiniteSet(B) /\ Cardinality(B) \in Nat
      BY <1>1, FinitelyMany
    <3>5. m.mapInfo[id].nRefCount = Cardinality(B)
      BY <1>1, <3>2, <3>4 DEF NewInv
    <3>6. Cardinality(B) <= PerAddress /\ PerAddress \in Nat
      BY <1>1, <3>2, <3>5, AddrManAssumption DEF RangeInv
    <3> HIDE DEF B
    <3>7. IsFiniteSet(B \ {b}) /\ Cardinality(B \ {b}) = Cardinality(B) - 1
      BY <3>2, <3>4, FS_RemoveElement
    <3>8. IsFiniteSet(E) /\ Cardinality(E) <= Cardinality(B \ {b})
      BY <3>3, <3>7, FS_Subset
    <3>9. Cardinality(E) \in Nat
      BY <3>8, FS_CardinalityType
    <3>10. Cardinality(E) < PerAddress
      BY <3>4, <3>6, <3>7, <3>8, <3>9
    <3> QED  BY <3>10 DEF E
  <2>4. \A b \in NBucket : w.vvNew[b] = W[b]
    BY <1>5, <2>3
  <2> QED  BY <2>2, <2>4
<1>15. \A k \in KBucket : w.vvTried[k] = {N[id] : id \in m.vvTried[k]}
  <2> TAKE k \in KBucket
  <2>1. w.vvTried[k] = {i \in n..(all - 1) : GetTriedBucket(m.mapInfo[old[i]].addr) = k}
    BY <1>6
  <2>2. ASSUME NEW i \in w.vvTried[k]
        PROVE  i \in {N[id] : id \in m.vvTried[k]}
    <3>1. i \in I /\ i >= n /\ GetTriedBucket(m.mapInfo[old[i]].addr) = k
      BY <1>11, <2>1
    <3>2. old[i] \in Tried(m) /\ N[old[i]] = i
      BY <1>2, <1>11, <1>13, <3>1
    <3>3. old[i] \in m.vvTried[k]
      BY <1>1, <3>1, <3>2 DEF TriedInv
    <3> QED  BY <3>2, <3>3
  <2>3. ASSUME NEW id \in m.vvTried[k]
        PROVE  N[id] \in w.vvTried[k]
    <3>1. id \in kept /\ id \in Ids(m) /\ GetTriedBucket(m.mapInfo[id].addr) = k
      BY <1>1, <1>2 DEF TriedInv
    <3>2. N[id] \in I /\ old[N[id]] = id
      BY <1>11, <3>1
    <3>3. N[id] >= n
      BY <1>13, <3>1, <3>2
    <3>4. N[id] \in n..(all - 1)
      BY <1>11, <3>2, <3>3
    <3> QED  BY <2>1, <3>1, <3>2, <3>4
  <2> QED  BY <2>2, <2>3
<1>16. Known(w) = Known(m) /\ \A a \in Known(m) : w.mapAddr[a] = N[m.mapAddr[a]]
  <2>1. \A a \in Known(m) : N[m.mapAddr[a]] \in I /\ m.mapInfo[old[N[m.mapAddr[a]]]].addr = a
    BY <1>1, <1>11 DEF AddrInv
  <2>2. \A i \in I : m.mapInfo[old[i]].addr \in Known(m)
    BY <1>1, <1>11 DEF AddrInv
  <2>3. {m.mapInfo[old[i]].addr : i \in I} = Known(m)
    BY <2>1, <2>2
  <2>4. Known(w) = Known(m)
    BY <1>7, <2>3 DEF Known
  <2>5. ASSUME NEW a \in Known(m)
        PROVE  w.mapAddr[a] = N[m.mapAddr[a]]
    <3>1. w.mapAddr[a] = CHOOSE i \in I : m.mapInfo[old[i]].addr = a
      BY <1>7, <2>3
    <3>2. \A i \in I : m.mapInfo[old[i]].addr = a => i = N[m.mapAddr[a]]
      BY <1>1, <1>11 DEF AddrInv
    <3> QED  BY <2>1, <3>1, <3>2
  <2> QED  BY <2>4, <2>5
<1>17. \A i \in I : In(i) = Cardinality(BucketsOf(m, old[i]))
  <2> TAKE i \in I
  <2>1. \A b \in NBucket : i \in w.vvNew[b] <=> old[i] \in m.vvNew[b]
    <3>1. \A b \in NBucket : m.vvNew[b] \subseteq Ids(m)
      BY <1>1 DEF NewInv
    <3> QED  BY <1>11, <1>14, <3>1
  <2>2. {b \in NBucket : i \in w.vvNew[b]} = BucketsOf(m, old[i])
    BY <2>1 DEF BucketsOf
  <2> QED  BY <2>2 DEF In
<1>18. Ids(w) = I
  BY <1>8 DEF Ids
<1>19. ASSUME NEW i \in I
       PROVE  /\ w.mapInfo[i] \in Info
              /\ w.mapInfo[i].addr = m.mapInfo[old[i]].addr
              /\ w.mapInfo[i].source = m.mapInfo[old[i]].source
              /\ w.mapInfo[i].fInTried <=> m.mapInfo[old[i]].fInTried
              /\ w.mapInfo[i].nRefCount = m.mapInfo[old[i]].nRefCount
              /\ w.mapInfo[i].nRandomPos = i + 1
  <2> DEFINE x == old[i]
  <2>1. x \in Ids(m) /\ m.mapInfo[x] \in Info
    BY <1>1, <1>11 DEF TypeOK
  <2>2. w.mapInfo[i] = [addr |-> m.mapInfo[x].addr, source |-> m.mapInfo[x].source,
                        nRefCount |-> In(i), fInTried |-> i >= n, nRandomPos |-> i + 1]
    BY <1>8
  <2>3. In(i) = m.mapInfo[x].nRefCount /\ In(i) \in Nat
    <3>1. Cardinality(BucketsOf(m, x)) \in Nat
      BY <1>1, FinitelyMany
    <3> QED  BY <1>1, <1>17, <2>1, <3>1 DEF NewInv
  <2>5. i >= n <=> m.mapInfo[x].fInTried
    BY <1>2, <1>13, <2>1 DEF Tried
  <2>6. i + 1 \in Int /\ (i >= n) \in BOOLEAN
    OBVIOUS
  <2> HIDE DEF x
  <2>8. w.mapInfo[i] = [addr |-> m.mapInfo[x].addr, source |-> m.mapInfo[x].source,
                        nRefCount |-> m.mapInfo[x].nRefCount,
                        fInTried |-> i >= n, nRandomPos |-> i + 1]
    BY <2>2, <2>3
  <2>9. w.mapInfo[i] \in Info
    BY <2>1, <2>6, <2>8 DEF Info
  <2> DEFINE t == i >= n
  <2>10. t <=> m.mapInfo[x].fInTried
    BY <2>5 DEF x
  <2>11. w.mapInfo[i] = [addr |-> m.mapInfo[x].addr, source |-> m.mapInfo[x].source,
                         nRefCount |-> m.mapInfo[x].nRefCount,
                         fInTried |-> t, nRandomPos |-> i + 1]
    BY <2>8
  <2> HIDE DEF t
  <2>12. /\ w.mapInfo[i].addr = m.mapInfo[x].addr
         /\ w.mapInfo[i].source = m.mapInfo[x].source
         /\ w.mapInfo[i].nRefCount = m.mapInfo[x].nRefCount
         /\ w.mapInfo[i].fInTried = t
         /\ w.mapInfo[i].nRandomPos = i + 1
    BY <2>11
  <2> QED  BY <2>9, <2>10, <2>12 DEF x
<1>20. TypeOK(w)
  <2>1. w.vRandom \in Seq(Nat) /\ w.nIdCount \in Nat /\ w.nNew \in Int /\ w.nTried \in Int
    <3>1. [p \in 1..all |-> p - 1] \in [1..all -> Nat]
      BY <1>11
    <3>2. [p \in 1..all |-> p - 1] \in Seq(Nat)
      BY <1>11, <3>1, ArrayIsSeq
    <3> QED  BY <1>1, <1>2, <1>4, <1>11, <3>2 DEF TypeOK
  <2>2. w.mapInfo \in [Ids(w) -> Info]
    <3>1. w.mapInfo = [i \in I |-> w.mapInfo[i]]
      BY <1>8
    <3> QED  BY <1>18, <1>19, <3>1
  <2>3. w.mapAddr \in [Known(w) -> Nat] /\ Known(w) \subseteq Addr
    <3>1. w.mapAddr = [a \in Known(w) |-> w.mapAddr[a]]
      BY <1>7 DEF Known
    <3>2. \A a \in Known(m) : N[m.mapAddr[a]] \in Nat
      BY <1>1, <1>11 DEF AddrInv
    <3>3. \A a \in Known(w) : w.mapAddr[a] \in Nat
      BY <1>16, <3>2
    <3>4. Known(w) \subseteq Addr
      BY <1>1, <1>16 DEF TypeOK
    <3> QED  BY <3>1, <3>3, <3>4
  <2>4. w.vvNew \in [NBucket -> SUBSET Nat]
    <3>1. \A b \in NBucket : \A id \in m.vvNew[b] : N[id] \in Nat
      BY <1>1, <1>11 DEF NewInv
    <3>2. \A b \in NBucket : w.vvNew[b] \in SUBSET Nat
      BY <1>14, <3>1
    <3>3. w.vvNew = [b \in NBucket |-> w.vvNew[b]]
      BY <1>5
    <3> QED  BY <3>2, <3>3
  <2>5. w.vvTried \in [KBucket -> SUBSET Nat]
    BY <1>6, <1>11
  <2>6. Ids(w) \subseteq Nat
    BY <1>18
  <2> QED  BY <1>9, <2>1, <2>2, <2>3, <2>4, <2>5, <2>6 DEF TypeOK
<1>21. Renamed(w, m, old, N)
  <2>1. w.nIdCount = w.nTried + w.nNew
    BY <1>4, <1>11, <1>2, <1>1 DEF all, n, TypeOK
  <2> QED  BY <1>2, <1>4, <1>11, <1>14, <1>15, <1>16, <1>18, <1>19, <2>1 DEF Renamed
<1> QED  BY <1>2, <1>20, <1>21 DEF w, old, N

\* The image of a bucket is no larger than the bucket.
LEMMA ImageNoLarger ==
    ASSUME NEW S, IsFiniteSet(S), NEW f
    PROVE  Cardinality({f[x] : x \in S}) <= Cardinality(S)
<1> DEFINE T == {f[x] : x \in S}
           g == [x \in S |-> f[x]]
<1>1. g \in Surjection(S, T)
  BY DEF Surjection
<1> HIDE DEF T, g
<1>2. Cardinality(T) <= Cardinality(S)
  BY <1>1, FS_Surjection
<1> QED  BY <1>2 DEF T

LEMMA RenamedKeeps ==
    ASSUME NEW m, TableInv(m, {}, {}), NEW w, TypeOK(w), NEW old, NEW N, Renamed(w, m, old, N)
    PROVE  TableInv(w, {}, {})
<1> DEFINE I == Ids(w)
<1>1. /\ TypeOK(m) /\ RandomInv(m) /\ AddrInv(m) /\ TriedInv(m) /\ CountInv(m)
      /\ NewInv(m, {}) /\ RangeInv(m, {}) /\ BoundInv(m)
  BY DEF TableInv
<1>2. /\ w.nIdCount \in Nat /\ I = 0..(w.nIdCount - 1) /\ Known(w) = Known(m)
      /\ w.nNew = m.nNew /\ w.nTried = m.nTried /\ w.nIdCount = w.nTried + w.nNew
      /\ w.vRandom = [p \in 1..w.nIdCount |-> p - 1]
  BY DEF Renamed
<1>3. /\ \A id \in Ids(m) : N[id] \in I /\ old[N[id]] = id
      /\ \A i \in I :
            /\ old[i] \in Ids(m) /\ N[old[i]] = i
            /\ w.mapInfo[i].addr = m.mapInfo[old[i]].addr
            /\ w.mapInfo[i].fInTried <=> m.mapInfo[old[i]].fInTried
            /\ w.mapInfo[i].nRefCount = m.mapInfo[old[i]].nRefCount
            /\ w.mapInfo[i].nRandomPos = i + 1
  BY DEF Renamed
<1>4. \A a \in Known(m) : w.mapAddr[a] = N[m.mapAddr[a]]
  BY DEF Renamed
<1>5. /\ \A b \in NBucket : w.vvNew[b] = {N[id] : id \in m.vvNew[b]}
      /\ \A k \in KBucket : w.vvTried[k] = {N[id] : id \in m.vvTried[k]}
  BY DEF Renamed
<1>6. /\ \A b \in NBucket : m.vvNew[b] \subseteq Ids(m)
      /\ \A k \in KBucket : m.vvTried[k] \subseteq Tried(m)
      /\ Tried(m) \subseteq Ids(m)
  BY <1>1 DEF NewInv, TriedInv, Tried
<1> HIDE DEF I
<1>7. Len(w.vRandom) = w.nIdCount
  BY <1>2
<1>8. RandomInv(w)
  <2>1. \A i \in I : i + 1 \in 1..w.nIdCount /\ w.vRandom[i + 1] = i
    BY <1>2
  <2>2. \A p \in 1..w.nIdCount : w.vRandom[p] \in I /\ w.vRandom[p] + 1 = p
    BY <1>2
  <2> QED  BY <1>3, <1>7, <2>1, <2>2 DEF RandomInv, I
<1>9. AddrInv(w)
  <2>1. /\ \A id \in Ids(m) :
              m.mapInfo[id].addr \in Known(m) /\ m.mapAddr[m.mapInfo[id].addr] = id
        /\ \A a \in Known(m) :
              m.mapAddr[a] \in Ids(m) /\ m.mapInfo[m.mapAddr[a]].addr = a
    BY <1>1 DEF AddrInv
  <2>2. ASSUME NEW i \in I
        PROVE  w.mapInfo[i].addr \in Known(w) /\ w.mapAddr[w.mapInfo[i].addr] = i
    <3> DEFINE a == m.mapInfo[old[i]].addr
    <3>1. old[i] \in Ids(m) /\ N[old[i]] = i /\ w.mapInfo[i].addr = a
      BY <1>3
    <3>2. a \in Known(m) /\ m.mapAddr[a] = old[i]
      BY <2>1, <3>1
    <3> HIDE DEF a
    <3>3. w.mapAddr[a] = i
      BY <1>4, <3>1, <3>2
    <3> QED  BY <1>2, <3>1, <3>2, <3>3
  <2>3. ASSUME NEW a \in Known(m)
        PROVE  w.mapAddr[a] \in I /\ w.mapInfo[w.mapAddr[a]].addr = a
    <3> DEFINE id == m.mapAddr[a]
    <3>1. id \in Ids(m) /\ m.mapInfo[id].addr = a /\ w.mapAddr[a] = N[id]
      BY <1>4, <2>1
    <3> HIDE DEF id
    <3>2. N[id] \in I /\ old[N[id]] = id
      BY <1>3, <3>1
    <3> QED  BY <1>3, <3>1, <3>2
  <2> QED  BY <1>2, <2>2, <2>3 DEF AddrInv, I
<1>10. \A i \in I : i \in Tried(w) <=> old[i] \in Tried(m)
  BY <1>3 DEF Tried, I
<1>11. TriedInv(w)
  <2>1. ASSUME NEW k \in KBucket, NEW i \in w.vvTried[k]
        PROVE  i \in Tried(w) /\ GetTriedBucket(w.mapInfo[i].addr) = k
    <3>1. PICK id \in m.vvTried[k] : i = N[id]
      BY <1>5
    <3>2. id \in Tried(m) /\ id \in Ids(m) /\ GetTriedBucket(m.mapInfo[id].addr) = k
      BY <1>1, <1>6 DEF TriedInv
    <3>3. i \in I /\ old[i] = id
      BY <1>3, <3>1, <3>2
    <3> QED  BY <1>3, <1>10, <3>2, <3>3
  <2>2. ASSUME NEW i \in Tried(w)
        PROVE  i \in w.vvTried[GetTriedBucket(w.mapInfo[i].addr)]
    <3> DEFINE id == old[i]
    <3>1. i \in I
      BY DEF Tried, I
    <3>2. id \in Tried(m) /\ N[id] = i /\ w.mapInfo[i].addr = m.mapInfo[id].addr
      BY <1>3, <1>10, <3>1
    <3> HIDE DEF id
    <3>3. id \in m.vvTried[GetTriedBucket(m.mapInfo[id].addr)]
      BY <1>1, <3>2 DEF TriedInv
    <3>4. GetTriedBucket(m.mapInfo[id].addr) \in KBucket
      <4>1. m.mapInfo[id].addr \in Addr
        BY <1>1, <1>6, <3>2 DEF TypeOK, Info
      <4> QED  BY <4>1, AddrManAssumption
    <3> QED  BY <1>5, <3>2, <3>3, <3>4
  <2> QED  BY <2>1, <2>2 DEF TriedInv
<1>12. \A i \in I : BucketsOf(w, i) = BucketsOf(m, old[i])
  <2>1. \A i \in I : \A b \in NBucket : i \in w.vvNew[b] <=> old[i] \in m.vvNew[b]
    BY <1>3, <1>5, <1>6
  <2> QED  BY <2>1 DEF BucketsOf
<1>13. NewInv(w, {})
  <2>1. \A b \in NBucket : w.vvNew[b] \subseteq I
    BY <1>3, <1>5, <1>6
  <2>2. ASSUME NEW i \in I
        PROVE  w.mapInfo[i].nRefCount = Cardinality(BucketsOf(w, i)) + 0
    <3>1. Cardinality(BucketsOf(m, old[i])) \in Nat
      BY <1>1, FinitelyMany
    <3>2. m.mapInfo[old[i]].nRefCount = Cardinality(BucketsOf(m, old[i]))
      BY <1>1, <1>3, <3>1 DEF NewInv
    <3> QED  BY <1>3, <1>12, <3>1, <3>2
  <2> QED  BY <2>1, <2>2 DEF NewInv, I
<1>14. RangeInv(w, {})
  BY <1>1, <1>3 DEF RangeInv, I
<1>15. CountInv(w)
  <2>1. m.nTried \in Int /\ m.nNew \in Int
    BY <1>1 DEF TypeOK
  <2>2. Cardinality(I) = w.nIdCount
    <3>1. 0 \in Int /\ w.nIdCount - 1 \in Int
      BY <1>2
    <3>2. Cardinality(0..(w.nIdCount - 1)) =
            IF 0 > w.nIdCount - 1 THEN 0 ELSE (w.nIdCount - 1) - 0 + 1
      BY <3>1, FS_Interval
    <3> QED  BY <1>2, <3>2
  <2>3. Cardinality(Tried(w)) = Cardinality(Tried(m))
    <3> DEFINE f == [id \in Tried(m) |-> N[id]]
    <3>1. IsFiniteSet(Tried(m))
      BY <1>1, FinitelyMany
    <3>2. \A id \in Tried(m) : N[id] \in Tried(w)
      BY <1>3, <1>6, <1>10
    <3>3. \A i \in Tried(w) : i \in I
      BY DEF Tried, I
    <3>4. \A i \in Tried(w) : old[i] \in Tried(m) /\ N[old[i]] = i
      BY <1>3, <1>10, <3>3
    <3>5. f \in [Tried(m) -> Tried(w)]
      BY <3>2
    <3>6. f \in Surjection(Tried(m), Tried(w))
      BY <3>4, <3>5 DEF Surjection
    <3>7. \A x, y \in Tried(m) : f[x] = f[y] => x = y
      BY <1>3, <1>6
    <3>8. f \in Injection(Tried(m), Tried(w))
      BY <3>5, <3>7 DEF Injection, IsInjective
    <3> HIDE DEF f
    <3> QED  BY <3>1, <3>6, <3>8, FS_Surjection
  <2>4. Cardinality(Tried(m)) = m.nTried
    BY <1>1 DEF CountInv
  <2> QED  BY <1>2, <1>7, <2>1, <2>2, <2>3, <2>4 DEF CountInv, I
<1>16. BoundInv(w)
  <2>1. IsFiniteSet(Ids(m))
    BY <1>1, FinitelyMany
  <2>2. NewSize \in Nat /\ TriedSize \in Nat
    BY AddrManAssumption
  <2>3. ASSUME NEW b \in NBucket
        PROVE  Cardinality(w.vvNew[b]) <= NewSize
    <3> DEFINE S == m.vvNew[b]
    <3>1. IsFiniteSet(S) /\ Cardinality(S) <= NewSize
      BY <1>1, <1>6, <2>1, FS_Subset DEF BoundInv
    <3> HIDE DEF S
    <3>2. Cardinality({N[x] : x \in S}) <= Cardinality(S)
      BY <3>1, ImageNoLarger
    <3>3. w.vvNew[b] = {N[x] : x \in S}
      BY <1>5 DEF S
    <3>4. IsFiniteSet(w.vvNew[b])
      <4>1. w.vvNew[b] \subseteq I
        BY <1>3, <1>5, <1>6
      <4>2. IsFiniteSet(I)
        BY <1>2, FS_Interval
      <4> QED  BY <4>1, <4>2, FS_Subset
    <3>5. Cardinality(S) \in Nat /\ Cardinality(w.vvNew[b]) \in Nat
      BY <3>1, <3>4, FS_CardinalityType
    <3>6. Cardinality(w.vvNew[b]) <= Cardinality(S)
      BY <3>2, <3>3
    <3> QED  BY <2>2, <3>1, <3>5, <3>6
  <2>4. ASSUME NEW k \in KBucket
        PROVE  Cardinality(w.vvTried[k]) <= TriedSize
    <3> DEFINE S == m.vvTried[k]
    <3>1. IsFiniteSet(S) /\ Cardinality(S) <= TriedSize
      <4>1. S \subseteq Ids(m)
        BY <1>6
      <4> QED  BY <1>1, <2>1, <4>1, FS_Subset DEF BoundInv
    <3> HIDE DEF S
    <3>2. Cardinality({N[x] : x \in S}) <= Cardinality(S)
      BY <3>1, ImageNoLarger
    <3>3. w.vvTried[k] = {N[x] : x \in S}
      BY <1>5 DEF S
    <3>4. IsFiniteSet(w.vvTried[k])
      <4>1. w.vvTried[k] \subseteq I
        BY <1>3, <1>5, <1>6
      <4>2. IsFiniteSet(I)
        BY <1>2, FS_Interval
      <4> QED  BY <4>1, <4>2, FS_Subset
    <3>5. Cardinality(S) \in Nat /\ Cardinality(w.vvTried[k]) \in Nat
      BY <3>1, <3>4, FS_CardinalityType
    <3>6. Cardinality(w.vvTried[k]) <= Cardinality(S)
      BY <3>2, <3>3
    <3> QED  BY <2>2, <3>1, <3>5, <3>6
  <2> QED  BY <2>3, <2>4 DEF BoundInv
<1> QED  BY <1>8, <1>9, <1>11, <1>13, <1>14, <1>15, <1>16 DEF TableInv

\* An entry keeps its source, its buckets and whether it was tried.
LEMMA RenamedStanding ==
    ASSUME NEW m, TableInv(m, {}, {}), NEW w, TypeOK(w), NEW old, NEW N,
           Renamed(w, m, old, N), NEW a \in Known(m)
    PROVE  Standing(w, a) = Standing(m, a)
<1> DEFINE id == m.mapAddr[a]
           i == w.mapAddr[a]
<1>1. TypeOK(m) /\ AddrInv(m) /\ TriedInv(m) /\ NewInv(m, {})
  BY DEF TableInv
<1>2. id \in Ids(m)
  BY <1>1 DEF AddrInv
<1>3. i = N[id] /\ i \in Ids(w) /\ old[i] = id
  BY <1>2 DEF Renamed
<1>4. /\ w.mapInfo[i].source = m.mapInfo[id].source
      /\ w.mapInfo[i].fInTried = m.mapInfo[id].fInTried
  <2>1. m.mapInfo[id].fInTried \in BOOLEAN /\ w.mapInfo[i].fInTried \in BOOLEAN
    BY <1>1, <1>2, <1>3 DEF TypeOK, Info
  <2> QED  BY <1>3, <2>1 DEF Renamed
<1> HIDE DEF id, i
<1>5. {b \in NBucket : i \in w.vvNew[b]} = {b \in NBucket : id \in m.vvNew[b]}
  <2>1. \A b \in NBucket : \A x \in m.vvNew[b] : N[x] = i => x = id
    BY <1>1, <1>3 DEF NewInv, Renamed
  <2>2. \A b \in NBucket : i \in w.vvNew[b] <=> id \in m.vvNew[b]
    BY <1>3, <2>1 DEF Renamed
  <2> QED  BY <2>2
<1>6. {k \in KBucket : i \in w.vvTried[k]} = {k \in KBucket : id \in m.vvTried[k]}
  <2>1. \A k \in KBucket : \A x \in m.vvTried[k] : N[x] = i => x = id
    BY <1>1, <1>3 DEF TriedInv, Tried, Renamed
  <2>2. \A k \in KBucket : i \in w.vvTried[k] <=> id \in m.vvTried[k]
    BY <1>3, <2>1 DEF Renamed
  <2> QED  BY <2>2
<1> QED  BY <1>4, <1>5, <1>6 DEF Standing, id, i

LEMMA RestartKeeps ==
    ASSUME TableInv(am, {}, {}), Restart
    PROVE  /\ TableInv(am', {}, {}) /\ Known(am') = Known(am)
           /\ \A a \in Known(am) : Standing(am', a) = Standing(am, a)
<1> DEFINE w == Loaded(am)
           old == Read(Referenced(am), Tried(am))
           N == [id \in Ids(am) |-> NewId(Referenced(am), Tried(am), id)]
<1>1. am' = w
  BY DEF Restart
<1>2. TypeOK(w) /\ Renamed(w, am, old, N)
  BY RestartRenames
<1> HIDE DEF w, old, N
<1>3. TableInv(w, {}, {})
  BY <1>2, RenamedKeeps
<1>4. \A a \in Known(am) : Standing(w, a) = Standing(am, a)
  BY <1>2, RenamedStanding
<1>5. Known(w) = Known(am)
  BY <1>2 DEF Renamed
<1> QED  BY <1>1, <1>3, <1>4, <1>5

-----------------------------------------------------------------------------
LEMMA InitTable == Init => TableInv(am, {}, {})
<1> SUFFICES ASSUME Init PROVE TableInv(am, {}, {})
  OBVIOUS
<1>1. /\ am.nIdCount = 0 /\ am.vRandom = << >> /\ am.nTried = 0 /\ am.nNew = 0
      /\ am.mapInfo = [id \in {} |-> id] /\ am.mapAddr = [a \in {} |-> a]
      /\ am.vvTried = [k \in KBucket |-> {}] /\ am.vvNew = [b \in NBucket |-> {}]
  BY DEF Init
<1>2. Ids(am) = {} /\ Known(am) = {} /\ Tried(am) = {}
  BY <1>1 DEF Ids, Known, Tried
<1>3. TypeOK(am)
  <2>1. am.mapInfo \in [Ids(am) -> Info] /\ am.mapAddr \in [Known(am) -> Nat]
    BY <1>1, <1>2
  <2>2. /\ am.vvTried \in [KBucket -> SUBSET Nat] /\ am.vvNew \in [NBucket -> SUBSET Nat]
        /\ am.vRandom \in Seq(Nat) /\ am.nIdCount \in Nat /\ am.nTried \in Int /\ am.nNew \in Int
    BY <1>1
  <2>3. am = [nIdCount |-> am.nIdCount, vRandom |-> am.vRandom, mapInfo |-> am.mapInfo,
              mapAddr |-> am.mapAddr, nTried |-> am.nTried, vvTried |-> am.vvTried,
              nNew |-> am.nNew, vvNew |-> am.vvNew]
    BY DEF Init
  <2> QED  BY <1>2, <2>1, <2>2, <2>3 DEF TypeOK
<1>4. Cardinality({}) = 0
  BY FS_EmptySet
<1>5. CountInv(am)
  BY <1>1, <1>2, <1>4 DEF CountInv
<1>6. BoundInv(am)
  BY <1>1, <1>4, AddrManAssumption DEF BoundInv
<1>7. RandomInv(am) /\ AddrInv(am) /\ TriedInv(am) /\ NewInv(am, {}) /\ RangeInv(am, {})
  BY <1>1, <1>2 DEF RandomInv, AddrInv, TriedInv, NewInv, RangeInv
<1> QED  BY <1>3, <1>5, <1>6, <1>7 DEF TableInv

LEMMA NextTable == TableInv(am, {}, {}) /\ [Next]_am => TableInv(am', {}, {})
<1> SUFFICES ASSUME TableInv(am, {}, {}), [Next]_am PROVE TableInv(am', {}, {})
  OBVIOUS
<1>1. ASSUME NEW a \in Addr, NEW s \in Source, Add(a, s) PROVE TableInv(am', {}, {})
  BY <1>1, AddKeeps
<1>2. ASSUME NEW a \in Addr, Good(a) PROVE TableInv(am', {}, {})
  BY <1>2, GoodKeeps
<1>3. CASE GetAddr
  BY <1>3, GetAddrKeeps
<1>4. CASE Restart
  BY <1>4, RestartKeeps
<1>5. CASE UNCHANGED am
  BY <1>5
<1> QED  BY <1>1, <1>2, <1>3, <1>4, <1>5 DEF Next

LEMMA TableHolds == Spec => [](TableInv(am, {}, {}))
<1> DEFINE Inv == TableInv(am, {}, {})
<1>1. Init => Inv
  BY InitTable
<1>2. Inv /\ [Next]_am => Inv'
  BY NextTable
<1> HIDE DEF Inv
<1>3. Spec => []Inv
  BY <1>1, <1>2, PTL DEF Spec
<1> QED  BY <1>3 DEF Inv

\* CAddrMan::Check_ finds nothing wrong, whatever was added, tried, evicted,
\* deleted, shuffled or read back: the counters, the buckets, the references,
\* the index by address and the positions in vRandom agree.
THEOREM AddressTableChecks == Spec => []CheckPasses
<1> DEFINE Inv == TableInv(am, {}, {})
<1>1. Inv => CheckPasses
  <2> SUFFICES ASSUME Inv PROVE CheckPasses
    OBVIOUS
  <2>1. /\ TypeOK(am) /\ RandomInv(am) /\ AddrInv(am) /\ TriedInv(am)
        /\ NewInv(am, {}) /\ RangeInv(am, {}) /\ CountInv(am)
    BY DEF TableInv
  <2>2. /\ Len(am.vRandom) = am.nTried + am.nNew /\ Cardinality(Tried(am)) = am.nTried
        /\ Cardinality(Ids(am)) = am.nTried + am.nNew
    BY <2>1 DEF CountInv
  <2>3. DOMAIN am.vRandom = 1..Len(am.vRandom)
    BY <2>1 DEF TypeOK
  <2>4. ASSUME NEW id \in Ids(am)
        PROVE  am.mapInfo[id].nRefCount = Cardinality({b \in NBucket : id \in am.vvNew[b]})
    <3>1. Cardinality(BucketsOf(am, id)) \in Nat
      BY <2>1, FinitelyMany
    <3>2. am.mapInfo[id].nRefCount = Cardinality(BucketsOf(am, id))
      BY <2>1, <3>1 DEF NewInv
    <3> QED  BY <3>2 DEF BucketsOf
  <2>5. \A id \in Ids(am) :
           /\ am.mapInfo[id].addr \in Known(am) /\ am.mapAddr[am.mapInfo[id].addr] = id
           /\ am.mapInfo[id].nRandomPos \in DOMAIN am.vRandom
           /\ am.vRandom[am.mapInfo[id].nRandomPos] = id
           /\ IF am.mapInfo[id].fInTried THEN am.mapInfo[id].nRefCount = 0
              ELSE am.mapInfo[id].nRefCount \in 1..PerAddress
    BY <2>1, <2>3 DEF RandomInv, AddrInv, RangeInv
  <2>6. UNION {am.vvTried[k] : k \in KBucket} = Tried(am)
    <3>1. \A id \in Tried(am) : GetTriedBucket(am.mapInfo[id].addr) \in KBucket
      <4>1. \A id \in Tried(am) : am.mapInfo[id].addr \in Addr
        BY <2>1 DEF TypeOK, Info, Tried
      <4> QED  BY <4>1, AddrManAssumption
    <3>2. \A id \in Tried(am) : id \in am.vvTried[GetTriedBucket(am.mapInfo[id].addr)]
      BY <2>1 DEF TriedInv
    <3>3. \A k \in KBucket : am.vvTried[k] \subseteq Tried(am)
      BY <2>1 DEF TriedInv
    <3> QED  BY <3>1, <3>2, <3>3
  <2>7. UNION {am.vvNew[b] : b \in NBucket} = Ids(am) \ Tried(am)
    <3>1. \A b \in NBucket : am.vvNew[b] \subseteq Ids(am)
      BY <2>1 DEF NewInv
    <3>2. ASSUME NEW id \in Ids(am)
          PROVE  id \in Tried(am) <=> \A b \in NBucket : id \notin am.vvNew[b]
      <4>1. IsFiniteSet(BucketsOf(am, id))
        BY <2>1, FinitelyMany
      <4>2. am.mapInfo[id].nRefCount = 0 <=> BucketsOf(am, id) = {}
        BY <2>4, <4>1, FS_EmptySet DEF BucketsOf
      <4>3. am.mapInfo[id].fInTried <=> am.mapInfo[id].nRefCount = 0
        BY <2>5, AddrManAssumption
      <4> QED  BY <4>2, <4>3 DEF BucketsOf, Tried
    <3> QED  BY <3>1, <3>2 DEF Tried
  <2> QED  BY <2>2, <2>4, <2>5, <2>6, <2>7 DEF CheckPasses
<1>2. Spec => []Inv
  BY TableHolds
<1> HIDE DEF Inv
<1> QED  BY <1>1, <1>2, PTL

\* No bucket outgrows its size: an evicted entry finds the place that the one
\* tried has left, and a "new" bucket is made room in before it is added to.
THEOREM AddressBucketsBounded == Spec => []BucketsBounded
<1> DEFINE Inv == TableInv(am, {}, {})
<1>1. Inv => BucketsBounded
  BY DEF TableInv, BoundInv, BucketsBounded
<1>2. Spec => []Inv
  BY TableHolds
<1> HIDE DEF Inv
<1> QED  BY <1>1, <1>2, PTL

\* No step forgets an address that is in the tried table; an eviction takes it
\* back to a "new" bucket.
THEOREM TriedAddressesStay == Spec => TriedStayKnown
<1> DEFINE Inv == TableInv(am, {}, {})
           Stay == \A id \in Ids(am) : am.mapInfo[id].fInTried => am.mapInfo[id].addr \in Known(am')
<1>1. Inv /\ [Next]_am => [Stay]_am
  <2> SUFFICES ASSUME Inv, Next PROVE Stay
    OBVIOUS
  <2>1. /\ \A id \in Ids(am) : am.mapInfo[id].addr \in Known(am)
        /\ Tried(am) = {id \in Ids(am) : am.mapInfo[id].fInTried}
    BY DEF TableInv, AddrInv, Tried
  <2>2. ASSUME NEW a \in Addr, NEW s \in Source, Add(a, s) PROVE Stay
    <3>1. /\ TableInv(am', {}, {}) /\ Tried(am) \subseteq Ids(am')
          /\ \A i \in Tried(am) : am'.mapInfo[i].addr = am.mapInfo[i].addr
      BY <2>2, AddKeeps
    <3>2. \A id \in Ids(am') : am'.mapInfo[id].addr \in Known(am')
      BY <3>1 DEF TableInv, AddrInv
    <3> QED  BY <2>1, <3>1, <3>2
  <2>3. ASSUME NEW a \in Addr, Good(a) PROVE Stay
    BY <2>1, <2>3, GoodKeeps
  <2>4. CASE GetAddr
    <3>1. Known(am') = Known(am)
      BY <2>4, GetAddrKeeps DEF SameBut, Known
    <3> QED  BY <2>1, <3>1
  <2>5. CASE Restart
    BY <2>1, <2>5, RestartKeeps
  <2> QED  BY <2>2, <2>3, <2>4, <2>5 DEF Next
<1>2. Spec => []Inv
  BY TableHolds
<1>3. TriedStayKnown <=> [][Stay]_am
  BY DEF TriedStayKnown
<1>4. Spec => [][Next]_am
  BY DEF Spec
<1> HIDE DEF Inv, Stay
<1> QED  BY <1>1, <1>2, <1>3, <1>4, PTL

\* Writing the table and reading it back loses no address and moves none to
\* another bucket, though ids, references and positions are rebuilt.
THEOREM RestartRebuildsTable == Spec => RestartKeepsTable
<1> DEFINE Inv == TableInv(am, {}, {})
           Keeps == Restart => /\ Known(am') = Known(am)
                               /\ \A a \in Known(am) : Standing(am', a) = Standing(am, a)
<1>1. Inv /\ [Next]_am => [Keeps]_am
  BY RestartKeeps
<1>2. Spec => []Inv
  BY TableHolds
<1>3. RestartKeepsTable <=> [][Keeps]_am
  BY DEF RestartKeepsTable
<1>4. Spec => [][Next]_am
  BY DEF Spec
<1> HIDE DEF Inv, Keeps
<1> QED  BY <1>1, <1>2, <1>3, <1>4, PTL
=============================================================================
