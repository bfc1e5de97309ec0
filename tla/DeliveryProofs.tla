--------------------------- MODULE DeliveryProofs ---------------------------
(***************************************************************************)
(* Proofs about Delivery, for any number of envelopes, any page size, any  *)
(* disappearing envelopes and any number of lost sockets: types, that the  *)
(* dedup keys follow the messages, and that a pull leaves no gap.  The     *)
(* last rests on two facts about ORDER BY id LIMIT k: a page holds         *)
(* everything up to its greatest id, and a short page holds everything.    *)
(***************************************************************************)
EXTENDS Delivery, FiniteSetTheorems, WellFoundedInduction, TLAPS

-----------------------------------------------------------------------------
(* Pages.                                                                  *)

LEMMA SomeIdsAreFinite ==
    ASSUME NEW n \in Nat, NEW S \in SUBSET (1..n)
    PROVE  IsFiniteSet(S) /\ Cardinality(S) \in Nat /\ S \subseteq Nat
  <1>1. IsFiniteSet(1..n)
    BY FS_Interval
  <1>2. IsFiniteSet(S)
    BY <1>1, FS_Subset
  <1>3. S \subseteq Nat
    OBVIOUS
  <1> QED
    BY <1>2, <1>3, FS_CardinalityType

LEMMA HasGreatest ==
    ASSUME NEW n \in Nat, NEW S \in SUBSET (1..n), S # {}
    PROVE  \E g \in S : \A i \in S : g >= i
  <1> DEFINE Above(i) == {j \in S : j > i}
             U == {Above(i) : i \in S}
             R == StrictSubsetOrdering(S)
  <1>1. IsFiniteSet(S) /\ S \subseteq Nat
    BY SomeIdsAreFinite
  <1>2. U \subseteq FiniteSubsetsOf(S) /\ U # {}
    <2>1. \A i \in S : Above(i) \in SUBSET S /\ IsFiniteSet(Above(i))
      BY <1>1, FS_Subset
    <2> QED
      BY <2>1 DEF FiniteSubsetsOf
  <1>3. PICK X \in U : \A Y \in U : ~(<<Y, X>> \in R)
    <2>1. IsWellFoundedOn(R, FiniteSubsetsOf(S))
      BY FS_StrictSubsetOrderingWellFounded
    <2> HIDE DEF U, R
    <2> QED
      BY <1>2, <2>1, WFMin
  <1>4. PICK g \in S : X = Above(g)
    OBVIOUS
  <1>5. ASSUME NEW i \in S, ~(g >= i) PROVE FALSE
    <2>1. i \in Nat /\ g \in Nat /\ i > g
      BY <1>1, <1>5
    <2>2. \A j \in S : j > i => j > g
      BY <1>1, <2>1
    <2>3. Above(i) \subseteq Above(g)
      BY <2>2
    <2>4. i \in Above(g) /\ i \notin Above(i)
      BY <2>1
    <2>5. <<Above(i), X>> \in R
      BY <1>4, <2>3, <2>4 DEF StrictSubsetOrdering
    <2> QED
      BY <1>3, <2>5
  <1> QED
    BY <1>5

LEMMA HasLeast ==
    ASSUME NEW n \in Nat, NEW S \in SUBSET (1..n), S # {}
    PROVE  \E l \in S : \A i \in S : l <= i
  <1> DEFINE T == {n + 1 - i : i \in S}
  <1>1. T \in SUBSET (1..n) /\ T # {}
    <2>1. \A i \in S : n + 1 - i \in 1..n
      BY SomeIdsAreFinite
    <2>2. T \subseteq 1..n
      BY <2>1
    <2>3. T # {}
      OBVIOUS
    <2> QED
      BY <2>2, <2>3
  <1> HIDE DEF T
  <1>2. PICK g \in T : \A t \in T : g >= t
    BY <1>1, HasGreatest
  <1>3. PICK l \in S : g = n + 1 - l
    BY DEF T
  <1>4. \A i \in S : g >= n + 1 - i
    BY <1>2 DEF T
  <1>5. \A i \in S : l <= i
    BY <1>3, <1>4
  <1> QED
    BY <1>5

\* Greatest is what it says.
LEMMA GreatestIsIn ==
    ASSUME NEW n \in Nat, NEW S \in SUBSET (1..n), S # {}
    PROVE  Greatest(S) \in S /\ \A i \in S : Greatest(S) >= i
  <1>1. \E g \in S : \A i \in S : g >= i
    BY HasGreatest
  <1> QED
    BY <1>1 DEF Greatest

\* What is before a member of the first k is among them.
LEMMA FirstOfClosed ==
    ASSUME NEW n \in Nat, NEW k \in Nat, NEW S \in SUBSET (1..n),
           NEW i \in FirstOf(S, k), NEW j \in S, j <= i
    PROVE  j \in FirstOf(S, k)
  <1> DEFINE Upto(m) == {x \in S : x <= m}
  <1>1. IsFiniteSet(S) /\ S \subseteq Nat
    BY SomeIdsAreFinite
  <1>2. i \in S /\ Cardinality(Upto(i)) <= k
    BY DEF FirstOf
  <1>3. IsFiniteSet(Upto(i)) /\ Upto(j) \in SUBSET Upto(i)
    <2>1. \A x \in S : x <= j => x <= i
      BY <1>1, <1>2
    <2>2. Upto(j) \subseteq Upto(i)
      BY <2>1
    <2>3. Upto(i) \in SUBSET S
      OBVIOUS
    <2> QED
      BY <1>1, <2>2, <2>3, FS_Subset
  <1>4. /\ Cardinality(Upto(j)) \in Nat /\ Cardinality(Upto(i)) \in Nat
        /\ Cardinality(Upto(j)) <= Cardinality(Upto(i))
    BY <1>3, FS_Subset, FS_CardinalityType
  <1>5. Cardinality(Upto(j)) <= k
    BY <1>2, <1>4
  <1> QED
    BY <1>5 DEF FirstOf

\* If there are not k of them, they are all.
LEMMA FirstOfShort ==
    ASSUME NEW n \in Nat, NEW k \in Nat, NEW S \in SUBSET (1..n),
           Cardinality(FirstOf(S, k)) # k
    PROVE  FirstOf(S, k) = S
  <1> DEFINE F == FirstOf(S, k)
             Upto(m) == {x \in S : x <= m}
  <1>1. IsFiniteSet(S) /\ S \subseteq Nat /\ F \subseteq S /\ IsFiniteSet(F) /\ Cardinality(F) \in Nat
    <2>1. F \subseteq S
      BY DEF FirstOf
    <2> QED
      BY <2>1, SomeIdsAreFinite
  <1>2. ASSUME S \ F # {} PROVE FALSE
    <2>1. PICK i \in S \ F : \A j \in S \ F : i <= j
      <3>1. S \ F \in SUBSET (1..n)
        OBVIOUS
      <3> QED
        BY <1>2, <3>1, HasLeast
    <2>2. F = Upto(i) \ {i}
      <3>1. ASSUME NEW x \in F PROVE x <= i /\ x # i
        <4>1. ~(i <= x)
          BY <2>1, FirstOfClosed
        <4>2. x \in Nat /\ i \in Nat
          BY <1>1
        <4> QED
          BY <4>1, <4>2
      <3>2. \A x \in S : x <= i /\ x # i => x \in F
        BY <2>1
      <3> QED
        BY <1>1, <3>1, <3>2
    <2>3. IsFiniteSet(Upto(i)) /\ i \in Upto(i) /\ Cardinality(Upto(i)) \in Nat
      BY <1>1, FS_Subset, FS_CardinalityType
    <2>4. Cardinality(F) = Cardinality(Upto(i)) - 1
      BY <2>2, <2>3, FS_RemoveElement
    <2>5. Cardinality(Upto(i)) > k
      BY <2>1, <2>3 DEF FirstOf
    <2>6. Cardinality(F) > k
      BY <1>1, <2>3, <2>4, <2>5
    <2>7. F # {}
      BY <2>6, FS_EmptySet
    <2>8. PICK g \in F : \A x \in F : g >= x
      BY <1>1, <2>7, HasGreatest
    <2>9. Cardinality(Upto(g)) <= k /\ F \in SUBSET Upto(g) /\ IsFiniteSet(Upto(g))
      BY <1>1, <2>8, FS_Subset DEF FirstOf
    <2>10. Cardinality(F) <= Cardinality(Upto(g)) /\ Cardinality(Upto(g)) \in Nat
      BY <2>9, FS_Subset, FS_CardinalityType
    <2> QED
      BY <1>1, <2>6, <2>9, <2>10
  <1> QED
    BY <1>1, <1>2

\* What a page holds: nothing that is not asked for; everything asked for up to
\* its greatest id; everything, if it is short.
LEMMA PageHolds ==
    ASSUME TypeOK, NEW since \in 0..last
    PROVE  LET page == PageAfter(since) IN
           /\ page \in SUBSET {i \in 1..last : i > since}
           /\ page # {} => Greatest(page) \in page
           /\ page # {} => \A i \in 1..last :
                 i > since /\ i <= Greatest(page) /\ i \notin expired => i \in page
           /\ Cardinality(page) # PageSize => \A i \in 1..last :
                 i > since /\ i \notin expired => i \in page
           /\ Cardinality(page) = PageSize => page # {}
  <1> DEFINE S == {i \in 1..last : i > since /\ i \notin expired}
             page == PageAfter(since)
  <1>1. last \in Nat /\ PageSize \in Nat /\ PageSize # 0
    BY DeliveryAssumption DEF TypeOK
  <1>2. page = FirstOf(S, PageSize) /\ page \subseteq S /\ S \in SUBSET (1..last)
    BY DEF PageAfter, FirstOf
  <1>3. page # {} => Greatest(page) \in page
    BY <1>1, <1>2, GreatestIsIn
  <1>4. ASSUME page # {}, NEW i \in S, i <= Greatest(page) PROVE i \in page
    BY <1>1, <1>2, <1>3, <1>4, FirstOfClosed
  <1>5. ASSUME Cardinality(page) # PageSize PROVE page = S
    <2> HIDE DEF S, page
    <2> QED
      BY <1>1, <1>2, <1>5, FirstOfShort
  <1>6. Cardinality(page) = PageSize => page # {}
    BY <1>1, FS_EmptySet
  <1> HIDE DEF page
  <1>7. page \in SUBSET {i \in 1..last : i > since}
    BY <1>2
  <1> QED
    BY <1>3, <1>4, <1>5, <1>6, <1>7 DEF page

-----------------------------------------------------------------------------
(* The invariant.                                                          *)

\* Envelopes that no pull has to bring any more.
Dealt == seen \cup expired \cup failed

\* Dedup keys follow the messages; what was set aside is not shown.
KeysFollow == SeenWhenShown /\ \A i \in hidden : copies[i] = 0

\* Where a pull is: it has pages only while it is at them, and no cursor beyond
\* what is stored.
PullsWell ==
    \A p \in Pullers :
        /\ pull[p].st # "page" => pull[p].page = {} /\ pull[p].cur = 0
        /\ pull[p].since <= last /\ pull[p].head <= last
        /\ pull[p].page \subseteq 1..last /\ pull[p].cur \in 0..last

\* How far a pull p has come: to its cursor, or with a short page to whatever
\* was stored when the page was read.
Bound(p) == IF pull[p].st = "page" /\ ~pull[p].full THEN pull[p].head ELSE pull[p].since

Covered ==
    \A p \in Pullers : pull[p].st \in {"fetch", "page"} =>
        \A i \in 1..last : pull[p].from < i /\ i <= Bound(p) =>
            i \in Dealt \cup pull[p].page \cup {pull[p].cur}

IndInv == TypeOK /\ KeysFollow /\ PullsWell /\ Covered

LEMMA InitInd == Init => IndInv
  <1> SUFFICES ASSUME Init PROVE IndInv
    OBVIOUS
  <1>1. last \in Nat /\ MaxId \in Nat /\ MaxDrops \in Nat
    BY DeliveryAssumption DEF Init
  <1>2. NoPull \in Pulls /\ [NoPull EXCEPT !.st = "me"] \in Pulls
    <2>1. NoPull \in Pulls
      BY <1>1 DEF NoPull, Pulls
    <2> QED
      BY <2>1 DEF Pulls
  <1>3. \A p \in Pullers : /\ pull[p].st \in {"idle", "me"} /\ pull[p].page = {} /\ pull[p].cur = 0
                           /\ pull[p].since = 0 /\ pull[p].head = 0
    BY DEF Init, NoPull
  <1>4. TypeOK
    <2>1. pull \in [Pullers -> Pulls]
      BY <1>2 DEF Init
    <2>2. last \in 0..MaxId /\ mine \subseteq 1..last
      BY DEF Init
    <2>3. copies \in [Ids -> Nat] /\ maxId \in 0..last /\ drops \in 0..MaxDrops
      BY <1>1 DEF Init
    <2> QED
      BY <2>1, <2>2, <2>3 DEF Init, TypeOK
  <1>5. KeysFollow
    BY DEF Init, KeysFollow, SeenWhenShown
  <1>6. PullsWell
    BY <1>1, <1>3 DEF PullsWell
  <1>7. Covered
    BY <1>3 DEF Covered
  <1> QED
    BY <1>4, <1>5, <1>6, <1>7 DEF IndInv

-----------------------------------------------------------------------------
(* Steps that leave the pulls alone.                                       *)

LEMMA PullsKept ==
    ASSUME TypeOK, PullsWell, Covered, UNCHANGED pull, last' \in Nat, last <= last', Dealt \subseteq Dealt'
    PROVE  PullsWell' /\ Covered'
  <1>1. last \in Nat
    BY DeliveryAssumption DEF TypeOK
  <1>2. \A p \in Pullers : pull[p] \in Pulls
    BY DEF TypeOK
  <1>3. PullsWell'
    <2> SUFFICES ASSUME NEW p \in Pullers
                 PROVE  /\ pull[p].st # "page" => pull[p].page = {} /\ pull[p].cur = 0
                        /\ pull[p].since <= last' /\ pull[p].head <= last'
                        /\ pull[p].page \subseteq 1..last' /\ pull[p].cur \in 0..last'
      BY DEF PullsWell
    <2>1. pull[p].since \in Nat /\ pull[p].head \in Nat
      BY <1>2, DeliveryAssumption DEF Pulls
    <2>2. \A i \in 1..last : i \in 1..last'
      BY <1>1
    <2>3. pull[p].cur \in 0..last'
      BY <1>1 DEF PullsWell
    <2>4. pull[p].since <= last' /\ pull[p].head <= last'
      BY <1>1, <2>1 DEF PullsWell
    <2> QED
      BY <2>2, <2>3, <2>4 DEF PullsWell
  <1>4. Covered'
    <2> SUFFICES ASSUME NEW p \in Pullers, pull[p].st \in {"fetch", "page"},
                        NEW i \in 1..last', pull[p].from < i, i <= Bound(p)
                 PROVE  i \in Dealt' \cup pull[p].page \cup {pull[p].cur}
      BY DEF Covered, Bound
    <2>1. Bound(p) \in Nat /\ Bound(p) <= last
      BY <1>2, DeliveryAssumption DEF PullsWell, Bound, Pulls
    <2>2. i \in 1..last
      BY <1>1, <2>1
    <2> QED
      BY <2>2 DEF Covered
  <1> QED
    BY <1>3, <1>4

\* ... and the tab's messages too.
LEMMA QuietStep ==
    ASSUME IndInv, UNCHANGED <<pull, seen, copies, hidden, failed>>, last' \in Nat, last <= last',
           expired \subseteq expired'
    PROVE  KeysFollow' /\ PullsWell' /\ Covered'
  <1>1. Dealt \subseteq Dealt'
    BY DEF Dealt
  <1>2. KeysFollow'
    BY DEF IndInv, KeysFollow, SeenWhenShown
  <1> QED
    BY <1>1, <1>2, PullsKept DEF IndInv

LEMMA LastIsNat == TypeOK => last \in Nat /\ last <= last
  BY DeliveryAssumption DEF TypeOK

LEMMA StoreInd == ASSUME IndInv, NEW origin, Store(origin) PROVE IndInv'
  <1>1. /\ last' = last + 1 /\ last' \in 0..MaxId /\ last \in Nat
    BY DeliveryAssumption DEF Store, IndInv, TypeOK
  <1>2. \A S : S \subseteq 1..last => S \subseteq 1..last' /\ S \cup {last + 1} \subseteq 1..last'
    BY <1>1
  <1>3. mine' \subseteq 1..last' /\ mine \subseteq mine' /\ outbox' \subseteq 1..last'
    BY <1>1, <1>2 DEF Store, IndInv, TypeOK
  <1>4. failed' \subseteq (1..last') \ mine'
    <2>1. mine' \subseteq mine \cup {last + 1}
      BY DEF Store
    <2>2. last + 1 \notin 1..last
      BY <1>1
    <2> QED
      BY <1>2, <2>1, <2>2 DEF Store, IndInv, TypeOK
  <1>5. reply' \subseteq mine' /\ own' \subseteq mine'
    BY <1>3 DEF Store, IndInv, TypeOK
  <1>6. TypeOK'
    BY <1>1, <1>2, <1>3, <1>4, <1>5 DEF Store, IndInv, TypeOK, convoVars
  <1>7. UNCHANGED <<pull, seen, copies, hidden, failed, expired>> /\ last <= last' /\ last' \in Nat
    BY <1>1 DEF Store, convoVars
  <1> QED
    BY <1>6, <1>7, QuietStep DEF IndInv

LEMMA DeliverInd == ASSUME IndInv, NEW i \in Ids, Deliver(i) PROVE IndInv'
  <1>1. UNCHANGED <<pull, seen, copies, hidden, failed, expired, last>>
    BY DEF Deliver, convoVars, relayVars
  <1>2. TypeOK'
    BY DEF Deliver, convoVars, relayVars, ingestVars, IndInv, TypeOK
  <1> QED
    BY <1>1, <1>2, QuietStep, LastIsNat DEF IndInv

LEMMA ExpireInd == ASSUME IndInv, NEW i \in Ids, Expire(i) PROVE IndInv'
  <1>1. UNCHANGED <<pull, seen, copies, hidden, failed, last>> /\ expired \subseteq expired'
    BY DEF Expire, convoVars
  <1>2. TypeOK'
    BY DEF Expire, convoVars, socketVars, ingestVars, IndInv, TypeOK
  <1> QED
    BY <1>1, <1>2, QuietStep, LastIsNat DEF IndInv

LEMMA LinkInd == ASSUME IndInv, Connect \/ Drop \/ ToggleBlock PROVE IndInv'
  <1>1. UNCHANGED <<pull, seen, copies, hidden, failed, expired, last>>
    BY DEF Connect, Drop, ToggleBlock, convoVars, relayVars
  <1>2. TypeOK'
    <2>1. CASE Connect
      BY <2>1 DEF Connect, convoVars, relayVars, ingestVars, IndInv, TypeOK
    <2>2. CASE Drop
      BY <2>2, DeliveryAssumption DEF Drop, convoVars, relayVars, ingestVars, IndInv, TypeOK
    <2>3. CASE ToggleBlock
      BY <2>3 DEF ToggleBlock, convoVars, relayVars, socketVars, ingestVars, IndInv, TypeOK
    <2> QED
      BY <2>1, <2>2, <2>3
  <1> QED
    BY <1>1, <1>2, QuietStep, LastIsNat DEF IndInv

LEMMA AnswerLostInd == ASSUME IndInv, NEW i \in Ids, AnswerLost(i) PROVE IndInv'
  <1>1. UNCHANGED <<pull, seen, copies, hidden, failed, expired, last>>
    BY DEF AnswerLost, convoVars, relayVars
  <1>2. TypeOK'
    BY DEF AnswerLost, convoVars, relayVars, socketVars, IndInv, TypeOK
  <1> QED
    BY <1>1, <1>2, QuietStep, LastIsNat DEF IndInv

-----------------------------------------------------------------------------
(* Ingestion.                                                              *)

LEMMA StoredIds == TypeOK => 1..last \subseteq Ids /\ last \in Nat /\ MaxId \in Nat
  BY DeliveryAssumption DEF TypeOK, Ids

\* Its beginning.
LEMMA DedupSets ==
    ASSUME IndInv, NEW i \in 1..last, NEW begun, Dedup(i, begun), UNCHANGED <<expired, failed>>
    PROVE  /\ KeysFollow' /\ Dealt \subseteq Dealt' /\ (~begun => i \in Dealt') /\ begun \in BOOLEAN
           /\ seen' \subseteq 1..last /\ hidden' \subseteq 1..last /\ UNCHANGED <<maxId, copies, opens>>
  <1>1. /\ begun = (i \notin seen /\ ~blocked)
        /\ seen' = IF blocked THEN seen \cup {i} ELSE seen
        /\ hidden' = IF blocked /\ i \notin seen THEN hidden \cup {i} ELSE hidden
        /\ UNCHANGED <<maxId, copies, opens>>
    BY DEF Dedup
  <1>2. /\ seen \subseteq 1..last /\ hidden \subseteq 1..last /\ copies \in [Ids -> Nat]
        /\ seen = {j \in Ids : copies[j] > 0} \cup hidden /\ i \in Ids
        /\ \A j \in hidden : copies[j] = 0
    BY DeliveryAssumption DEF IndInv, TypeOK, KeysFollow, SeenWhenShown, Ids
  <1>3. i \notin seen => copies[i] = 0
    <2>1. copies[i] \in Nat
      BY <1>2
    <2> QED
      BY <1>2, <2>1
  <1>4. seen' = {j \in Ids : copies[j] > 0} \cup hidden'
    BY <1>1, <1>2
  <1>5. \A j \in hidden' : copies[j] = 0
    BY <1>1, <1>2, <1>3
  <1>6. KeysFollow'
    BY <1>1, <1>4, <1>5 DEF KeysFollow, SeenWhenShown
  <1>7. Dealt \subseteq Dealt' /\ (~begun => i \in Dealt')
    BY <1>1 DEF Dealt
  <1> QED
    BY <1>1, <1>2, <1>6, <1>7

\* Its end.
LEMMA ShowsSets ==
    ASSUME IndInv, NEW i \in 1..last, Shows(i) \/ KeysFail(i), UNCHANGED <<expired, blocked, mine>>
    PROVE  /\ KeysFollow' /\ Dealt \subseteq Dealt' /\ i \in Dealt'
           /\ seen' \subseteq 1..last /\ hidden' \subseteq 1..last /\ maxId' \in 0..last
           /\ copies' \in [Ids -> Nat] /\ failed' \subseteq (1..last) \ mine
           /\ keys' \in BOOLEAN /\ UNCHANGED opens
  <1>1. /\ seen \subseteq 1..last /\ hidden \subseteq 1..last /\ copies \in [Ids -> Nat]
        /\ seen = {j \in Ids : copies[j] > 0} \cup hidden /\ i \in Ids
        /\ \A j \in hidden : copies[j] = 0
        /\ maxId \in 0..last /\ failed \subseteq (1..last) \ mine /\ keys \in BOOLEAN
        /\ hidden \subseteq Ids
    BY StoredIds DEF IndInv, TypeOK, KeysFollow, SeenWhenShown, Ids
  <1>2. CASE KeysFail(i)
    <2>1. UNCHANGED <<seen, maxId, copies, hidden, opens, keys>> /\ failed' = failed \cup {i} /\ i \notin mine
      BY <1>2 DEF KeysFail, convoVars
    <2> QED
      BY <1>1, <2>1 DEF KeysFollow, SeenWhenShown, Dealt
  <1>3. CASE Shows(i)
    <2> DEFINE c == [copies EXCEPT ![i] = @ + 1]
               s == seen \cup {i}
    <2>1. /\ maxId' = Larger(maxId, i) /\ hidden' = hidden \ {i}
          /\ copies' = IF i \in expired THEN SweptCopies(c) ELSE c
          /\ seen' = IF i \in expired THEN SweptSeen(s, c) ELSE s
          /\ UNCHANGED <<failed, opens>> /\ keys' \in BOOLEAN
      BY <1>1, <1>3 DEF Shows, PushMessage
    <2>2. c \in [Ids -> Nat] /\ c[i] > 0 /\ \A j \in Ids \ {i} : c[j] = copies[j]
      <3>1. copies[i] \in Nat
        BY <1>1
      <3>2. c \in [Ids -> Nat] /\ c[i] = copies[i] + 1
        BY <1>1, <3>1
      <3> QED
        BY <1>1, <3>1, <3>2
    <2> HIDE DEF c
    <2>3. s = {j \in Ids : c[j] > 0} \cup (hidden \ {i}) /\ s \subseteq 1..last
      BY <1>1, <2>2
    <2>4. \A j \in hidden \ {i} : c[j] = 0
      BY <1>1, <2>2
    <2> HIDE DEF s
    <2>5. maxId' \in 0..last
      BY <1>1, <2>1 DEF Larger
    <2>6. CASE i \notin expired
      <3>1. seen' = s /\ copies' = c
        BY <2>1, <2>6
      <3>2. i \in s
        BY DEF s
      <3>3. KeysFollow'
        BY <2>1, <2>3, <2>4, <3>1 DEF KeysFollow, SeenWhenShown
      <3>4. Dealt \subseteq Dealt' /\ i \in Dealt'
        BY <2>1, <3>1, <3>2 DEF Dealt, s
      <3> QED
        BY <1>1, <2>1, <2>2, <2>3, <2>5, <3>1, <3>3, <3>4
    <2>7. CASE i \in expired
      <3>1. seen' = s \ {j \in expired : c[j] > 0}
            /\ copies' = [j \in Ids |-> IF j \in expired THEN 0 ELSE c[j]]
        BY <2>1, <2>7 DEF SweptSeen, SweptCopies
      <3>2. copies' \in [Ids -> Nat]
        BY <2>2, <3>1
      <3>3. seen' = {j \in Ids : copies'[j] > 0} \cup hidden'
        <4>1. \A j \in Ids : copies'[j] > 0 <=> j \notin expired /\ c[j] > 0
          BY <3>1
        <4>2. \A j \in hidden' : j \in Ids /\ ~(c[j] > 0)
          BY <1>1, <2>1, <2>4
        <4> QED
          BY <2>1, <2>3, <3>1, <4>1, <4>2
      <3>4. \A j \in hidden' : copies'[j] = 0
        BY <1>1, <2>1, <2>4, <3>1
      <3>5. Dealt \subseteq Dealt' /\ i \in Dealt'
        BY <2>1, <2>7, <3>1 DEF Dealt, s
      <3>6. seen' \subseteq 1..last
        BY <2>3, <3>1
      <3> QED
        BY <1>1, <2>1, <2>5, <3>2, <3>3, <3>4, <3>5, <3>6 DEF KeysFollow, SeenWhenShown
    <2> QED
      BY <2>6, <2>7
  <1> QED
    BY <1>2, <1>3

\* Ingestions that are not a pull's.
LEMMA IngestStep ==
    ASSUME IndInv, TypeOK', KeysFollow', Dealt \subseteq Dealt', UNCHANGED <<pull, last>>
    PROVE  IndInv'
  BY PullsKept, LastIsNat DEF IndInv

LEMMA ReceiveInd == ASSUME IndInv, NEW i \in Ids, Receive(i) PROVE IndInv'
  <1>1. PICK begun \in BOOLEAN :
           Dedup(i, begun) /\ pushed' = IF begun THEN pushed \cup {i} ELSE pushed
    BY DEF Receive
  <1>2. /\ wire' = wire \ {i} /\ i \in 1..last /\ link = "up"
        /\ UNCHANGED <<relayVars, outbox, link, ever, drops, keys, blocked, reply, own, pull, failed>>
    BY DEF Receive, IndInv, TypeOK
  <1>3. /\ KeysFollow' /\ Dealt \subseteq Dealt'
        /\ seen' \subseteq 1..last /\ hidden' \subseteq 1..last /\ UNCHANGED <<maxId, copies, opens>>
    <2>1. UNCHANGED <<expired, failed>>
      BY <1>2 DEF relayVars
    <2> QED
      BY <1>1, <1>2, <2>1, DedupSets
  <1>4. TypeOK'
    BY <1>1, <1>2, <1>3 DEF IndInv, TypeOK, relayVars
  <1> QED
    BY <1>2, <1>3, <1>4, IngestStep DEF relayVars

LEMMA AnsweredInd == ASSUME IndInv, NEW i \in Ids, Answered(i) PROVE IndInv'
  <1>1. PICK begun \in BOOLEAN :
           Dedup(i, begun) /\ own' = IF begun THEN own \cup {i} ELSE own
    BY DEF Answered
  <1>2. /\ reply' = reply \ {i} /\ i \in mine /\ i \in 1..last
        /\ UNCHANGED <<relayVars, socketVars, keys, blocked, pushed, pull, failed>>
    BY DEF Answered, IndInv, TypeOK
  <1>3. /\ KeysFollow' /\ Dealt \subseteq Dealt'
        /\ seen' \subseteq 1..last /\ hidden' \subseteq 1..last /\ UNCHANGED <<maxId, copies, opens>>
    <2>1. UNCHANGED <<expired, failed>>
      BY <1>2 DEF relayVars
    <2> QED
      BY <1>1, <1>2, <2>1, DedupSets
  <1>4. TypeOK'
    BY <1>1, <1>2, <1>3 DEF IndInv, TypeOK, relayVars, socketVars
  <1> QED
    BY <1>2, <1>3, <1>4, IngestStep DEF relayVars

LEMMA ShowPushedInd == ASSUME IndInv, NEW i \in Ids, ShowPushed(i) PROVE IndInv'
  <1>1. /\ i \in 1..last /\ (Shows(i) \/ KeysFail(i)) /\ pushed' = pushed \ {i}
        /\ UNCHANGED <<relayVars, socketVars, blocked, reply, own, pull>>
    BY DEF ShowPushed, IndInv, TypeOK
  <1>2. UNCHANGED <<expired, blocked, mine, last>>
    BY <1>1 DEF relayVars
  <1>3. /\ KeysFollow' /\ Dealt \subseteq Dealt'
        /\ seen' \subseteq 1..last /\ hidden' \subseteq 1..last /\ maxId' \in 0..last
        /\ copies' \in [Ids -> Nat] /\ failed' \subseteq (1..last) \ mine
        /\ keys' \in BOOLEAN /\ UNCHANGED opens
    BY <1>1, <1>2, ShowsSets
  <1>4. TypeOK'
    BY <1>1, <1>2, <1>3 DEF IndInv, TypeOK, relayVars, socketVars
  <1> QED
    BY <1>1, <1>2, <1>3, <1>4, IngestStep

LEMMA ShowOwnInd == ASSUME IndInv, NEW i \in Ids, ShowOwn(i) PROVE IndInv'
  <1>1. /\ i \in 1..last /\ (Shows(i) \/ KeysFail(i)) /\ own' = own \ {i}
        /\ UNCHANGED <<relayVars, socketVars, blocked, pushed, reply, pull>>
    BY DEF ShowOwn, IndInv, TypeOK
  <1>2. UNCHANGED <<expired, blocked, mine, last>>
    BY <1>1 DEF relayVars
  <1>3. /\ KeysFollow' /\ Dealt \subseteq Dealt'
        /\ seen' \subseteq 1..last /\ hidden' \subseteq 1..last /\ maxId' \in 0..last
        /\ copies' \in [Ids -> Nat] /\ failed' \subseteq (1..last) \ mine
        /\ keys' \in BOOLEAN /\ UNCHANGED opens
    BY <1>1, <1>2, ShowsSets
  <1>4. TypeOK'
    BY <1>1, <1>2, <1>3 DEF IndInv, TypeOK, relayVars, socketVars
  <1> QED
    BY <1>1, <1>2, <1>3, <1>4, IngestStep

LEMMA SweepExpiredInd == ASSUME IndInv, SweepExpired PROVE IndInv'
  <1>1. /\ copies' = [j \in Ids |-> IF j \in expired THEN 0 ELSE copies[j]]
        /\ seen' = seen \ {j \in expired : copies[j] > 0}
        /\ UNCHANGED <<last, mine, expired, socketVars, keys, blocked, maxId, hidden, opens,
                       ingestVars, pull, failed>>
    BY DEF SweepExpired, SweptCopies, SweptSeen, relayVars
  <1>2. /\ copies \in [Ids -> Nat] /\ seen = {j \in Ids : copies[j] > 0} \cup hidden
        /\ hidden \subseteq Ids /\ \A j \in hidden : copies[j] = 0
    BY StoredIds DEF IndInv, TypeOK, KeysFollow, SeenWhenShown
  <1>3. copies' \in [Ids -> Nat] /\ \A j \in Ids : copies'[j] > 0 <=> j \notin expired /\ copies[j] > 0
    BY <1>1, <1>2
  <1>4. KeysFollow'
    <2>1. \A j \in hidden : ~(copies[j] > 0) /\ copies'[j] = 0
      BY <1>1, <1>2
    <2>2. seen' = {j \in Ids : copies'[j] > 0} \cup hidden
      BY <1>1, <1>2, <1>3, <2>1
    <2> QED
      BY <1>1, <2>1, <2>2 DEF KeysFollow, SeenWhenShown
  <1>5. Dealt \subseteq Dealt' /\ seen' \subseteq seen
    BY <1>1 DEF Dealt
  <1>6. TypeOK'
    BY <1>1, <1>3, <1>5 DEF IndInv, TypeOK, socketVars, ingestVars
  <1> QED
    BY <1>1, <1>4, <1>5, <1>6, IngestStep

-----------------------------------------------------------------------------
(* Pulls.                                                                  *)

\* What is said of one pull.
Well(q) ==
    /\ q \in Pulls
    /\ q.st # "page" => q.page = {} /\ q.cur = 0
    /\ q.since <= last /\ q.head <= last
    /\ q.page \subseteq 1..last /\ q.cur \in 0..last

Reach(q) == IF q.st = "page" /\ ~q.full THEN q.head ELSE q.since

CoveredBy(q, done) ==
    q.st \in {"fetch", "page"} =>
        \A i \in 1..last : q.from < i /\ i <= Reach(q) => i \in done \cup q.page \cup {q.cur}

\* A step of one pull.
LEMMA PullStep ==
    ASSUME IndInv, NEW p \in Pullers, NEW q, pull' = [pull EXCEPT ![p] = q],
           UNCHANGED last, Dealt \subseteq Dealt', Well(q), CoveredBy(q, Dealt')
    PROVE  pull' \in [Pullers -> Pulls] /\ PullsWell' /\ Covered'
  <1>1. pull \in [Pullers -> Pulls]
    BY DEF IndInv, TypeOK
  <1>2. \A r \in Pullers : pull'[r] = IF r = p THEN q ELSE pull[r]
    BY <1>1
  <1>3. pull' \in [Pullers -> Pulls]
    BY <1>1 DEF Well
  <1>4. PullsWell'
    BY <1>2 DEF IndInv, PullsWell, Well
  <1>5. Covered'
    <2> SUFFICES ASSUME NEW r \in Pullers, pull'[r].st \in {"fetch", "page"},
                        NEW i \in 1..last, pull'[r].from < i, i <= Bound(r)'
                 PROVE  i \in Dealt' \cup pull'[r].page \cup {pull'[r].cur}
      BY DEF Covered
    <2>1. CASE r = p
      <3>1. pull'[r] = q /\ Bound(r)' = Reach(q)
        BY <1>2, <2>1 DEF Bound, Reach
      <3> QED
        BY <3>1 DEF CoveredBy
    <2>2. CASE r # p
      <3>1. pull'[r] = pull[r] /\ Bound(r)' = Bound(r)
        BY <1>2, <2>2 DEF Bound
      <3> QED
        BY <3>1 DEF IndInv, Covered
    <2> QED
      BY <2>1, <2>2
  <1> QED
    BY <1>3, <1>4, <1>5

LEMMA PullIs ==
    ASSUME IndInv, NEW p \in Pullers
    PROVE  /\ Well(pull[p]) /\ CoveredBy(pull[p], Dealt) /\ pull[p] \in Pulls
           /\ pull[p].since \in Nat /\ pull[p].since \in 0..last
  <1>1. pull[p] \in Pulls /\ last \in Nat
    BY DeliveryAssumption DEF IndInv, TypeOK
  <1>2. Well(pull[p])
    BY <1>1 DEF IndInv, PullsWell, Well
  <1>3. CoveredBy(pull[p], Dealt)
    BY DEF IndInv, Covered, CoveredBy, Bound, Reach
  <1>4. pull[p].since \in Nat
    BY <1>1, DeliveryAssumption DEF Pulls
  <1> QED
    BY <1>1, <1>2, <1>3, <1>4 DEF Well

\* Pulls that have no pages yet.
LEMMA FreshIs ==
    ASSUME IndInv, NEW q, q = Begin \/ q = NoPull \/ (\E st \in {"me", "broken"} : q = [NoPull EXCEPT !.st = st])
    PROVE  Well(q) /\ CoveredBy(q, Dealt)
  <1>1. last \in Nat /\ last <= MaxId /\ maxId \in 0..last /\ maxId \in 0..MaxId /\ MaxId \in Nat
    BY DeliveryAssumption DEF IndInv, TypeOK
  <1>2. NoPull \in Pulls /\ NoPull.st = "idle" /\ NoPull.page = {} /\ NoPull.cur = 0
        /\ NoPull.since = 0 /\ NoPull.head = 0 /\ NoPull.from = 0 /\ NoPull.full = FALSE
    BY <1>1 DEF NoPull, Pulls
  <1>3. CASE q = Begin
    <2>1. /\ q \in Pulls /\ q.st = "fetch" /\ q.page = {} /\ q.cur = 0 /\ q.head = 0
          /\ q.from = maxId /\ q.since = maxId
      BY <1>1, <1>2, <1>3 DEF Begin, Pulls
    <2>2. Reach(q) = maxId
      BY <2>1 DEF Reach
    <2> QED
      BY <1>1, <2>1, <2>2 DEF Well, CoveredBy
  <1>4. CASE q = NoPull
    BY <1>1, <1>2, <1>4 DEF Well, CoveredBy
  <1>5. CASE \E st \in {"me", "broken"} : q = [NoPull EXCEPT !.st = st]
    <2>1. /\ q \in Pulls /\ q.st \in {"me", "broken"} /\ q.page = {} /\ q.cur = 0 /\ q.head = 0
          /\ q.since = 0
      BY <1>2, <1>5 DEF Pulls
    <2> QED
      BY <1>1, <2>1 DEF Well, CoveredBy
  <1> QED
    BY <1>3, <1>4, <1>5

\* Steps of a pull that change no messages.
LEMMA PlainPullStep ==
    ASSUME IndInv, NEW p \in Pullers, NEW q, pull' = [pull EXCEPT ![p] = q],
           Well(q), CoveredBy(q, Dealt), keys' \in BOOLEAN,
           PullOnly, UNCHANGED <<convoVars, failed>>
    PROVE  IndInv'
  <1>1. UNCHANGED <<last, expired, seen, failed, copies, hidden>>
    BY DEF PullOnly, relayVars, convoVars
  <1>2. Dealt' = Dealt /\ KeysFollow'
    BY <1>1 DEF Dealt, IndInv, KeysFollow, SeenWhenShown
  <1>3. pull' \in [Pullers -> Pulls] /\ PullsWell' /\ Covered'
    BY <1>1, <1>2, PullStep
  <1>4. TypeOK'
    BY <1>3 DEF IndInv, TypeOK, PullOnly, relayVars, socketVars, ingestVars, convoVars
  <1> QED
    BY <1>2, <1>3, <1>4 DEF IndInv

LEMMA ReadyInd == ASSUME IndInv, Ready PROVE IndInv'
  <1>1. /\ link' = "up" /\ ever' = TRUE /\ link # "down"
        /\ UNCHANGED <<last, mine, expired, outbox, wire, drops, keys, blocked, seen, maxId,
                       copies, hidden, opens, ingestVars, failed>>
    BY DEF Ready, relayVars, convoVars
  <1>2. Dealt' = Dealt /\ KeysFollow'
    BY <1>1 DEF Dealt, IndInv, KeysFollow, SeenWhenShown
  <1>3. pull' \in [Pullers -> Pulls] /\ PullsWell' /\ Covered'
    <2>1. CASE ever /\ pull["resync"].st = "idle"
      <3>1. pull' = [pull EXCEPT !["resync"] = [NoPull EXCEPT !.st = "me"]] /\ "resync" \in Pullers
        BY <2>1 DEF Ready, Pullers
      <3> DEFINE q == [NoPull EXCEPT !.st = "me"]
      <3>2. Well(q) /\ CoveredBy(q, Dealt)
        BY FreshIs
      <3> HIDE DEF q
      <3> QED
        BY <1>1, <1>2, <3>1, <3>2, PullStep DEF q
    <2>2. CASE ~(ever /\ pull["resync"].st = "idle")
      <3>1. pull' = pull
        BY <2>2 DEF Ready
      <3> QED
        BY <1>1, <1>2, <3>1, PullsKept, LastIsNat DEF IndInv, TypeOK
    <2> QED
      BY <2>1, <2>2
  <1>4. TypeOK'
    BY <1>1, <1>3 DEF IndInv, TypeOK, ingestVars
  <1> QED
    BY <1>2, <1>3, <1>4 DEF IndInv

LEMMA OpenInd == ASSUME IndInv, Open PROVE IndInv'
  <1>1. pull' = [pull EXCEPT !["open"] = Begin] /\ "open" \in Pullers /\ keys' \in BOOLEAN
        /\ PullOnly /\ UNCHANGED <<convoVars, failed>>
    BY DEF Open, Pullers, IndInv, TypeOK
  <1> QED
    BY <1>1, FreshIs, PlainPullStep

LEMMA GotMeInd == ASSUME IndInv, NEW p \in Pullers, GotMe(p) PROVE IndInv'
  <1>1. pull' = [pull EXCEPT ![p] = Begin] /\ keys' \in BOOLEAN
        /\ PullOnly /\ UNCHANGED <<convoVars, failed>>
    BY DEF GotMe, IndInv, TypeOK
  <1> QED
    BY <1>1, FreshIs, PlainPullStep

LEMMA PullFailsInd == ASSUME IndInv, NEW p \in Pullers, PullFails(p) PROVE IndInv'
  <1> DEFINE q == IF p = "boot" /\ pull[p].st = "me" THEN [NoPull EXCEPT !.st = "broken"] ELSE NoPull
  <1>1. pull' = [pull EXCEPT ![p] = q] /\ keys' \in BOOLEAN
        /\ PullOnly /\ UNCHANGED <<convoVars, failed>>
    BY DEF PullFails, IndInv, TypeOK
  <1>2. q = NoPull \/ q = [NoPull EXCEPT !.st = "broken"]
    OBVIOUS
  <1> HIDE DEF q
  <1>3. Well(q) /\ CoveredBy(q, Dealt)
    BY <1>2, FreshIs
  <1> QED
    BY <1>1, <1>3, PlainPullStep

LEMMA FetchPageInd == ASSUME IndInv, NEW p \in Pullers, FetchPage(p) PROVE IndInv'
  <1> DEFINE old == pull[p]
             page == PageAfter(old.since)
             q == [old EXCEPT !.st = "page", !.page = page, !.head = last,
                              !.full = (Cardinality(page) = PageSize),
                              !.since = IF page = {} THEN old.since ELSE Greatest(page)]
  <1>1. pull' = [pull EXCEPT ![p] = q] /\ keys' \in BOOLEAN /\ old.st = "fetch"
        /\ PullOnly /\ UNCHANGED <<convoVars, failed>>
    BY DEF FetchPage, IndInv, TypeOK
  <1>2. /\ Well(old) /\ CoveredBy(old, Dealt) /\ old \in Pulls /\ old.since \in 0..last
        /\ old.since \in Nat
    BY PullIs
  <1> HIDE DEF old
  <1>3. /\ page \in SUBSET {i \in 1..last : i > old.since}
        /\ page # {} => Greatest(page) \in page
        /\ page # {} => \A i \in 1..last :
              i > old.since /\ i <= Greatest(page) /\ i \notin expired => i \in page
        /\ Cardinality(page) # PageSize => \A i \in 1..last :
              i > old.since /\ i \notin expired => i \in page
        /\ Cardinality(page) = PageSize => page # {}
    BY <1>2, PageHolds DEF IndInv
  <1> HIDE DEF page
  <1>4. last \in Nat /\ last \in 0..MaxId /\ 1..last \subseteq Ids /\ MaxId \in Nat
    BY StoredIds DEF IndInv, TypeOK
  <1>5. /\ q \in Pulls /\ q.st = "page" /\ q.page = page /\ q.head = last /\ q.from = old.from
        /\ q.full = (Cardinality(page) = PageSize) /\ q.cur = old.cur
        /\ q.since = IF page = {} THEN old.since ELSE Greatest(page)
    <2>1. page \in SUBSET Ids
      BY <1>3, <1>4
    <2>2. page # {} => Greatest(page) \in 1..last
      BY <1>3
    <2>3. (IF page = {} THEN old.since ELSE Greatest(page)) \in 0..MaxId
      <3>1. \A x \in 0..last : x \in 0..MaxId
        BY <1>4
      <3>2. \A x \in 1..last : x \in 0..last
        BY <1>4
      <3>3. CASE page = {}
        BY <1>2, <3>1, <3>3
      <3>4. CASE page # {}
        BY <2>2, <3>1, <3>2, <3>4
      <3> QED
        BY <3>3, <3>4
    <2> QED
      BY <1>2, <1>4, <2>1, <2>3 DEF Pulls
  <1> HIDE DEF q
  <1>6. Well(q)
    <2>1. q.since <= last
      BY <1>2, <1>3, <1>4, <1>5
    <2> QED
      BY <1>2, <1>3, <1>4, <1>5, <2>1 DEF Well
  <1>7. ASSUME NEW i \in 1..last, q.from < i, i <= Reach(q)
        PROVE  i \in Dealt \cup q.page \cup {q.cur}
    <2>1. CASE i <= old.since
      <3>1. Reach(old) = old.since /\ old.page = {} /\ old.cur = 0
        BY <1>1, <1>2 DEF Reach, Well
      <3> QED
        BY <1>1, <1>2, <1>5, <1>7, <2>1, <3>1 DEF CoveredBy
    <2>2. CASE ~(i <= old.since)
      <3>1. i > old.since
        BY <1>2, <2>2
      <3>2. CASE i \in expired
        BY <3>2 DEF Dealt
      <3>3. CASE i \notin expired /\ Cardinality(page) = PageSize
        <4>1. i <= Greatest(page) /\ page # {}
          BY <1>3, <1>5, <1>7, <3>3 DEF Reach
        <4> QED
          BY <1>3, <1>5, <3>1, <3>3, <4>1
      <3>4. CASE i \notin expired /\ Cardinality(page) # PageSize
        BY <1>3, <1>5, <3>1, <3>4
      <3> QED
        BY <3>2, <3>3, <3>4
    <2> QED
      BY <2>1, <2>2
  <1>8. CoveredBy(q, Dealt)
    BY <1>7 DEF CoveredBy
  <1> QED
    BY <1>1, <1>6, <1>8, PlainPullStep

LEMMA PageDoneInd == ASSUME IndInv, NEW p \in Pullers, PageDone(p) PROVE IndInv'
  <1> DEFINE old == pull[p]
             q == IF old.full THEN [old EXCEPT !.st = "fetch"] ELSE NoPull
  <1>1. /\ old.st = "page" /\ old.page = {} /\ old.cur = 0
        /\ pull' = [pull EXCEPT ![p] = q] /\ keys' \in BOOLEAN
        /\ PullOnly /\ UNCHANGED <<convoVars, failed>>
    BY DEF PageDone, IndInv, TypeOK
  <1>2. Well(old) /\ CoveredBy(old, Dealt) /\ old \in Pulls
    BY PullIs
  <1> HIDE DEF old
  <1>3. CASE ~old.full
    BY <1>1, <1>3, FreshIs, PlainPullStep
  <1>4. CASE old.full
    <2>1. /\ q \in Pulls /\ q.st = "fetch" /\ q.page = {} /\ q.cur = 0 /\ q.since = old.since
          /\ q.head = old.head /\ q.from = old.from
      BY <1>1, <1>2, <1>4 DEF Pulls
    <2> HIDE DEF q
    <2>2. Reach(q) = Reach(old)
      BY <1>1, <1>4, <2>1 DEF Reach
    <2>3. Well(q) /\ CoveredBy(q, Dealt)
      BY <1>1, <1>2, <2>1, <2>2 DEF Well, CoveredBy
    <2> QED
      BY <1>1, <2>3, PlainPullStep
  <1> QED
    BY <1>3, <1>4

LEMMA IngestNextInd ==
    ASSUME IndInv, NEW p \in Pullers, NEW i \in Ids, IngestNext(p, i)
    PROVE  IndInv'
  <1>1. PICK begun \in BOOLEAN :
           /\ Dedup(i, begun)
           /\ pull' = [pull EXCEPT ![p] = [@ EXCEPT !.page = pull[p].page \ {i},
                                                    !.cur = IF begun THEN i ELSE 0]]
    BY DEF IngestNext
  <1> DEFINE old == pull[p]
             q == [old EXCEPT !.page = old.page \ {i}, !.cur = IF begun THEN i ELSE 0]
  <1>2. /\ old.st = "page" /\ old.cur = 0 /\ i \in old.page
        /\ PullOnly /\ UNCHANGED <<keys, failed>>
    BY DEF IngestNext, IsLeast
  <1>3. pull' = [pull EXCEPT ![p] = q]
    BY <1>1
  <1>4. Well(old) /\ CoveredBy(old, Dealt) /\ old \in Pulls
    BY PullIs
  <1>5. UNCHANGED <<last, mine, expired, failed, blocked>>
    BY <1>2 DEF PullOnly, relayVars
  <1> HIDE DEF old
  <1>6. i \in 1..last /\ i \in 0..MaxId /\ i \in 0..last /\ last \in Nat
    BY <1>2, <1>4, StoredIds DEF Well, IndInv, Ids
  <1>7. /\ KeysFollow' /\ Dealt \subseteq Dealt' /\ (~begun => i \in Dealt')
        /\ seen' \subseteq 1..last /\ hidden' \subseteq 1..last /\ UNCHANGED <<maxId, copies, opens>>
    BY <1>1, <1>5, <1>6, DedupSets
  <1>8. /\ q \in Pulls /\ q.st = "page" /\ q.page = old.page \ {i}
        /\ q.cur = (IF begun THEN i ELSE 0) /\ q.since = old.since /\ q.head = old.head
        /\ q.from = old.from /\ q.full = old.full
    BY <1>2, <1>4, <1>6 DEF Pulls
  <1> HIDE DEF q
  <1>9. Well(q)
    BY <1>4, <1>6, <1>8 DEF Well
  <1>10. CoveredBy(q, Dealt')
    <2>1. Reach(q) = Reach(old)
      BY <1>2, <1>8 DEF Reach
    <2>2. ASSUME NEW j \in 1..last, q.from < j, j <= Reach(q)
          PROVE  j \in Dealt' \cup q.page \cup {q.cur}
      <3>1. j \in Dealt \cup old.page
        BY <1>2, <1>4, <1>8, <2>1, <2>2 DEF CoveredBy
      <3> QED
        BY <1>7, <1>8, <3>1
    <2> QED
      BY <2>2 DEF CoveredBy
  <1>11. pull' \in [Pullers -> Pulls] /\ PullsWell' /\ Covered'
    BY <1>3, <1>5, <1>7, <1>9, <1>10, PullStep
  <1>12. TypeOK'
    BY <1>2, <1>5, <1>7, <1>11 DEF IndInv, TypeOK, PullOnly, socketVars, ingestVars
  <1> QED
    BY <1>7, <1>11, <1>12 DEF IndInv

LEMMA ShowNextInd == ASSUME IndInv, NEW p \in Pullers, ShowNext(p) PROVE IndInv'
  <1> DEFINE old == pull[p]
             i == old.cur
             q == [old EXCEPT !.cur = 0]
  <1>1. /\ i # 0 /\ (Shows(i) \/ KeysFail(i)) /\ pull' = [pull EXCEPT ![p] = q] /\ PullOnly
    BY DEF ShowNext
  <1>2. Well(old) /\ CoveredBy(old, Dealt) /\ old \in Pulls
    BY PullIs
  <1>3. UNCHANGED <<last, mine, expired, blocked>>
    BY <1>1 DEF PullOnly, relayVars
  <1> HIDE DEF old
  <1>4. last \in Nat
    BY StoredIds DEF IndInv
  <1>5. i \in 1..last /\ old.st = "page"
    BY <1>1, <1>2, <1>4 DEF Well
  <1>6. /\ q \in Pulls /\ q.st = "page" /\ q.page = old.page
        /\ q.cur = 0 /\ q.since = old.since /\ q.head = old.head
        /\ q.from = old.from /\ q.full = old.full
    BY <1>2, <1>5, DeliveryAssumption DEF Pulls
  <1>7. i = old.cur
    OBVIOUS
  <1> HIDE DEF q, i
  <1>8. /\ KeysFollow' /\ Dealt \subseteq Dealt' /\ i \in Dealt'
        /\ seen' \subseteq 1..last /\ hidden' \subseteq 1..last /\ maxId' \in 0..last
        /\ copies' \in [Ids -> Nat] /\ failed' \subseteq (1..last) \ mine
        /\ keys' \in BOOLEAN /\ UNCHANGED opens
    BY <1>1, <1>3, <1>5, ShowsSets
  <1>9. Well(q)
    BY <1>2, <1>4, <1>6 DEF Well
  <1>10. CoveredBy(q, Dealt')
    <2>1. Reach(q) = Reach(old)
      BY <1>5, <1>6 DEF Reach
    <2>2. ASSUME NEW j \in 1..last, q.from < j, j <= Reach(q)
          PROVE  j \in Dealt' \cup q.page \cup {q.cur}
      <3>1. j \in Dealt \cup old.page \cup {i}
        BY <1>2, <1>5, <1>6, <1>7, <2>1, <2>2 DEF CoveredBy
      <3> QED
        BY <1>6, <1>8, <3>1
    <2> QED
      BY <2>2 DEF CoveredBy
  <1>11. pull' \in [Pullers -> Pulls] /\ PullsWell' /\ Covered'
    BY <1>1, <1>3, <1>8, <1>9, <1>10, PullStep
  <1>12. TypeOK'
    BY <1>1, <1>3, <1>8, <1>11 DEF IndInv, TypeOK, PullOnly, socketVars, ingestVars
  <1> QED
    BY <1>8, <1>11, <1>12 DEF IndInv

-----------------------------------------------------------------------------
(* The theorems.                                                           *)

LEMMA StutterInd == ASSUME IndInv, UNCHANGED vars PROVE IndInv'
  <1>1. UNCHANGED <<pull, seen, copies, hidden, failed, expired, last>>
    BY DEF vars, convoVars, relayVars
  <1>2. TypeOK'
    BY DEF vars, relayVars, socketVars, convoVars, ingestVars, IndInv, TypeOK
  <1> QED
    BY <1>1, <1>2, QuietStep, LastIsNat DEF IndInv

LEMMA StepInd == IndInv /\ [Next]_vars => IndInv'
  <1> SUFFICES ASSUME IndInv, [Next]_vars PROVE IndInv'
    OBVIOUS
  <1>1. ASSUME NEW origin \in {"peer", "tab", "elsewhere"}, Store(origin) PROVE IndInv'
    BY <1>1, StoreInd
  <1>2. ASSUME NEW i \in Ids, Deliver(i) PROVE IndInv'
    BY <1>2, DeliverInd
  <1>3. ASSUME NEW i \in Ids, Expire(i) PROVE IndInv'
    BY <1>3, ExpireInd
  <1>4. CASE Connect \/ Drop \/ ToggleBlock
    BY <1>4, LinkInd
  <1>5. CASE Ready
    BY <1>5, ReadyInd
  <1>6. ASSUME NEW i \in Ids, Receive(i) PROVE IndInv'
    BY <1>6, ReceiveInd
  <1>7. ASSUME NEW i \in Ids, ShowPushed(i) PROVE IndInv'
    BY <1>7, ShowPushedInd
  <1>8. ASSUME NEW i \in Ids, Answered(i) PROVE IndInv'
    BY <1>8, AnsweredInd
  <1>9. ASSUME NEW i \in Ids, AnswerLost(i) PROVE IndInv'
    BY <1>9, AnswerLostInd
  <1>10. ASSUME NEW i \in Ids, ShowOwn(i) PROVE IndInv'
    BY <1>10, ShowOwnInd
  <1>11. CASE Open
    BY <1>11, OpenInd
  <1>12. ASSUME NEW p \in Pullers, GotMe(p) PROVE IndInv'
    BY <1>12, GotMeInd
  <1>13. ASSUME NEW p \in Pullers, PullFails(p) PROVE IndInv'
    BY <1>13, PullFailsInd
  <1>14. ASSUME NEW p \in Pullers, FetchPage(p) PROVE IndInv'
    BY <1>14, FetchPageInd
  <1>15. ASSUME NEW p \in Pullers, NEW i \in Ids, IngestNext(p, i) PROVE IndInv'
    BY <1>15, IngestNextInd
  <1>16. ASSUME NEW p \in Pullers, ShowNext(p) PROVE IndInv'
    BY <1>16, ShowNextInd
  <1>17. ASSUME NEW p \in Pullers, PageDone(p) PROVE IndInv'
    BY <1>17, PageDoneInd
  <1>18. CASE SweepExpired
    BY <1>18, SweepExpiredInd
  <1>19. CASE UNCHANGED vars
    BY <1>19, StutterInd
  <1> QED
    BY <1>1, <1>2, <1>3, <1>4, <1>5, <1>6, <1>7, <1>8, <1>9, <1>10, <1>11, <1>12, <1>13,
       <1>14, <1>15, <1>16, <1>17, <1>18, <1>19 DEF Next

(* The invariant, from which the rest follows.                             *)
THEOREM Invariance == Spec => []IndInv
  BY InitInd, StepInd, PTL DEF Spec

(* Types; frames are under way only on a socket that exists, and only      *)
(* stored envelopes are anywhere.                                          *)
THEOREM TypeCorrect == Spec => []TypeOK
  <1>1. IndInv => TypeOK
    BY DEF IndInv
  <1> QED
    BY <1>1, Invariance, PTL

(* ingestDm and sweepExpired: the dedup keys are those of the messages     *)
(* shown and of what was set aside while its sender was blocked.           *)
THEOREM KeysFollowMessages == Spec => []SeenWhenShown
  <1>1. IndInv => SeenWhenShown
    BY DEF IndInv, KeysFollow
  <1> QED
    BY <1>1, Invariance, PTL

\* The end of a pull: only PageDone takes one from its pages to rest, and only
\* after a short page.
LEMMA RestAfterShortPage ==
    ASSUME IndInv, Next, NEW p \in Pullers, pull[p].st = "page", pull'[p].st = "idle"
    PROVE  ~pull[p].full /\ pull[p].page = {} /\ pull[p].cur = 0
  <1>0. pull \in [Pullers -> Pulls]
    BY DEF IndInv, TypeOK
  <1>1. CASE UNCHANGED pull
    BY <1>1
  <1>2. CASE Ready
    <2>1. pull'["resync"].st = "me" \/ UNCHANGED pull
      BY <1>0, <1>2 DEF Ready, Pullers, NoPull
    <2>2. \A r \in Pullers \ {"resync"} : pull'[r] = pull[r]
      BY <1>0, <1>2 DEF Ready, Pullers
    <2> QED
      BY <2>1, <2>2
  <1>3. CASE Open
    <2>1. pull'["open"].st = "fetch"
      BY <1>0, <1>3 DEF Open, Pullers, Begin, NoPull
    <2>2. \A r \in Pullers \ {"open"} : pull'[r] = pull[r]
      BY <1>0, <1>3 DEF Open, Pullers
    <2> QED
      BY <2>1, <2>2
  <1>4. ASSUME NEW r \in Pullers, GotMe(r) \/ PullFails(r) \/ FetchPage(r) PROVE FALSE
    <2>1. pull[r].st \in {"me", "fetch"}
      BY <1>4 DEF GotMe, PullFails, FetchPage
    <2>2. r # p
      BY <2>1
    <2>3. pull'[p] = pull[p]
      BY <1>0, <1>4, <2>2 DEF GotMe, PullFails, FetchPage
    <2> QED
      BY <2>3
  <1>5. ASSUME NEW r \in Pullers, NEW i \in Ids, IngestNext(r, i) PROVE FALSE
    <2>1. PICK begun \in BOOLEAN :
             pull' = [pull EXCEPT ![r] = [@ EXCEPT !.page = pull[r].page \ {i},
                                                   !.cur = IF begun THEN i ELSE 0]]
      BY <1>5 DEF IngestNext
    <2>2. pull'[p].st = pull[p].st
      BY <1>0, <2>1 DEF Pulls
    <2> QED
      BY <2>2
  <1>6. ASSUME NEW r \in Pullers, ShowNext(r) PROVE FALSE
    <2>1. pull'[p].st = pull[p].st
      BY <1>0, <1>6 DEF ShowNext, Pulls
    <2> QED
      BY <2>1
  <1>7. ASSUME NEW r \in Pullers, PageDone(r)
        PROVE  ~pull[p].full /\ pull[p].page = {} /\ pull[p].cur = 0
    <2>1. r = p
      BY <1>0, <1>7 DEF PageDone
    <2>2. CASE pull[p].full
      <3>1. pull'[p].st = "fetch"
        BY <1>0, <1>7, <2>1, <2>2 DEF PageDone, Pulls
      <3> QED
        BY <3>1
    <2> QED
      BY <1>7, <2>1, <2>2 DEF PageDone
  <1>8. \/ UNCHANGED pull \/ Ready \/ Open
        \/ \E r \in Pullers : GotMe(r) \/ PullFails(r) \/ FetchPage(r)
        \/ \E r \in Pullers, i \in Ids : IngestNext(r, i)
        \/ \E r \in Pullers : ShowNext(r)
        \/ \E r \in Pullers : PageDone(r)
    BY DEF Next, Store, Deliver, Expire, Connect, Drop, Receive, ShowPushed, Answered,
           AnswerLost, ShowOwn, SweepExpired, ToggleBlock
  <1> QED
    BY <1>1, <1>2, <1>3, <1>4, <1>5, <1>6, <1>7, <1>8

(* pullHistory: whatever is pushed, blocked, swept or pulled in between, a *)
(* pull that comes to its end has dealt with every envelope between the    *)
(* cursor it began with and the newest one its last page could return.     *)
THEOREM PullsLeaveNoGap == Spec => PullLeavesNoGap
  <1> DEFINE NoGap == \A p \in Pullers : pull[p].st = "page" /\ pull'[p].st = "idle" =>
                         \A i \in 1..last : pull[p].from < i /\ i <= pull[p].head =>
                             i \in seen \cup expired \cup failed
  <1>1. IndInv /\ [Next]_vars => [NoGap]_vars
    <2> SUFFICES ASSUME IndInv, Next PROVE NoGap
      OBVIOUS
    <2> SUFFICES ASSUME NEW p \in Pullers, pull[p].st = "page", pull'[p].st = "idle",
                        NEW i \in 1..last, pull[p].from < i, i <= pull[p].head
                 PROVE  i \in seen \cup expired \cup failed
      OBVIOUS
    <2>1. ~pull[p].full /\ pull[p].page = {} /\ pull[p].cur = 0
      BY RestAfterShortPage
    <2>2. Bound(p) = pull[p].head
      BY <2>1 DEF Bound
    <2>3. i \in Dealt \cup pull[p].page \cup {pull[p].cur}
      BY <2>2 DEF IndInv, Covered
    <2>4. i # 0
      BY StoredIds DEF IndInv
    <2> QED
      BY <2>1, <2>3, <2>4 DEF Dealt
  <1>2. Spec => [][NoGap]_vars
    BY <1>1, Invariance, PTL DEF Spec
  <1> QED
    BY <1>2 DEF PullLeavesNoGap
=============================================================================
