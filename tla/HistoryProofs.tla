--------------------------- MODULE HistoryProofs ---------------------------
(***************************************************************************)
(* Proofs about History, for any relays, any number of envelopes, any      *)
(* disappearing ones and any number of decryptions at a time: each         *)
(* envelope is shown as it was sent, and once unless it came in two ways   *)
(* at a time; a restore brings back what it promises, and object URLs go   *)
(* with their messages.                                                    *)
(***************************************************************************)
EXTENDS History, FiniteSetTheorems, WellFoundedInduction, TLAPS

\* A message held is one of the relay in use, with its key in state.seen, or
\* was restored.
RowsKnown ==
    \A m \in Listed : \/ m = Row(m.id, relay) /\ m.id \in seen
                      \/ m.restored /\ m.id \in taken

\* A key in state.seen stands for a message, or was left behind by a
\* conversation.
SeenHeld == seen \subseteq IdsOf(Listed) \cup dropped

BackedUp == \A m \in backup : m.restored

\* ShownAsSent, also while the user is out of the group.
NothingForgotten ==
    \A i \in Stored(relay, 0) :
        Row(i, relay) \in Listed \/ i \in arriving \cup detached \cup taken \cup dropped \cup away

\* An ingestion will not put a message beside one of its number, unless that came
\* another way meanwhile.
ArrivesOnce == \A i \in arriving : \A m \in Listed : m.id = i => i \in raced

\* An image that is being decrypted is still there, or known to have gone.
RevealsOfHeld ==
    \A i \in Ids : reveals[i] > 0 => Row(i, relay) \in Listed \/ i \in dropped \cup overtaken

IndInv == /\ TypeOK /\ RowsKnown /\ SeenHeld /\ BackedUp /\ NothingForgotten
          /\ MergedOnce /\ ArrivesOnce /\ RevealsOfHeld /\ UrlsGoWithMessages

USE DEF Listed

-----------------------------------------------------------------------------
(* The largest number of a page.                                           *)

LEMMA HasLargest ==
    ASSUME NEW n \in Nat, NEW S \in SUBSET (0..n), S # {}
    PROVE  \E g \in S : \A i \in S : i <= g
  <1> DEFINE Above(i) == {j \in S : j > i}
             U == {Above(i) : i \in S}
             R == StrictSubsetOrdering(S)
  <1>1. IsFiniteSet(S) /\ S \subseteq Nat
    <2>1. IsFiniteSet(0..n) /\ 0..n \subseteq Nat
      BY FS_Interval
    <2> QED
      BY <2>1, FS_Subset
  <1>2. U \subseteq FiniteSubsetsOf(S) /\ U # {}
    <2>1. \A i \in S : Above(i) \in SUBSET S /\ IsFiniteSet(Above(i))
      BY <1>1, FS_Subset
    <2> QED
      BY <2>1 DEF FiniteSubsetsOf
  <1>3. PICK X \in U : \A Y \in U : ~(<<Y, X>> \in R)
    <2>1. IsWellFoundedOn(R, FiniteSubsetsOf(S))
      BY FS_StrictSubsetOrderingWellFounded
    <2> HIDE DEF U, R
    <2> QED
      BY <1>2, <2>1, WFMin
  <1>4. PICK g \in S : X = Above(g)
    OBVIOUS
  <1>5. ASSUME NEW i \in S, ~(i <= g) PROVE FALSE
    <2>1. i \in Nat /\ g \in Nat /\ i > g
      BY <1>1, <1>5
    <2>2. \A j \in S : j > i => j > g
      BY <1>1, <2>1
    <2>3. Above(i) \subseteq Above(g)
      BY <2>2
    <2>4. i \in Above(g) /\ i \notin Above(i)
      BY <2>1
    <2>5. <<Above(i), X>> \in R
      BY <1>4, <2>3, <2>4 DEF StrictSubsetOrdering
    <2> QED
      BY <1>3, <2>5
  <1> QED
    BY <1>5

LEMMA LargestIsIn ==
    ASSUME NEW n \in Nat, NEW S \in SUBSET (0..n), S # {}
    PROVE  (CHOOSE i \in S : \A j \in S : j <= i) \in S
  BY HasLargest

-----------------------------------------------------------------------------
(* Messages.                                                               *)

LEMMA RowIs == \A i \in Ids, r \in Relays : Row(i, r) \in Rows
  BY DEF Row, Rows

LEMMA StoredIs ==
    ASSUME TypeOK, NEW r \in Relays
    PROVE  /\ Stored(r, 0) = {i \in 1..last[r] : <<r, i>> \notin expired}
           /\ last[r] \in 0..MaxId /\ last[r] \in Nat /\ 1..last[r] \subseteq Ids
           /\ MaxId \in Nat /\ relay \in Relays
  <1>1. last[r] \in 0..MaxId /\ MaxId \in Nat
    BY HistoryAssumption DEF TypeOK
  <1>2. relay \in Relays
    BY DEF TypeOK
  <1> QED
    BY <1>1, <1>2 DEF Stored, Ids

\* The parts of the invariant about what is held, for any messages, keys, and marks
\* of what came in two ways at once.
Known(held, keys, marks) ==
    /\ IdsOf(BagToSet(held)) \subseteq keys \cup marks
    /\ \A m \in BagToSet(held) : \/ m = Row(m.id, relay) /\ m.id \in keys
                                 \/ m.restored /\ m.id \in taken

Pictured(held) ==
    /\ \A i \in Ids : reveals[i] > 0 => Row(i, relay) \in BagToSet(held) \/ i \in dropped \cup overtaken
    /\ urls \subseteq {i \in Ids : Row(i, relay) \in BagToSet(held)} \cup dropped \cup overtaken

Once(held, marks) ==
    \A m, n \in BagToSet(held) : m.id = n.id => (m = n /\ held[m] = 1) \/ m.id \in marks

\* Messages that are pushed come to the bag, once more each.
LEMMA PushedIs ==
    ASSUME NEW list, IsABag(list), NEW some
    PROVE  /\ IsABag(Pushed(list, some)) /\ BagToSet(Pushed(list, some)) = BagToSet(list) \cup some
           /\ \A m \in BagToSet(list) \ some : Pushed(list, some)[m] = list[m]
           /\ \A m \in some \ BagToSet(list) : Pushed(list, some)[m] = 1
  BY DEF IsABag, Pushed, BagToSet, SetToBag, (+)

LEMMA SetIs ==
    ASSUME NEW some
    PROVE  /\ IsABag(SetToBag(some)) /\ BagToSet(SetToBag(some)) = some
           /\ \A m \in some : SetToBag(some)[m] = 1
  BY DEF IsABag, SetToBag, BagToSet

LEMMA NoneListed == IsABag(EmptyBag) /\ BagToSet(EmptyBag) = {}
  BY SetIs DEF EmptyBag

\* What a sweep leaves.
LEMMA SweepKeeps ==
    ASSUME NEW held, IsABag(held), BagToSet(held) \subseteq Rows, NEW keys \in SUBSET Ids, NEW marks,
           Known(held, keys, marks), Once(held, marks), Pictured(held),
           keys \subseteq IdsOf(BagToSet(held)) \cup dropped, raced' = marks,
           urls \subseteq Ids, Sweep(held), seen' = SeenAfter(keys, held),
           UNCHANGED <<relay, reveals, taken, dropped>>
    PROVE  /\ Listed' \subseteq BagToSet(held) /\ seen' \subseteq keys
           /\ \A i \in Ids : Row(i, relay) \in BagToSet(held) =>
                 Row(i, relay) \in Listed' \/ <<relay, i>> \in expired
           /\ RowsKnown' /\ SeenHeld' /\ MergedOnce' /\ RevealsOfHeld' /\ UrlsGoWithMessages'
           /\ IsABag(rows') /\ IdsOf(Listed') \subseteq seen' \cup raced' /\ urls' \subseteq Ids
  <1> DEFINE gone == Swept(held)
  <1>1. /\ rows' = [m \in BagToSet(held) \ gone |-> held[m]]
        /\ seen' = keys \ IdsOf(gone) /\ urls' = urls \ IdsOf(gone)
        /\ overtaken' = overtaken \cup {i \in IdsOf(gone) : reveals[i] > 0}
    BY DEF Sweep, SeenAfter, Released
  <1>gone. \A m \in gone : m \in BagToSet(held) /\ Expired(m)
    BY DEF Swept
  <1>2. \A m \in gone : m = Row(m.id, relay) /\ <<relay, m.id>> \in expired
    <2> SUFFICES ASSUME NEW m \in gone
                 PROVE  m = Row(m.id, relay) /\ <<relay, m.id>> \in expired
      OBVIOUS
    <2>1. ~m.restored /\ <<m.from, m.id>> \in expired
      BY <1>gone DEF Expired
    <2>2. m = Row(m.id, relay)
      BY <1>gone, <2>1 DEF Known
    <2>3. m.from = relay
      BY <2>2 DEF Row
    <2> QED
      BY <2>1, <2>2, <2>3
  <1>3. gone \subseteq BagToSet(held)
    BY <1>gone
  <1> HIDE DEF gone
  <1>listed. /\ Listed' = BagToSet(held) \ gone /\ IsABag(rows')
             /\ \A m \in Listed' : rows'[m] = held[m]
    BY <1>1 DEF Listed, BagToSet, IsABag
  <1>4. \A i \in IdsOf(gone) : Row(i, relay) \in gone /\ <<relay, i>> \in expired
    BY <1>2 DEF IdsOf
  <1>5. \A i : Row(i, relay) \in gone => i \in IdsOf(gone)
    <2>1. \A i : Row(i, relay).id = i
      BY DEF Row
    <2> QED
      BY <2>1 DEF IdsOf
  <1>6. \A i \in Ids : Row(i, relay) \in BagToSet(held) => Row(i, relay) \in Listed' \/ <<relay, i>> \in expired
    BY <1>listed, <1>4, <1>5
  <1>7. RowsKnown'
    <2> SUFFICES ASSUME NEW m \in Listed', ~(m.restored /\ m.id \in taken)
                 PROVE  m = Row(m.id, relay) /\ m.id \in seen'
      BY DEF RowsKnown
    <2>1. m = Row(m.id, relay) /\ m.id \in keys
      BY <1>1, <1>listed DEF Known
    <2>2. m.id \notin IdsOf(gone)
      BY <1>listed, <1>4, <2>1
    <2> QED
      BY <1>1, <2>1, <2>2
  <1>8. SeenHeld'
    <2> SUFFICES ASSUME NEW k \in seen', k \notin dropped PROVE k \in IdsOf(Listed')
      BY DEF SeenHeld
    <2>1. PICK m \in BagToSet(held) : m.id = k
      BY <1>1 DEF IdsOf
    <2>2. m \notin gone
      BY <1>1, <2>1 DEF IdsOf
    <2> QED
      BY <1>listed, <2>1, <2>2 DEF IdsOf
  <1>9. MergedOnce'
    BY <1>1, <1>listed DEF Once, MergedOnce
  <1>10. \A i \in Ids : Row(i, relay) \in BagToSet(held) =>
            Row(i, relay) \in Listed' \/ (i \in IdsOf(gone) /\ (reveals[i] > 0 => i \in overtaken'))
    BY <1>1, <1>listed, <1>5
  <1>11. RevealsOfHeld'
    BY <1>1, <1>10 DEF RevealsOfHeld, Pictured
  <1>12. UrlsGoWithMessages'
    BY <1>1, <1>10 DEF UrlsGoWithMessages, Pictured
  <1>13. IdsOf(Listed') \subseteq seen' \cup raced'
    <2> SUFFICES ASSUME NEW m \in Listed', m.id \notin marks PROVE m.id \in seen'
      BY DEF IdsOf
    <2>1. m \in BagToSet(held) /\ m \notin gone /\ m.id \in keys
      BY <1>listed DEF Known, IdsOf
    <2>2. ASSUME NEW n \in gone, n.id = m.id PROVE FALSE
      BY <1>3, <2>1, <2>2 DEF Once
    <2>3. m.id \notin IdsOf(gone)
      BY <2>2 DEF IdsOf
    <2> QED
      BY <1>1, <2>1, <2>3
  <1> QED
    BY <1>1, <1>listed, <1>6, <1>7, <1>8, <1>9, <1>11, <1>12, <1>13

LEMMA InitInd == Init => IndInv
  <1> SUFFICES ASSUME Init PROVE IndInv
    OBVIOUS
  <1>listed. rows = EmptyBag /\ IsABag(rows) /\ Listed = {}
    BY NoneListed DEF Init, Listed
  <1>1. TypeOK
    <2>1. last \in [Relays -> 0..MaxId] /\ last[relay] = 0 /\ reveals \in [Ids -> 0..MaxReveals]
      BY HistoryAssumption DEF Init
    <2> QED
      BY <1>listed, <2>1 DEF Init, TypeOK, IdsOf, NoBackup
  <1>2. Stored(relay, 0) = {}
    <2>1. last[relay] = 0
      BY DEF Init
    <2> QED
      BY <2>1 DEF Stored
  <1> QED
    BY <1>listed, <1>1, <1>2 DEF Init, NoBackup, IndInv, RowsKnown, SeenHeld, BackedUp, NothingForgotten,
       MergedOnce, ArrivesOnce, RevealsOfHeld, UrlsGoWithMessages

\* What is held, as the lemma on sweeps wants it.
LEMMA HeldIs ==
    ASSUME IndInv
    PROVE  /\ Known(rows, seen, raced) /\ Once(rows, raced) /\ Pictured(rows)
           /\ seen \subseteq IdsOf(Listed) \cup dropped
           /\ IsABag(rows) /\ Listed \subseteq Rows /\ seen \in SUBSET Ids /\ urls \subseteq Ids
  BY DEF IndInv, TypeOK, RowsKnown, SeenHeld, MergedOnce, RevealsOfHeld, UrlsGoWithMessages,
     Known, Once, Pictured, Listed

LEMMA RowSeen == ASSUME IndInv, NEW i, Row(i, relay) \in Listed PROVE i \in seen
  <1>1. Row(i, relay).id = i /\ Row(i, relay).restored = FALSE
    BY DEF Row
  <1> QED
    BY <1>1 DEF IndInv, RowsKnown

\* Steps that add messages and sweep none.
LEMMA AddKeeps ==
    ASSUME NEW held, IsABag(held), BagToSet(held) \subseteq Rows, NEW keys \in SUBSET Ids, NEW marks,
           Known(held, keys, marks), Once(held, marks), Pictured(held),
           keys \subseteq IdsOf(BagToSet(held)) \cup dropped, raced' = marks,
           urls \subseteq Ids, rows' = held, seen' = keys,
           UNCHANGED <<relay, urls, overtaken, reveals, taken, dropped>>
    PROVE  /\ Listed' \subseteq BagToSet(held) /\ seen' \subseteq keys
           /\ \A i \in Ids : Row(i, relay) \in BagToSet(held) =>
                 Row(i, relay) \in Listed' \/ <<relay, i>> \in expired
           /\ RowsKnown' /\ SeenHeld' /\ MergedOnce' /\ RevealsOfHeld' /\ UrlsGoWithMessages'
           /\ IsABag(rows') /\ IdsOf(Listed') \subseteq seen' \cup raced' /\ urls' \subseteq Ids
  BY DEF RowsKnown, SeenHeld, MergedOnce, RevealsOfHeld, UrlsGoWithMessages, Known, Once, Pictured,
     Listed

LEMMA QuietKeeps ==
    ASSUME IndInv, UNCHANGED <<pageVars, imageVars, taken, dropped, raced>>
    PROVE  RowsKnown' /\ SeenHeld' /\ MergedOnce' /\ RevealsOfHeld' /\ UrlsGoWithMessages'
  BY DEF IndInv, pageVars, imageVars, RowsKnown, SeenHeld, MergedOnce, RevealsOfHeld,
     UrlsGoWithMessages, Listed

-----------------------------------------------------------------------------
(* Envelopes come and go.                                                  *)

LEMMA PostInd == ASSUME IndInv, NEW r \in Relays, Post(r) PROVE IndInv'
  <1> DEFINE i == last[r] + 1
  <1>1. /\ last[r] < MaxId /\ last' = [last EXCEPT ![r] = i]
        /\ arriving' = IF r = relay /\ member[r] /\ i \notin seen THEN arriving \cup {i} ELSE arriving
        /\ away' = IF r = relay /\ ~member[r] THEN away \cup {i} ELSE away
        /\ UNCHANGED <<expired, member, pageVars, detached, imageVars, backup, taken, dropped, raced>>
    BY DEF Post
  <1>2. /\ TypeOK /\ last \in [Relays -> 0..MaxId] /\ MaxId \in Nat /\ relay \in Relays
        /\ last[r] \in Nat /\ last[relay] \in Nat /\ relay' = relay
    BY <1>1, StoredIs DEF IndInv, TypeOK, pageVars
  <1>3. last' \in [Relays -> 0..MaxId] /\ last'[relay] = IF r = relay THEN i ELSE last[relay]
    BY <1>1, <1>2
  <1>4. last'[relay] \in Nat /\ last[relay] <= last'[relay] /\ i \in Nat
    BY <1>2, <1>3
  <1>5. arriving' \subseteq 1..last'[relay]
    <2>1. arriving \subseteq 1..last[relay]
      BY <1>2 DEF TypeOK
    <2>2. arriving \subseteq 1..last'[relay]
      BY <1>2, <1>4, <2>1
    <2>3. r = relay => i \in 1..last'[relay]
      BY <1>2, <1>3
    <2>4. arriving' = arriving \/ (r = relay /\ arriving' = arriving \cup {i})
      BY <1>1
    <2> HIDE DEF i
    <2> QED
      BY <2>2, <2>3, <2>4
  <1>6. TypeOK'
    <2>1. maxId \in 0..last'[relay] /\ detached \subseteq 1..last'[relay]
      BY <1>2, <1>4 DEF TypeOK
    <2> QED
      BY <1>1, <1>2, <1>3, <1>5, <2>1 DEF TypeOK, pageVars, imageVars
  <1>7. BackedUp'
    BY <1>1 DEF IndInv, BackedUp
  <1>8. NothingForgotten'
    <2> SUFFICES ASSUME NEW j \in 1..last'[relay], <<relay, j>> \notin expired
                 PROVE  Row(j, relay) \in Listed
                            \/ j \in arriving' \cup detached \cup taken \cup dropped \cup away'
      BY <1>1 DEF NothingForgotten, Stored, pageVars
    <2>1. CASE j \in 1..last[relay]
      <3>1. j \in Stored(relay, 0)
        BY <1>2, <2>1, StoredIs
      <3> QED
        BY <1>1, <3>1 DEF IndInv, NothingForgotten
    <2>2. CASE j \notin 1..last[relay]
      <3>1. j = i /\ r = relay
        BY <1>2, <1>3, <1>4, <2>2
      <3>2. CASE ~member[r] \/ j \notin seen
        BY <1>1, <3>1, <3>2
      <3>3. CASE j \in seen
        <4>1. CASE j \in dropped
          BY <4>1
        <4>2. CASE j \in IdsOf(Listed)
          <5>1. PICK m \in Listed : m.id = j
            BY <4>2 DEF IdsOf
          <5> QED
            BY <5>1 DEF IndInv, RowsKnown
        <4> QED
          BY <3>3, <4>1, <4>2 DEF IndInv, SeenHeld
      <3> QED
        BY <3>2, <3>3
    <2> QED
      BY <2>1, <2>2
  <1>9. ArrivesOnce'
    <2> SUFFICES ASSUME NEW j \in arriving', NEW m \in Listed, m.id = j
                 PROVE  j \in raced
      BY <1>1 DEF ArrivesOnce, pageVars
    <2>1. CASE j \in arriving
      BY <2>1 DEF IndInv, ArrivesOnce
    <2>2. CASE j \notin seen
      BY <2>2 DEF IndInv, TypeOK, IdsOf
    <2> QED
      BY <1>1, <2>1, <2>2
  <1> QED
    BY <1>1, <1>6, <1>7, <1>8, <1>9, QuietKeeps DEF IndInv

LEMMA ExpireInd == ASSUME IndInv, NEW r \in Relays, NEW i \in Ids, Expire(r, i) PROVE IndInv'
  <1>1. /\ expired' = expired \cup {<<r, i>>} /\ <<r, i>> \in Ephemeral
        /\ UNCHANGED <<last, member, pageVars, arriving, detached, imageVars, backup, notes>>
    BY DEF Expire
  <1>2. TypeOK' /\ BackedUp' /\ ArrivesOnce'
    BY <1>1 DEF IndInv, TypeOK, BackedUp, ArrivesOnce, pageVars, imageVars, notes
  <1>3. NothingForgotten'
    <2>1. Stored(relay, 0)' \subseteq Stored(relay, 0)
      BY <1>1 DEF Stored, pageVars
    <2> QED
      BY <1>1, <2>1 DEF IndInv, NothingForgotten, pageVars, notes
  <1> QED
    BY <1>1, <1>2, <1>3, QuietKeeps DEF IndInv, notes

LEMMA RejoinInd == ASSUME IndInv, Rejoin PROVE IndInv'
  <1>1. /\ member' = [member EXCEPT ![relay] = TRUE]
        /\ UNCHANGED <<last, expired, pageVars, arriving, detached, imageVars, backup, notes>>
    BY DEF Rejoin
  <1>2. member' \in [Relays -> BOOLEAN]
    BY <1>1 DEF IndInv, TypeOK
  <1>3. TypeOK' /\ BackedUp' /\ ArrivesOnce' /\ NothingForgotten'
    BY <1>1, <1>2 DEF IndInv, TypeOK, BackedUp, ArrivesOnce, NothingForgotten, Stored,
       pageVars, imageVars, notes
  <1> QED
    BY <1>1, <1>3, QuietKeeps DEF IndInv, notes

LEMMA MakeBackupInd == ASSUME IndInv, MakeBackup PROVE IndInv'
  <1>1. /\ backup' = {[m EXCEPT !.restored = TRUE] : m \in Listed}
        /\ UNCHANGED <<relayVars, pageVars, arriving, detached, imageVars, notes>>
    BY DEF MakeBackup
  <1>2. \A m \in Listed : [m EXCEPT !.restored = TRUE] \in Rows /\ [m EXCEPT !.restored = TRUE].restored
    BY DEF IndInv, TypeOK, Rows
  <1>3. TypeOK' /\ BackedUp' /\ ArrivesOnce' /\ NothingForgotten'
    BY <1>1, <1>2 DEF IndInv, TypeOK, BackedUp, ArrivesOnce, NothingForgotten, Stored,
       relayVars, pageVars, imageVars, notes
  <1> QED
    BY <1>1, <1>3, QuietKeeps DEF IndInv, notes

\* What SweepExpired, Show and Load have in common: the relay and the notes about
\* the page stay, but for messages that are shown.
LEMMA HeldStep ==
    ASSUME IndInv, NEW held, IsABag(held), BagToSet(held) \subseteq Rows, NEW keys \in SUBSET Ids,
           NEW marks \in SUBSET Ids, Listed \subseteq BagToSet(held), raced \subseteq marks, raced' = marks,
           \/ Sweep(held) /\ seen' = SeenAfter(keys, held)
           \/ rows' = held /\ seen' = keys /\ UNCHANGED <<urls, overtaken>>,
           Known(held, keys, marks), Once(held, marks), Pictured(held),
           keys \subseteq IdsOf(BagToSet(held)) \cup dropped,
           \A m \in BagToSet(held) \ Listed : m.id \in arriving' => m.id \in marks,
           UNCHANGED <<relayVars, relay, detached, reveals, backup, taken, dropped>>,
           maxId' \in 0..last[relay], arriving' \subseteq arriving,
           \A i \in arriving \ arriving' : Row(i, relay) \in BagToSet(held),
           \A i \in away \ away' : Row(i, relay) \in BagToSet(held)
    PROVE  IndInv'
  <1>1. UNCHANGED <<last, expired, member, relay, detached, reveals, backup, taken, dropped>>
    BY DEF relayVars
  <1>2. urls \subseteq Ids
    BY DEF IndInv, TypeOK
  <1>3. /\ Listed' \subseteq BagToSet(held) /\ seen' \subseteq keys
        /\ \A i \in Ids : Row(i, relay) \in BagToSet(held) =>
              Row(i, relay) \in Listed' \/ <<relay, i>> \in expired
        /\ RowsKnown' /\ SeenHeld' /\ MergedOnce' /\ RevealsOfHeld' /\ UrlsGoWithMessages'
        /\ IsABag(rows') /\ IdsOf(Listed') \subseteq seen' \cup raced' /\ urls' \subseteq Ids
    <2>1. CASE Sweep(held) /\ seen' = SeenAfter(keys, held)
      BY <1>1, <1>2, <2>1, SweepKeeps
    <2>2. CASE rows' = held /\ seen' = keys /\ UNCHANGED <<urls, overtaken>>
      BY <1>1, <1>2, <2>2, AddKeeps
    <2> QED
      BY <2>1, <2>2
  <1>4. TypeOK'
    BY <1>1, <1>3 DEF IndInv, TypeOK
  <1>5. BackedUp'
    BY <1>1 DEF IndInv, BackedUp
  <1>6. ArrivesOnce'
    <2> SUFFICES ASSUME NEW i \in arriving', NEW m \in Listed', m.id = i
                 PROVE  i \in marks
      BY DEF ArrivesOnce
    <2>1. m \in Listed => i \in raced
      BY DEF IndInv, ArrivesOnce
    <2>2. m \in Listed \/ m \in BagToSet(held) \ Listed
      BY <1>3
    <2> QED
      BY <2>1, <2>2
  <1>7. NothingForgotten'
    <2> SUFFICES ASSUME NEW i \in Stored(relay, 0)
                 PROVE  Row(i, relay) \in Listed'
                            \/ i \in arriving' \cup detached \cup taken \cup dropped \cup away'
      BY <1>1 DEF NothingForgotten, Stored
    <2>1. i \in Ids /\ <<relay, i>> \notin expired
      BY StoredIs DEF IndInv, TypeOK
    <2>2. Row(i, relay) \in BagToSet(held) => Row(i, relay) \in Listed'
      BY <1>3, <2>1
    <2> QED
      BY <2>2 DEF IndInv, NothingForgotten
  <1> QED
    BY <1>3, <1>4, <1>5, <1>6, <1>7 DEF IndInv

LEMMA SweepExpiredInd == ASSUME IndInv, SweepExpired PROVE IndInv'
  <1>1. /\ Sweep(rows) /\ seen' = SeenAfter(seen, rows)
        /\ UNCHANGED <<relayVars, relay, maxId, arriving, detached, reveals, backup, notes>>
    BY DEF SweepExpired
  <1>2. maxId' \in 0..last[relay] /\ raced \in SUBSET Ids
    BY <1>1 DEF IndInv, TypeOK
  <1>3. UNCHANGED <<relayVars, relay, detached, reveals, backup, taken, dropped, raced, away, arriving>>
    BY <1>1 DEF notes
  <1> QED
    BY <1>1, <1>2, <1>3, HeldIs, HeldStep

LEMMA ShowInd == ASSUME IndInv, NEW i \in Ids, Show(i) PROVE IndInv'
  <1> DEFINE new == Row(i, relay)
             held == Pushed(rows, {new})
             keys == seen \cup {i}
  <1>1. /\ i \in arriving /\ arriving' = arriving \ {i} /\ maxId' = Larger(maxId, i)
        /\ \/ Sweep(held) /\ seen' = SeenAfter(keys, held)
           \/ rows' = held /\ seen' = keys /\ UNCHANGED <<urls, overtaken>>
        /\ UNCHANGED <<relayVars, relay, detached, reveals, backup, taken, dropped, raced, away>>
    BY DEF Show, notes
  <1>2. relay \in Relays /\ maxId' \in 0..last[relay] /\ raced \in SUBSET Ids
    <2>1. i \in 1..last[relay] /\ maxId \in 0..last[relay] /\ relay \in Relays /\ raced \in SUBSET Ids
      BY <1>1 DEF IndInv, TypeOK
    <2> QED
      BY <1>1, <2>1 DEF Larger
  <1>3. new \in Rows /\ new.id = i
    BY <1>2, RowIs DEF Row
  <1>4. new = Row(new.id, relay)
    BY <1>3
  <1>5. /\ IsABag(held) /\ BagToSet(held) = Listed \cup {new}
        /\ \A m \in Listed \ {new} : held[m] = rows[m]
        /\ new \notin Listed => held[new] = 1
    BY HeldIs, PushedIs
  <1>6. Pictured(held)
    BY <1>5, HeldIs DEF Pictured
  <1>7. \A j \in arriving \ arriving' : Row(j, relay) \in BagToSet(held)
    BY <1>1, <1>5
  <1> HIDE DEF new, held
  <1>8. Once(held, raced)
    <2>1. \A m \in Listed : m.id = i => i \in raced
      BY <1>1 DEF IndInv, ArrivesOnce
    <2> QED
      BY <1>3, <1>5, <2>1, HeldIs DEF Once
  <1>9. Known(held, keys, raced)
    BY <1>3, <1>4, <1>5, HeldIs DEF Known, IdsOf
  <1>10. keys \subseteq IdsOf(BagToSet(held)) \cup dropped
    BY <1>3, <1>5, HeldIs DEF IdsOf
  <1>11. BagToSet(held) \subseteq Rows /\ keys \in SUBSET Ids /\ Listed \subseteq BagToSet(held)
    BY <1>3, <1>5, HeldIs
  <1>12. \A m \in BagToSet(held) \ Listed : m.id \notin arriving'
    BY <1>1, <1>3, <1>5
  <1> HIDE DEF keys
  <1> QED
    BY <1>1, <1>2, <1>5, <1>6, <1>7, <1>8, <1>9, <1>10, <1>11, <1>12, HeldStep

LEMMA LoadInd == ASSUME IndInv, Load PROVE IndInv'
  <1> DEFINE page == Stored(relay, maxId) \ seen
             some == {Row(i, relay) : i \in page}
             held == Pushed(rows, some)
             keys == seen \cup page
             marks == raced \cup (page \cap arriving)
  <1>1. /\ rows' = held /\ seen' = keys /\ away' = away \ page /\ raced' = marks
        /\ maxId' = CHOOSE i \in page \cup {maxId} : \A j \in page \cup {maxId} : j <= i
        /\ UNCHANGED <<relayVars, relay, arriving, detached, reveals, urls, overtaken, backup,
                       taken, dropped>>
    BY DEF Load, imageVars
  <1>2. /\ relay \in Relays /\ last[relay] \in Nat /\ maxId \in 0..last[relay]
        /\ 1..last[relay] \subseteq Ids
    BY StoredIs DEF IndInv, TypeOK
  <1>3. page \subseteq 1..last[relay] /\ page \cap seen = {}
    BY <1>2 DEF Stored
  <1> HIDE DEF page
  <1>4. maxId' \in 0..last[relay]
    <2>1. page \cup {maxId} \in SUBSET (0..last[relay]) /\ page \cup {maxId} # {}
      BY <1>2, <1>3
    <2> QED
      BY <1>1, <1>2, <2>1, LargestIsIn
  <1>5. \A m \in some : m \in Rows /\ m = Row(m.id, relay) /\ m.id \in page
    <2>1. \A i \in page : Row(i, relay) \in Rows /\ Row(i, relay).id = i
      BY <1>2, <1>3, RowIs DEF Row
    <2> QED
      BY <2>1
  <1>6. \A i \in page : Row(i, relay) \in some /\ i \in IdsOf(some)
    <2>1. \A i \in page : Row(i, relay).id = i
      BY DEF Row
    <2> QED
      BY <2>1 DEF IdsOf
  <1> HIDE DEF some
  <1>7. /\ IsABag(held) /\ BagToSet(held) = Listed \cup some
        /\ \A m \in Listed \ some : held[m] = rows[m]
        /\ \A m \in some \ Listed : held[m] = 1
    BY HeldIs, PushedIs
  <1> HIDE DEF held
  <1>8. Pictured(held)
    BY <1>7, HeldIs DEF Pictured
  <1>9. BagToSet(held) \subseteq Rows /\ keys \in SUBSET Ids /\ Listed \subseteq BagToSet(held)
    BY <1>2, <1>3, <1>5, <1>7, HeldIs
  <1>10. keys \subseteq IdsOf(BagToSet(held)) \cup dropped
    BY <1>6, <1>7, HeldIs DEF IdsOf
  <1>11. Known(held, keys, marks)
    <2>1. \A m \in BagToSet(held) : m \in Listed \/ (m = Row(m.id, relay) /\ m.id \in page)
      BY <1>5, <1>7
    <2>2. IdsOf(BagToSet(held)) \subseteq keys \cup marks
      BY <2>1, HeldIs DEF Known, IdsOf
    <2> QED
      BY <2>1, <2>2, HeldIs DEF Known
  <1>12. Once(held, marks)
    <2> SUFFICES ASSUME NEW m \in BagToSet(held), NEW n \in BagToSet(held), m.id = n.id, m.id \notin marks
                 PROVE  m = n /\ held[m] = 1
      BY DEF Once
    <2>1. \A x \in Listed : x.id \in seen \cup raced
      BY HeldIs DEF Known, IdsOf
    <2>2. \A x \in some : x.id \notin seen
      BY <1>3, <1>5
    <2>3. CASE m \in Listed /\ n \in Listed
      BY <1>7, <2>1, <2>2, <2>3, HeldIs DEF Once
    <2>4. CASE m \in some /\ n \in some
      BY <1>5, <1>7, <2>1, <2>2, <2>4
    <2> QED
      BY <1>7, <2>1, <2>2, <2>3, <2>4
  <1>13. \A m \in BagToSet(held) \ Listed : m.id \in arriving => m.id \in marks
    BY <1>5, <1>7
  <1>14. \A i \in away \ away' : Row(i, relay) \in BagToSet(held)
    BY <1>1, <1>6, <1>7
  <1>15. marks \in SUBSET Ids /\ raced \subseteq marks
    BY <1>2, <1>3 DEF IndInv, TypeOK
  <1> HIDE DEF keys, marks
  <1> QED
    BY <1>1, <1>4, <1>7, <1>8, <1>9, <1>10, <1>11, <1>12, <1>13, <1>14, <1>15, HeldStep

LEMMA ShowDetachedInd == ASSUME IndInv, NEW i \in Ids, ShowDetached(i) PROVE IndInv'
  <1>1. /\ detached' = detached \ {i} /\ seen' = seen \cup {i} /\ dropped' = dropped \cup {i}
        /\ UNCHANGED <<relayVars, relay, rows, maxId, arriving, imageVars, backup, taken, away, raced>>
    BY DEF ShowDetached
  <1>2. TypeOK'
    BY <1>1 DEF IndInv, TypeOK, relayVars, imageVars
  <1>3. RowsKnown' /\ SeenHeld' /\ BackedUp'
    BY <1>1 DEF IndInv, RowsKnown, SeenHeld, BackedUp
  <1>4. NothingForgotten'
    BY <1>1 DEF IndInv, NothingForgotten, Stored, relayVars
  <1>5. MergedOnce' /\ ArrivesOnce'
    BY <1>1 DEF IndInv, MergedOnce, ArrivesOnce
  <1>6. RevealsOfHeld' /\ UrlsGoWithMessages'
    BY <1>1 DEF IndInv, RevealsOfHeld, UrlsGoWithMessages, imageVars
  <1> QED
    BY <1>2, <1>3, <1>4, <1>5, <1>6 DEF IndInv

-----------------------------------------------------------------------------
(* Leaving, reloading, backups, images.                                    *)

LEMMA DropInd == ASSUME IndInv, Drop PROVE IndInv'
  <1>1. /\ member' = [member EXCEPT ![relay] = FALSE] /\ rows' = EmptyBag /\ maxId' = 0
        /\ detached' = detached \cup arriving /\ arriving' = {} /\ dropped' = dropped \cup seen
        /\ UNCHANGED <<last, expired, relay, seen, imageVars, backup, taken, away, raced>>
    BY DEF Drop
  <1>listed. IsABag(rows') /\ Listed' = {}
    BY <1>1, NoneListed
  <1>2. member' \in [Relays -> BOOLEAN] /\ last[relay] \in Nat
    BY <1>1, StoredIs DEF IndInv, TypeOK
  <1>3. TypeOK'
    BY <1>listed, <1>1, <1>2 DEF IndInv, TypeOK, imageVars, IdsOf
  <1>4. \A i : Row(i, relay) \in Listed => i \in dropped'
    BY <1>1, RowSeen
  <1>5. NothingForgotten'
    BY <1>1, <1>4 DEF IndInv, NothingForgotten, Stored
  <1>6. RevealsOfHeld' /\ UrlsGoWithMessages'
    BY <1>1, <1>4 DEF IndInv, RevealsOfHeld, UrlsGoWithMessages, imageVars
  <1>7. RowsKnown' /\ SeenHeld' /\ BackedUp' /\ MergedOnce' /\ ArrivesOnce'
    BY <1>listed, <1>1 DEF IndInv, RowsKnown, SeenHeld, BackedUp, MergedOnce, ArrivesOnce
  <1> QED
    BY <1>3, <1>5, <1>6, <1>7 DEF IndInv

LEMMA ReloadInd == ASSUME IndInv, NEW r \in Relays, Reload(r) PROVE IndInv'
  <1> DEFINE page == IF member[r] THEN Stored(r, 0) ELSE {}
  <1>1. /\ relay' = r /\ rows' = SetToBag({Row(i, r) : i \in page}) /\ seen' = page
        /\ maxId' = IF page = {} THEN 0 ELSE CHOOSE i \in page : \A j \in page : j <= i
        /\ arriving' = {} /\ detached' = {}
        /\ reveals' = [i \in Ids |-> 0] /\ urls' = {} /\ overtaken' = {}
        /\ taken' = {} /\ dropped' = {} /\ away' = 1..last[r] \ page /\ raced' = {}
        /\ UNCHANGED <<relayVars, backup>>
    BY DEF Reload
  <1>listed. /\ IsABag(rows') /\ Listed' = {Row(i, r) : i \in page}
             /\ \A m \in Listed' : rows'[m] = 1
    <2>1. /\ IsABag(SetToBag({Row(i, r) : i \in page}))
          /\ BagToSet(SetToBag({Row(i, r) : i \in page})) = {Row(i, r) : i \in page}
          /\ \A m \in {Row(i, r) : i \in page} : SetToBag({Row(i, r) : i \in page})[m] = 1
      BY SetIs
    <2> QED
      BY <1>1, <2>1
  <1>2. /\ last[r] \in Nat /\ 1..last[r] \subseteq Ids /\ UNCHANGED <<last, expired, member>>
        /\ Stored(r, 0) = {i \in 1..last[r] : <<r, i>> \notin expired}
    BY <1>1, StoredIs DEF IndInv, relayVars
  <1>3. page \subseteq 1..last[r] /\ page \subseteq Ids
    BY <1>2
  <1> HIDE DEF page
  <1>4. maxId' \in 0..last[r]
    <2>1. CASE page = {}
      BY <1>1, <1>2, <2>1
    <2>2. CASE page # {}
      <3>1. page \in SUBSET (0..last[r])
        BY <1>2, <1>3
      <3>2. maxId' \in page
        BY <1>1, <1>2, <2>2, <3>1, LargestIsIn
      <3> QED
        BY <3>1, <3>2
    <2> QED
      BY <2>1, <2>2
  <1>5. \A m \in Listed' : m = Row(m.id, r) /\ m.id \in page /\ m \in Rows
    <2>1. \A i \in page : Row(i, r).id = i /\ Row(i, r) \in Rows
      BY <1>3, RowIs DEF Row
    <2> QED
      BY <1>listed, <2>1
  <1>6. \A i \in page : Row(i, r) \in Listed' /\ i \in IdsOf(Listed')
    <2>1. \A i \in page : Row(i, r) \in Listed' /\ Row(i, r).id = i
      BY <1>listed DEF Row
    <2> QED
      BY <2>1 DEF IdsOf
  <1>7. TypeOK'
    <2>1. reveals' \in [Ids -> 0..MaxReveals]
      BY <1>1, HistoryAssumption
    <2>2. IdsOf(Listed') \subseteq seen' /\ Listed' \subseteq Rows
      BY <1>1, <1>5 DEF IdsOf
    <2>3. backup' \subseteq Rows /\ expired' \subseteq Ephemeral
          /\ last' \in [Relays -> 0..MaxId] /\ member' \in [Relays -> BOOLEAN]
      BY <1>1, <1>2 DEF IndInv, TypeOK
    <2> QED
      BY <1>listed, <1>1, <1>2, <1>3, <1>4, <2>1, <2>2, <2>3 DEF TypeOK
  <1>8. RowsKnown' /\ SeenHeld' /\ BackedUp'
    BY <1>1, <1>5, <1>6 DEF IndInv, RowsKnown, SeenHeld, BackedUp
  <1>9. NothingForgotten'
    <2> SUFFICES ASSUME NEW i \in 1..last[r], <<r, i>> \notin expired
                 PROVE  Row(i, r) \in Listed' \/ i \in away'
      BY <1>1, <1>2 DEF NothingForgotten, Stored
    <2> QED
      BY <1>1, <1>6
  <1>10. MergedOnce' /\ ArrivesOnce'
    BY <1>listed, <1>1, <1>5 DEF MergedOnce, ArrivesOnce
  <1>11. RevealsOfHeld' /\ UrlsGoWithMessages'
    BY <1>1 DEF RevealsOfHeld, UrlsGoWithMessages
  <1> QED
    BY <1>7, <1>8, <1>9, <1>10, <1>11 DEF IndInv

LEMMA RestoreInd == ASSUME IndInv, Restore PROVE IndInv'
  <1>1. PICK new \in SUBSET {m \in backup : m.id \notin seen} :
           /\ \A m, n \in new : m.id = n.id => m = n
           /\ rows' = Pushed(rows, new)
           /\ seen' = seen \cup IdsOf(new)
           /\ taken' = taken \cup IdsOf(new)
           /\ raced' = raced \cup (IdsOf(new) \cap arriving)
           /\ UNCHANGED <<relayVars, relay, maxId, arriving, detached, imageVars, backup, dropped, away>>
    BY DEF Restore, Merged
  <1>2. /\ new \subseteq Rows
        /\ \A m \in new : m.restored /\ m.id \in Ids /\ m.id \notin seen /\ m.id \in IdsOf(new)
    BY DEF IndInv, TypeOK, BackedUp, Rows, IdsOf
  <1>listed. /\ IsABag(rows') /\ Listed' = Listed \cup new
             /\ \A m \in Listed \ new : rows'[m] = rows[m]
             /\ \A m \in new \ Listed : rows'[m] = 1
    <2>1. IsABag(rows)
      BY HeldIs
    <2> QED
      BY <1>1, <2>1, PushedIs
  <1>3. IdsOf(new) \subseteq Ids /\ IdsOf(Listed') = IdsOf(Listed) \cup IdsOf(new)
    BY <1>listed, <1>2 DEF IdsOf
  <1>4. TypeOK'
    BY <1>listed, <1>1, <1>2, <1>3 DEF IndInv, TypeOK, relayVars, imageVars
  <1>5. RowsKnown' /\ SeenHeld' /\ BackedUp'
    BY <1>listed, <1>1, <1>2, <1>3 DEF IndInv, RowsKnown, SeenHeld, BackedUp
  <1>6. NothingForgotten'
    BY <1>listed, <1>1 DEF IndInv, NothingForgotten, Stored, relayVars
  <1>7. MergedOnce'
    <2> SUFFICES ASSUME NEW m \in Listed', NEW n \in Listed', m.id = n.id, m.id \notin raced'
                 PROVE  m = n /\ rows'[m] = 1
      BY DEF MergedOnce
    <2>1. \A x \in Listed : x.id \in seen \cup raced
      BY DEF IndInv, TypeOK, IdsOf
    <2>2. CASE m \in Listed /\ n \in Listed
      BY <1>listed, <1>1, <1>2, <2>1, <2>2 DEF IndInv, MergedOnce
    <2>3. CASE m \in new /\ n \in new
      BY <1>listed, <1>1, <1>2, <2>1, <2>3
    <2>4. CASE (m \in Listed /\ n \in new) \/ (m \in new /\ n \in Listed)
      BY <1>1, <1>2, <2>1, <2>4
    <2> QED
      BY <1>listed, <2>2, <2>3, <2>4
  <1>8. ArrivesOnce'
    <2> SUFFICES ASSUME NEW i \in arriving, NEW m \in Listed', m.id = i
                 PROVE  i \in raced'
      BY <1>1 DEF ArrivesOnce
    <2>1. CASE m \in Listed
      BY <1>1, <2>1 DEF IndInv, ArrivesOnce
    <2>2. CASE m \in new
      BY <1>1, <1>2, <2>2
    <2> QED
      BY <1>listed, <2>1, <2>2
  <1>9. RevealsOfHeld' /\ UrlsGoWithMessages'
    BY <1>listed, <1>1 DEF IndInv, RevealsOfHeld, UrlsGoWithMessages, imageVars
  <1> QED
    BY <1>4, <1>5, <1>6, <1>7, <1>8, <1>9 DEF IndInv

LEMMA RevealInd == ASSUME IndInv, NEW i \in Ids, Reveal(i) \/ Revealed(i) PROVE IndInv'
  <1>1. UNCHANGED <<relayVars, pageVars, arriving, detached, overtaken, backup, notes>>
    BY DEF Reveal, Revealed
  <1>2. reveals' \in [Ids -> 0..MaxReveals]
    <2>1. reveals \in [Ids -> 0..MaxReveals] /\ reveals[i] \in 0..MaxReveals /\ MaxReveals \in Nat
      BY HistoryAssumption DEF IndInv, TypeOK
    <2>2. CASE Reveal(i)
      <3>1. reveals[i] + 1 \in 0..MaxReveals /\ reveals' = [reveals EXCEPT ![i] = @ + 1]
        BY <2>1, <2>2 DEF Reveal
      <3> QED
        BY <2>1, <3>1
    <2>3. CASE Revealed(i)
      <3>1. reveals[i] - 1 \in 0..MaxReveals /\ reveals' = [reveals EXCEPT ![i] = @ - 1]
        BY <2>1, <2>3 DEF Revealed
      <3> QED
        BY <2>1, <3>1
    <2> QED
      BY <2>2, <2>3
  <1>3. /\ \A j \in Ids : reveals'[j] > 0 => reveals[j] > 0 \/ Row(j, relay) \in Listed
        /\ \A j \in urls' : j \in urls \/ (j = i /\ reveals[i] > 0)
    <2>1. reveals \in [Ids -> 0..MaxReveals] /\ MaxReveals \in Nat
      BY HistoryAssumption DEF IndInv, TypeOK
    <2>2. CASE Reveal(i)
      BY <2>1, <2>2 DEF Reveal
    <2>3. CASE Revealed(i)
      <3>1. /\ reveals[i] > 0 /\ reveals' = [reveals EXCEPT ![i] = @ - 1]
            /\ urls' \in {urls, urls \cup {i}}
        BY <2>3 DEF Revealed
      <3>2. \A j \in Ids \ {i} : reveals'[j] = reveals[j]
        BY <2>1, <3>1
      <3> QED
        BY <3>1, <3>2
    <2> QED
      BY <2>2, <2>3
  <1>4. RevealsOfHeld' /\ UrlsGoWithMessages'
    BY <1>1, <1>3 DEF IndInv, RevealsOfHeld, UrlsGoWithMessages, pageVars, notes
  <1>5. TypeOK'
    BY <1>1, <1>2, <1>3 DEF IndInv, TypeOK, relayVars, pageVars, notes
  <1>6. RowsKnown' /\ SeenHeld' /\ BackedUp' /\ NothingForgotten' /\ MergedOnce' /\ ArrivesOnce'
    BY <1>1 DEF IndInv, RowsKnown, SeenHeld, BackedUp, NothingForgotten, Stored, MergedOnce,
       ArrivesOnce, relayVars, pageVars, notes
  <1> QED
    BY <1>4, <1>5, <1>6 DEF IndInv

-----------------------------------------------------------------------------
(* The theorems.                                                           *)

LEMMA StepInd == IndInv /\ [Next]_vars => IndInv'
  <1> SUFFICES ASSUME IndInv, [Next]_vars PROVE IndInv'
    OBVIOUS
  <1>1. ASSUME NEW r \in Relays, Post(r) PROVE IndInv'
    BY <1>1, PostInd
  <1>2. ASSUME NEW r \in Relays, NEW i \in Ids, Expire(r, i) PROVE IndInv'
    BY <1>2, ExpireInd
  <1>3. CASE SweepExpired
    BY <1>3, SweepExpiredInd
  <1>4. ASSUME NEW i \in Ids, Show(i) PROVE IndInv'
    BY <1>4, ShowInd
  <1>5. ASSUME NEW i \in Ids, ShowDetached(i) PROVE IndInv'
    BY <1>5, ShowDetachedInd
  <1>6. CASE Drop
    BY <1>6, DropInd
  <1>7. CASE Rejoin
    BY <1>7, RejoinInd
  <1>8. CASE Load
    BY <1>8, LoadInd
  <1>9. ASSUME NEW r \in Relays, Reload(r) PROVE IndInv'
    BY <1>9, ReloadInd
  <1>10. CASE MakeBackup
    BY <1>10, MakeBackupInd
  <1>11. CASE Restore
    BY <1>11, RestoreInd
  <1>12. ASSUME NEW i \in Ids, Reveal(i) \/ Revealed(i) PROVE IndInv'
    BY <1>12, RevealInd
  <1>13. CASE UNCHANGED vars
    <2>1. UNCHANGED <<relayVars, pageVars, arriving, detached, imageVars, backup, notes>>
      BY <1>13 DEF vars
    <2>2. TypeOK' /\ BackedUp' /\ NothingForgotten' /\ ArrivesOnce'
      BY <2>1 DEF IndInv, TypeOK, BackedUp, NothingForgotten, Stored, ArrivesOnce,
         relayVars, pageVars, imageVars, notes
    <2> QED
      BY <2>1, <2>2, QuietKeeps DEF IndInv, notes
  <1> QED
    BY <1>1, <1>2, <1>3, <1>4, <1>5, <1>6, <1>7, <1>8, <1>9, <1>10, <1>11, <1>12, <1>13 DEF Next

(* The invariant, from which the rest follows.                             *)
THEOREM Invariance == Spec => []IndInv
  BY InitInd, StepInd, PTL DEF Spec

(* Types; the key of every message held is in state.seen, or the message    *)
(* came another way during the ingestion of one of its number.             *)
THEOREM TypeCorrect == Spec => []TypeOK
  <1>1. IndInv => TypeOK
    BY DEF IndInv
  <1> QED
    BY <1>1, Invariance, PTL

(* ingestGroup, loadGroup, onRestoreChosen, sweepExpired: every envelope   *)
(* the relay still has is shown as it was sent, but for the reasons that   *)
(* the property names, and no number is listed twice but where a restore   *)
(* or a page overtook the ingestion of a push.                             *)
THEOREM EachShownAsSent == Spec => []ShownOnceAsSent
  <1>1. IndInv => ShownOnceAsSent
    BY DEF IndInv, NothingForgotten, ShownOnceAsSent, ShownAsSent
  <1> QED
    BY <1>1, Invariance, PTL

(* releaseObjectUrls and revealImage: an object URL belongs to a message   *)
(* that is held, or to one that is known to have gone without it.          *)
THEOREM UrlsFollow == Spec => []UrlsGoWithMessages
  <1>1. IndInv => UrlsGoWithMessages
    BY DEF IndInv
  <1> QED
    BY <1>1, Invariance, PTL

(* onRestoreChosen: after a restore every number of the backup is held,    *)
(* unless the conversation had been left.                                  *)
THEOREM RestoresBringBack == Spec => RestoreBringsBack
  <1>1. ASSUME IndInv, Restore PROVE IdsOf(backup) \subseteq IdsOf(Listed') \cup dropped
    <2>1. PICK new \in SUBSET {m \in backup : m.id \notin seen} :
             IdsOf(new) = IdsOf(backup) \ seen /\ rows' = Pushed(rows, new)
      BY <1>1 DEF Restore, Merged
    <2>2. IdsOf(Listed') = IdsOf(Listed) \cup IdsOf(new)
      <3>1. IsABag(rows)
        BY <1>1, HeldIs
      <3>2. Listed' = Listed \cup new
        BY <2>1, <3>1, PushedIs
      <3> QED
        BY <3>2 DEF IdsOf
    <2>3. seen \subseteq IdsOf(Listed) \cup dropped
      BY <1>1 DEF IndInv, SeenHeld
    <2> QED
      BY <2>1, <2>2, <2>3
  <1>2. IndInv /\ [Next]_vars =>
           [Restore => IdsOf(backup) \subseteq IdsOf(Listed') \cup dropped]_vars
    BY <1>1
  <1>3. Spec => [][Restore => IdsOf(backup) \subseteq IdsOf(Listed') \cup dropped]_vars
    BY <1>2, Invariance, PTL DEF Spec
  <1> QED
    BY <1>3 DEF RestoreBringsBack
=============================================================================
