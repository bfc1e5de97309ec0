------------------------------ MODULE History ------------------------------
(***************************************************************************)
(* What one tab holds of a group conversation besides what is delivered to  *)
(* it: backups made and restored (client/js/app.js), the sweep of           *)
(* disappearing messages, leaving the group and coming back, a change of    *)
(* relay, and the object URLs of decrypted images.  All of it meets in      *)
(* state.seen, whose keys are ids of the relay in use.                      *)
(*                                                                         *)
(* A conversation lists its messages in order of their numbers, and nothing *)
(* keeps one from being listed twice: it is a bag.                          *)
(*                                                                         *)
(* How envelopes reach the tab is Delivery's subject: here each is pushed   *)
(* once, pushes do not get lost, and a page of history is ingested in one   *)
(* step, so that an envelope comes at most once each way.  A 1:1            *)
(* conversation is a group that nobody leaves.  Every message is an image.  *)
(* Names, settings and the list of blocked contacts in a backup are left    *)
(* out; its password is right or nothing happens.                           *)
(***************************************************************************)
EXTENDS Integers, FiniteSets, Bags

CONSTANTS
    Relays,
    MaxId,      \* bound on the envelopes of the conversation at a relay
    Ephemeral,  \* <<relay, id>> of the envelopes sent with a ttl
    MaxReveals  \* bound on the decryptions of one image at a time

Ids == 1..MaxId

ASSUME HistoryAssumption ==
    /\ MaxId \in Nat /\ MaxReveals \in Nat /\ Ephemeral \subseteq Relays \X Ids

VARIABLES
    last,       \* relays: envelopes 1..last[r] are stored
    expired,    \* relays: <<relay, id>> of those whose deadline has passed
    member,     \* relays: where the user is in the group
    relay,      \* tab: the relay this page was loaded for
    rows,       \* tab: convo.messages, a bag
    seen,       \* tab: state.seen
    maxId,      \* tab: convo.maxId
    arriving,   \* tab: ingestions past the dedup check
    detached,   \* tab: those of them whose convo has left state.convos
    reveals,    \* tab: how many revealImage are at work on each message
    urls,       \* tab: messages an object URL was created for and not revoked
    backup,     \* the newest backup file
    taken,      \* history of the page: keys put into seen by a restore
    dropped,    \* history of the page: keys of a conversation that was dropped
    away,       \* history of the page: envelopes stored while not in the group
    raced,      \* history of the page: keys that came in another way, by a
                \* restore or with a page, while their push was being ingested
    overtaken   \* history of the page: swept while their image was decrypted

relayVars == <<last, expired, member>>
pageVars  == <<relay, rows, seen, maxId>>
imageVars == <<reveals, urls, overtaken>>
notes     == <<taken, dropped, away, raced>>
vars == <<relayVars, pageVars, arriving, detached, imageVars, backup, notes>>

-----------------------------------------------------------------------------
\* A message as ingestGroup makes it, or as a restore makes it of a backup:
\* without expires_at, payload and file_id.  `from`, the relay that numbered
\* it, is not in the code.
Row(i, r)      == [id |-> i, from |-> r, restored |-> FALSE]
Rows == [id : Ids, from : Relays, restored : BOOLEAN]

\* What is listed, once or more often
Listed == BagToSet(rows)

\* convo.messages.push, for each of some messages
Pushed(list, some) == list (+) SetToBag(some)

IdsOf(some) == {m.id : m \in some}
Larger(a, b) == IF a >= b THEN a ELSE b

Expired(m) == ~m.restored /\ <<m.from, m.id>> \in expired

\* get_group_messages(since_id), all pages of it
Stored(r, since) == {i \in since + 1..last[r] : <<r, i>> \notin expired}

NoBackup == {}

Init ==
    /\ last = [r \in Relays |-> 0] /\ expired = {} /\ member = [r \in Relays |-> TRUE]
    /\ relay \in Relays /\ rows = EmptyBag /\ seen = {} /\ maxId = 0
    /\ arriving = {} /\ detached = {}
    /\ reveals = [i \in Ids |-> 0] /\ urls = {} /\ overtaken = {}
    /\ backup = NoBackup
    /\ taken = {} /\ dropped = {} /\ away = {} /\ raced = {}

-----------------------------------------------------------------------------
(* Envelopes come and go.                                                  *)

\* Somebody posts; if the tab is to get it, ingestGroup checks state.seen.
Post(r) ==
    LET i == last[r] + 1 IN
    /\ last[r] < MaxId
    /\ last' = [last EXCEPT ![r] = i]
    /\ arriving' = IF r = relay /\ member[r] /\ i \notin seen THEN arriving \cup {i} ELSE arriving
    /\ away' = IF r = relay /\ ~member[r] THEN away \cup {i} ELSE away
    /\ UNCHANGED <<expired, member, pageVars, detached, imageVars, backup, taken, dropped, raced>>

Expire(r, i) ==
    /\ i <= last[r] /\ <<r, i>> \in Ephemeral \ expired
    /\ expired' = expired \cup {<<r, i>>}
    /\ UNCHANGED <<last, member, pageVars, arriving, detached, imageVars, backup, notes>>

\* Mutant of SeenAfter: the sweep does not forget the keys.
MutantSeenAfterKept(keys, held) == keys

\* Mutant of Released: the object URLs are forgotten.
MutantReleasedNone(gone) == urls

\* releaseObjectUrls
Released(gone) == urls \ IdsOf(gone)

\* sweepExpired, run on the messages `held` and on the keys of state.seen
Swept(held) == {m \in BagToSet(held) : Expired(m)}
SeenAfter(keys, held) == keys \ IdsOf(Swept(held))
Sweep(held) ==
    LET gone == Swept(held) IN
    /\ rows' = [m \in BagToSet(held) \ gone |-> held[m]]
    /\ urls' = Released(gone)
    /\ overtaken' = overtaken \cup {i \in IdsOf(gone) : reveals[i] > 0}

SweepExpired ==
    /\ Sweep(rows)
    /\ seen' = SeenAfter(seen, rows)
    /\ UNCHANGED <<relayVars, relay, maxId, arriving, detached, reveals, backup, notes>>

\* pushMessage, which does not look at state.seen again: shown, and swept at once
\* if its deadline has passed.
Show(i) ==
    LET held == Pushed(rows, {Row(i, relay)}) IN
    /\ i \in arriving
    /\ arriving' = arriving \ {i}
    /\ maxId' = Larger(maxId, i)
    /\ IF Expired(Row(i, relay))
       THEN Sweep(held) /\ seen' = SeenAfter(seen \cup {i}, held)
       ELSE rows' = held /\ seen' = seen \cup {i} /\ UNCHANGED <<urls, overtaken>>
    /\ UNCHANGED <<relayVars, relay, detached, reveals, backup, notes>>

\* The same for a conversation object that is no longer in state.convos: the
\* key is added, and nobody sees the message.
ShowDetached(i) ==
    /\ i \in detached
    /\ detached' = detached \ {i}
    /\ seen' = seen \cup {i}
    /\ dropped' = dropped \cup {i}
    /\ UNCHANGED <<relayVars, relay, rows, maxId, arriving, imageVars, backup, taken, away, raced>>

-----------------------------------------------------------------------------
(* Leaving, coming back, reloading.                                        *)

\* gi-leave, or a "members" event and a 404: the conversation is deleted, its
\* keys stay in state.seen.
Drop ==
    /\ member[relay]
    /\ member' = [member EXCEPT ![relay] = FALSE]
    /\ rows' = EmptyBag /\ maxId' = 0
    /\ detached' = detached \cup arriving /\ arriving' = {}
    /\ dropped' = dropped \cup seen
    /\ UNCHANGED <<last, expired, relay, seen, imageVars, backup, taken, away, raced>>

\* The user is added again; ensureGroupConvo makes a new conversation.
Rejoin ==
    /\ ~member[relay]
    /\ member' = [member EXCEPT ![relay] = TRUE]
    /\ UNCHANGED <<last, expired, pageVars, arriving, detached, imageVars, backup, notes>>

\* loadGroup, when the user opens the conversation: a push under way is not in
\* state.seen, and its envelope is in the page as well.
Load ==
    LET page == Stored(relay, maxId) \ seen IN
    /\ member[relay] /\ page # {}
    /\ rows' = Pushed(rows, {Row(i, relay) : i \in page})
    /\ seen' = seen \cup page
    /\ maxId' = CHOOSE i \in page \cup {maxId} : \A j \in page \cup {maxId} : j <= i
    /\ away' = away \ page
    /\ raced' = raced \cup (page \cap arriving)
    /\ UNCHANGED <<relayVars, relay, arriving, detached, imageVars, backup, taken, dropped>>

\* Mutant of Reload: the cursor of the last page survives.
MutantReloadKeepsCursor(r) ==
    LET page == IF member[r] THEN Stored(r, 0) ELSE {} IN
    /\ relay' = r
    /\ rows' = SetToBag({Row(i, r) : i \in page}) /\ seen' = page
    /\ maxId' = maxId
    /\ arriving' = {} /\ detached' = {}
    /\ reveals' = [i \in Ids |-> 0] /\ urls' = {} /\ overtaken' = {}
    /\ taken' = {} /\ dropped' = {} /\ away' = 1..last[r] \ page /\ raced' = {}
    /\ UNCHANGED <<relayVars, backup>>

\* The page is loaded anew, perhaps for another relay: everything but the
\* backup files goes, and bootApp loads the history.
Reload(r) ==
    LET page == IF member[r] THEN Stored(r, 0) ELSE {} IN
    /\ relay' = r
    /\ rows' = SetToBag({Row(i, r) : i \in page}) /\ seen' = page
    /\ maxId' = IF page = {} THEN 0 ELSE CHOOSE i \in page : \A j \in page : j <= i
    /\ arriving' = {} /\ detached' = {}
    /\ reveals' = [i \in Ids |-> 0] /\ urls' = {} /\ overtaken' = {}
    /\ taken' = {} /\ dropped' = {} /\ away' = 1..last[r] \ page /\ raced' = {}
    /\ UNCHANGED <<relayVars, backup>>

-----------------------------------------------------------------------------
(* Backups.                                                                *)

\* serializeConvos, makeBackup.  A restore takes the first of two messages with one
\* key, so that it does not matter how often one is in the file.
MakeBackup ==
    /\ rows # EmptyBag
    /\ backup' = {[m EXCEPT !.restored = TRUE] : m \in Listed}
    /\ UNCHANGED <<relayVars, pageVars, arriving, detached, imageVars, notes>>

\* Mutant of Merged: the keys are not looked at.
MutantMergedAll(new) == Pushed(rows, backup)

\* convo.messages with those of the backup whose keys are not in state.seen;
\* of two with one key, the first wins.
Merged(new) == Pushed(rows, new)

\* onRestoreChosen, after the password
Restore ==
    \E new \in SUBSET {m \in backup : m.id \notin seen} :
        /\ backup # NoBackup
        /\ IdsOf(new) = IdsOf(backup) \ seen
        /\ \A m, n \in new : m.id = n.id => m = n
        /\ rows' = Merged(new)
        /\ seen' = seen \cup IdsOf(new)
        /\ taken' = taken \cup IdsOf(new)
        /\ raced' = raced \cup (IdsOf(new) \cap arriving)
        /\ UNCHANGED <<relayVars, relay, maxId, arriving, detached, imageVars, backup, dropped, away>>

-----------------------------------------------------------------------------
(* Images.                                                                 *)

\* renderFile, at any rendering, or the button: revealImage fetches the file.
Reveal(i) ==
    /\ Row(i, relay) \in Listed /\ reveals[i] < MaxReveals
    /\ reveals' = [reveals EXCEPT ![i] = @ + 1]
    /\ UNCHANGED <<relayVars, pageVars, arriving, detached, urls, overtaken, backup, notes>>

\* The file is there, and a URL is created unless the message has one; or not.
Revealed(i) ==
    /\ reveals[i] > 0
    /\ reveals' = [reveals EXCEPT ![i] = @ - 1]
    /\ urls' \in {urls, urls \cup {i}}
    /\ UNCHANGED <<relayVars, pageVars, arriving, detached, overtaken, backup, notes>>

Next ==
    \/ \E r \in Relays : Post(r)
    \/ \E r \in Relays, i \in Ids : Expire(r, i)
    \/ SweepExpired
    \/ \E i \in Ids : Show(i)
    \/ \E i \in Ids : ShowDetached(i)
    \/ Drop
    \/ Rejoin
    \/ Load
    \/ \E r \in Relays : Reload(r)
    \/ MakeBackup
    \/ Restore
    \/ \E i \in Ids : Reveal(i)
    \/ \E i \in Ids : Revealed(i)

Spec == Init /\ [][Next]_vars

-----------------------------------------------------------------------------
(* Properties.                                                             *)

(* Type invariant.  The key of every message held is in state.seen, unless  *)
(* it came in two ways at once and one of the two was swept.                *)
TypeOK ==
    /\ last \in [Relays -> 0..MaxId] /\ expired \subseteq Ephemeral
    /\ member \in [Relays -> BOOLEAN] /\ relay \in Relays
    /\ IsABag(rows) /\ Listed \subseteq Rows
    /\ seen \subseteq Ids /\ IdsOf(Listed) \subseteq seen \cup raced
    /\ maxId \in 0..last[relay]
    /\ arriving \subseteq 1..last[relay] /\ detached \subseteq 1..last[relay]
    /\ reveals \in [Ids -> 0..MaxReveals] /\ urls \subseteq Ids /\ backup \subseteq Rows /\ raced \subseteq Ids

(* While the user is in the group, every envelope its relay still has is     *)
(* shown as it was sent, or about to be - except where state.seen held its   *)
(* key for another reason: a restored message of that number, be it of       *)
(* another relay, or the conversation that was left; and except what was     *)
(* posted while the user was out of the group.                               *)
ShownAsSent ==
    member[relay] =>
        \A i \in Stored(relay, 0) :
            Row(i, relay) \in Listed
                \/ i \in arriving \cup detached \cup taken \cup dropped \cup away

(* "Restored messages are merged into this device's history": no number is   *)
(* listed twice, be it by a page, a restore or a push - unless the message   *)
(* was restored, or came with a page, during the awaits of its ingestion     *)
(* from a push, which checks state.seen before them only.                    *)
MergedOnce ==
    \A m, n \in Listed : m.id = n.id => (m = n /\ rows[m] = 1) \/ m.id \in raced

\* Both: each envelope is shown as it was sent, and once unless it came two ways
\* at a time.
ShownOnceAsSent == ShownAsSent /\ MergedOnce

(* The same words: after a restore every number of the backup is held - by    *)
(* the message backed up, also when it has expired since, or by one of the    *)
(* relay in use that has the same number - except in a conversation that was  *)
(* left, whose keys stayed behind.                                            *)
RestoreBringsBack ==
    [][Restore => IdsOf(backup) \subseteq IdsOf(Listed') \cup dropped]_vars

(* releaseObjectUrls: the object URL of an image goes with its message.  It  *)
(* stays when the conversation is dropped, and when the sweep comes while    *)
(* the image is being decrypted.                                             *)
UrlsGoWithMessages ==
    urls \subseteq {i \in Ids : Row(i, relay) \in Listed} \cup dropped \cup overtaken
=============================================================================
