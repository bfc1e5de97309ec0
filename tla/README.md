# Lattix: a TLA+ project

Lattix is an end-to-end encrypted messenger: a relay (Python, FastAPI, one
SQLite file) that stores opaque envelopes and pushes them over WebSockets, and a
browser client (plain JavaScript) that holds the keys. This directory models
both, checks the models with TLC and proves theorems about them with TLAPS.

## Inventory

Part | State | Operations | What is hard
--- | --- | --- | ---
Accounts and groups (`server/database.py`, `server/main.py`) | tables `users`, `groups`, `group_members`; the shared connection's open transaction | register, delete account, create group, add and remove member | handlers make several separately locked database calls; `delete_user`, `register` and the sweep run in threads; a failed statement leaves a transaction open; restarts
File blobs and disappearing messages (`database.py`) | tables `files`, `envelopes.file_id`, deadlines | upload, send file, sweep expired, sweep orphans, download | the blob is uploaded before the message that names it; the sweeps run in a thread
Sessions (`main.py`) | `_tokens` (in memory) | login, logout, token check, account deletion | a login that hashes while the account is deleted; restart forgets all tokens
Delivery (`ConnectionManager`; `app.js` history, resync, ingestion) | table `envelopes`; sockets; `state.seen`, `convo.maxId`, `convo.messages` | store, push, pull history, resync after reconnect, ingest, sweep | ingestion awaits between its dedup check and its effect; pushes, sends and up to three pulls overlap; pushes are lost when the socket is down
Relay connection (`api.js`) | `token`, `ws`, `_gen`, `_retry`, `_reauthing` | requests with retries, open, close, reconnect, re-login, logout | callbacks of abandoned sockets; timers; single-flight re-login against logout
Key trust (`app.js`) | `peers`, `pins`, `keyAlerts`, dialogs | adopt keys, show, verify and accept a code, follow a share link, hold sending back | keys change while a code is computed, shown, or a file is read
Composer and drafts (`app.js`) | the text box, drafts, `state.current`, `_composerBusy` | type, send, fail, switch conversation, attach | one box for all conversations; sends end later, in any order
Accounts on the device (`app.js`) | the vault in `localStorage`, the relay in use | create, unlock, import, enrol, reseal, export, switch relay, delete all | several tabs share the store; answers get lost after they took effect
What a tab holds (`app.js`) | `state.seen`, `convo.messages`, object URLs | backup, restore, sweep, leave and rejoin, change relay, reveal images | ids mean different envelopes on different relays; a sweep during a decryption
Cryptography (`crypto.js`) | none | encrypt, sign, wrap, open; vault and backup | two file formats; what a signature covers
QR codes (`qr.js`) | none | encode a text | tables, interleaving, penalties at boundaries
Relay address and appearance (`config.js`, `theme.js`, `preload.js`) | `localStorage` | normalise, store and use an address; resolve a theme | two implementations of one rule
Presence (`ConnectionManager`; `onPresence`) | `active`, each client's `state.online` | connect, disconnect, fan-out, snapshot | fan-outs await between peers; several tabs of one user; a message makes contacts of two who are online already
Rate limiter (`main.py`) | `_rate_buckets` | check, prune | pool threads share the map
Rendering, sound, service worker; validation and static files; launcher, installers, deployment; tests and documentation | | | no state that steps of two actors share

How they interact: the client calls the relay over HTTP and receives envelopes,
group events and presence over one WebSocket per tab. Inside the relay the event
loop runs `async def` handlers, which give way only at an `await`; `def` handlers,
`delete_user` and the sweep run in a thread pool; all of them share one SQLite
connection under one lock that is held for one database function at a time. A tab
is single-threaded JavaScript: a callback runs to its next `await`. Tabs of one
browser share `localStorage` and nothing else.

## Plan

Done, in this order: the relay (`GroupRelay`, shown to implement the abstract
`GroupService`; `FileRelay`, shown to implement `Attachments`; `Sessions`, `Presence`), what arrives
at a tab (`Delivery`), the client's connection (`ApiClient`, shown to implement
`Connection`), its components (`KeyTrust`, `Composer`, `Account`, `History`), and its
pure parts (`QrCode`, `Envelope`, `RelayUrl`, compared with references in `Codecs`).
Most have a module of proofs, named after them; `AccessProofs` is about `Sessions`,
`Account` and `Presence`, `TrustProofs` about `KeyTrust` and `Codecs` with its operators.

Left, by what it would add:

1. Group conversations in `Delivery`: `ingestGroup` and `loadGroup` follow the code
   path of 1:1 conversations, but a group's members come and go.
2. `RateLimit`: the sliding windows of `_rate_buckets`, shared by pool threads and pruned
   while in use.

Each component has one `MC` module, with a `.cfg` for each run (`Presence` shares that of
`Sessions`). A run asks all properties of a component
at once; two runs expect a violation, each of a sentence in the code's own comments.

## GroupRelay

`db` is what the shared connection reads, `disk` the last commit. A database
function is one step, because it holds `database._lock` from its first statement
to its commit. A request handler on the event loop is a frame `loop` whose `pc`
names its next database call; nothing else runs on the loop in the meantime
(none of these handlers awaits before its last database call), but threads do:
`DeleteUser` (`asyncio.to_thread`), `RegisterCheck` and `CreateUser` (the two
halves of `register`, between which the secret is hashed) and `OtherCommit` (the
sweep, an avatar). `Crash` is a stop and a restart from `disk`.

A statement that raises leaves the implicit transaction of the sqlite3 module
open (`open`): the rows written before it stay visible, and the next commit keeps
them. Only `delete_user` rolls back, and only because its own `BEGIN` fails.

Run | Shows
--- | ---
`groups` | type invariant; `StrandedOnlyByATear`: a group gets an owner who is not in it only by one of five steps (`Tears`); `ImplementsService`: each step is on the tables one whole operation of `GroupService`, or none

Bounds: three users and one group id, two registration threads. Three users are
what a succession needs (leaver, successor, and one who stays); the clock has two
readings, so members may join at the same one, which is when the username decides
the order. An id that a rollback frees is handed out again, also with one id. A
second group next to the first is covered by the proofs, which have no bounds.

`GroupService` is what the clients may rely on: accounts, the owner and the members of
each group, and which groups outlast a restart (`kept`). The refinement maps them to
`db` and the live groups of `disk`. It says, of all that threads, failed statements and
restarts do between the calls of the handlers: what became visible is durable, except
that a group which could be formed only in part is kept by a later commit or forgotten
(`Form`, `Settle`, `Forget`); somebody who is added joins behind those who are there;
a group passes from an owner who has left to the eldest member, never away from an
owner who is still in it (`HandOver`, `Close`). Two weaknesses of the code show in it:
`HandOver` may name somebody who has left in the meantime, and the two commits of
`remove_member` are two operations, between which the owner is not a member.

Proved (`GroupRelayProofs`), for every set of users and all bounds: `TypeCorrect`,
`NothingCommittedIsLost` (what a rollback or a restart takes back is only the rows of
`create_group` calls that failed), `GroupsOutliveTheirOwners` (`DroppedOnlyWhenEmpty`: a
committed group disappears only together with the accounts of all its members, which the
run has as a part of the refinement), `TearsAreComplete` and
the refinement, `Implements`. The assumptions are the two of the module: usernames are
positive numbers (0 stands for "no row") and the bounds are natural numbers.

The first four rest on one inductive invariant, `IndInv` (theorem `Invariance`): types;
members and owners of a live group are accounts; a group that is not live has no
members; without an open transaction `db` equals `disk`, and with one they agree on
accounts and on every committed group; and what the frame of a handler at a given call
knows (an owner or a target that was read, a successor that was an account). The
agreement is needed because a rollback would otherwise be able to undo anything; the
facts about the frame are needed for the steps that act on an earlier read.

The refinement needs more (`ServiceInv`, lemma `ServiceInvariance`), because
`SetGroupOwner` acts on a successor read earlier while `DeleteUser` runs in a thread:
nobody joined later than now (`Stamped`, so newcomers are last); a group whose owner is
not the one `remove_member` read was inherited since, by its eldest member
(`OwnerKnown`); and a successor who is still in the group is the eldest, with no other
owner in it (`SuccessorKnown`). A step that is not the handler's own can change its group
in three ways (`Fate`: it loses members who are not the owner, is inherited by the eldest
of those left, or goes), and each of them keeps those facts.

## FileRelay

`owner` is table `files` (`NoUser`: no such row), `envs` the rows of `envelopes`
and `group_envelopes` that name a file; their ids come from one counter, since
nothing here compares ids of the two tables. `loop` is the handler on the event
loop: `SendFile` starts `send_file_message` or `send_group_file`, whose database
calls are `UserExists` or `GroupMember`, `FileOwnedBy` and `StoreEnvelope`; a
check that fails ends it (404). `Upload` is one step: its chunks are read before
its only database call. Threads are `DeleteUser`, `Register`, `DeleteExpired` and
`DeleteOrphanFiles`, the last two in turn (`sweep`). Time is `ComesDue` and
`GrowsOld`. There is one group; `Leave` and `Join` are its membership changes,
whose own interleavings are in `GroupRelay`.

Run | Shows
--- | ---
`files` | type invariant; `SenderOwnsBlob`: a stored message names only a blob of its sender, also when names are deleted and registered anew; `KeepsAttachments`: each step is one operation of `Attachments`, or none; `NothingLingers`: each blob comes to be gone, or named by a message not yet past its deadline, again and again

Bounds: one blob and two messages are the smallest instance with a blob that two
messages share, one of them with a deadline and one without, to a user or to the
group; a file id is never handed out twice, so a second blob would only stand next
to the first. Two users are an owner and another.

Fairness (`FairSpec`): deadlines pass and blobs grow old (time goes on), and the two
sweeps run (`_sweep_loop` repeats for ever and swallows exceptions; they are taken
to succeed). Nothing is assumed of users. A relay restarted between any two sweeps
would never reach `delete_orphan_files`, so restarts are assumed to end.

`Attachments` is what a sender may rely on. A letter stays until it is due, or until its
sender, its recipient or the last member of its group goes, and then it is gone at once
(`Change` gives the letters that are left by what is left of accounts and members alone).
The blob it names stays as long as any letter names it; only a blob that nobody names may
be cleared, and only if it is old or its letter expired. At a `Post`, sender and recipient
are there in that moment, and the blob is the sender's or already gone - although the
handler looked three calls earlier, with deletions, registrations and the sweeps in
between: it is `INSERT`'s foreign keys (`StoreEnvelope`'s guard) that make up for the
first, and that ids of files are used once for the second. The mapping is plain: `spent`
is the complement of `fresh`, and what only the handler knows (`loop`, `sweep`) is not seen.

Proved (`FileRelayProofs`), for all sets of names and file ids and any number of
messages, from the module's assumption (`NoUser` and `Group` are no usernames):
`TypeCorrect`, `MessagesNameOwnBlobs`, `StoredMessagesKeepBlobs` (a message that stays keeps
its blob) and `ImplementsAttachments` (`KeepsAttachments`). The invariant
`IndInv` adds to `TypeOK` and `SenderOwnsBlob` that a handler about to store a
message holds a file id that was handed out and whose blob, if still there, is its
sender's (`FrameKnown`), and that no stored message names an id still to be handed
out (`EnvsUsed`): without them an upload could give a blob to a message that is not
its uploader's. Most steps only take rows away (`Takes`), which one lemma covers.
The third theorem needs the second: `delete_user` deletes the account's files and
its messages, and a message that remains is not from the account, so its blob is
not the account's. The refinement needs besides that the ends of every message are there:
sender and recipient have accounts, a message to the group has a member to read it
(`EnvEnds`). Without it `Change` would drop messages that `delete_user` leaves. One lemma
per kind of step (`UploadKept`, `StoreKept`, `ChangeKept`, `SweepKept`, `TimeKept`) names
the operation it is.

## Sessions

`tokens` is `_tokens`, `sockets` the sockets registered in
`ConnectionManager.active`. Both name an account by its username; the model also
numbers the accounts (`account`, `born`) and records in each session which one it
was opened for (`of`) and whether that was gone when the token was issued (`late`):
history information that only properties read. `work[t]` is a pool thread inside
`register` or `login`, between its database read, its `INSERT` and `_issue_token`;
`deletes[d]` is a `delete_account` waiting for `delete_user` in a thread, or about
to purge. The purge of tokens and sockets is one step, because `close_user` takes
the sockets from `active` before its first `await`.

Run | Shows
--- | ---
`sessions` | type invariant (no token and no account number twice); `OrphansAreLate`: a session of a deleted account that nobody is about to end was issued after the account had gone (such late sessions do occur: a login that hashes while the account is deleted)

Bounds: two pool threads and two deletions, since the second deletion of one name
may purge sessions of the first; three accounts, so that a name can be registered
again, and three tokens. The counters end the runs, so deadlock is not checked.

Proved (`AccessProofs`), for all sets of names, threads and requests and all
bounds: `TypeCorrect` and `OnlyLateSessionsOutliveAccounts`, from the one assumption
of the module (`NoUser` is no username, the bounds are natural numbers). The
inductive invariant `IndInv` adds to the two properties that a thread about to
issue a token holds the number of an account already registered
(`IssuesKnown`), that every session belongs to such an account (`SessionsKnown`)
and that a deletion under way has a name (`DeletesKnown`). The first two are needed
because a registration numbers its account `born + 1`: were a session around with
that number, it would cease or begin to belong to a living account.

## Presence

`active` is `ConnectionManager.active`, `up` the connections whose client is still there,
`dots[c]` the `state.online` of the client behind connection `c`, `contacts` what
`list_contacts` reads. `doing[t]` is a `websocket_endpoint`, one per connection, or a
request that sends a message or deletes an account: whom it is talking of (`about`), which
names (`todo`) and which of the connections of the present one (`to`) it has still to tell.
Each frame is a step, since `send_json` awaits; `NextPeer` reads a peer's connections, as
`_send_to` copies the set. A frame to a client that is gone is lost, or fails and takes
the connection out of `active` (`TellFails`). `Greets`, `LooksRound`, `Leaves` are
`presence(True)`, the snapshot and the `finally` of the handler; `Looks` is `deliver`, which
tells the two ends of a message of each other; `ClosesUser` is `close_user`.

The rounds look first and tell later, so a dot may be wrong for a while. `DotsTell` says
that then somebody is about to put it right: a task that will tell this client, or the
client's own snapshot. What it excepts is recorded in `stray`, history that no step reads,
and goes when the client is told anew: a frame that was overtaken (`late`: what is told was
true when the task looked and is not any more), a dot of a name that is no contact when it
is shown, and the dots of those who cease to be contacts, whom nobody tells of each other
from then on. The last does not excuse `delete_account`, which has read the contacts
beforehand for that very purpose (`knew`).

Run | Shows
--- | ---
`sessions` | `DotsTell`, in the same run as the properties of `Sessions`: the initial state chooses what a behaviour is about (`focus`)

Bounds: two names, one of them with two tabs and no request (`focus` "tabs"), or each with
one tab and one request at a time ("requests"). Two tabs of one name are what `is_online`
is about, and with one of the other name each frame of a round has a receiver. A request
beside the handlers is what makes contacts, or ends them, in the middle of a round.

Proved (`AccessProofs`), for any names, connections and requests, from
`PresenceAssumption` (each connection is one name's): `PresenceTypeCorrect` and
`WrongDotsArePutRight` (`DotsTell`). `DotsTell` is not inductive alone, since it speaks of
clients that are there and of frames as they are. `PresenceInd` has: which frames a handler
and a request may be at (`FramesFit`); that the handler of a registered connection has not
come to its end (`ActiveServed`), so that the last one will find out that it is; that what
a task tells is true unless it is marked `late` (`LatesKnown`); that a dot is a contact's,
or one whom `delete_account` is going to tell (`DotsOfContacts`); and the two halves of the
property (`GoneTold`, `HereTold`), the second for each single connection of the one who is
there: it has been told of, or its own handler or a request still will. Said of the name only, it would not survive the end of one of two tabs.

## Delivery

One conversation and one tab. The relay's side is `last` (envelopes `1..last` are
stored), `expired`, `outbox` (stored, not yet pushed by `deliver`), `wire` and
`link`. The tab's side is `seen`, `maxId` and `copies` (how often
`convo.messages` holds an envelope), plus what is suspended at an `await`:
`pushed` and `own` are ingestions past the dedup check, `pull[p]` is a
`pullHistory` with its cursor, its page and the envelope at hand. An ingestion is
two steps, the dedup check and the insertion; everything else of it happens
without giving way. `failed` and `hidden` record, for the properties only, whose
key lookup failed and what was set aside while its sender was blocked and has not
been shown since.

Run | Shows
--- | ---
`delivery` | type invariant; `SeenWhenShown`: dedup keys and messages appear and disappear together; `PullLeavesNoGap`: a pull that ends regularly has dealt with every envelope from its first cursor to the last one stored when its last page was read
`reconnect_loss` (violation) | own sends or live pushes raise `maxId` past what was missed, so the resync skips it, against the comment at `app.js:774`

Bounds: two envelopes in pages of one make a pull of up to three requests, the
last of them empty. One lost connection gives one resync. Each of the steps that
may overlap can do so with two envelopes. Frames are delivered in any order,
since `deliver` of two requests may interleave at its awaits. The variable `opens`
never changes and splits the behaviours in two, to keep the run small: in one half
the user opens the conversation and blocks and unblocks the peer, and only the
peer sends; in the other the socket is lost, envelopes expire and everyone sends.
The violation run uses `CalmSpec`: no request fails and nothing is sent while the
tab boots, so its trace is not about errors the client reports.

No deadlock check in `Delivery`: a tab with nothing to do, all envelopes stored,
may rest.

Proved (`DeliveryProofs`), for any number of envelopes, any page size, any set of
disappearing envelopes and any number of lost sockets, from `DeliveryAssumption`:
`TypeCorrect`, `KeysFollowMessages` (that is, `SeenWhenShown`) and `PullsLeaveNoGap`. The
invariant adds `KeysFollow` (what was set aside is not on the screen, or a sweep would
forget its key), `PullsWell` (pages only while a pull is at them, no cursor past what is
stored) and `Covered`: whatever lies between a pull's first cursor and the point it has
reached is dealt with, in its page or at hand. That point is the cursor, except on a short
page, where it is the newest envelope of the time the page was read. So much follows from
`ORDER BY id LIMIT k` by two lemmas: a page holds everything asked for up to its greatest
id (`FirstOfClosed`), and a page of fewer than `k` holds everything (`FirstOfShort`).

## Connection and ApiClient

`Connection` is what the app relies on when it uses `LattixApi`: "status" events
tell the state of the link (`told` against `link`), a call is answered only if the
relay carried it out, and a call that changes something is carried out at most
once. `ApiClient` is `api.js` itself. `sock` is `this.ws`, `asks` the calls of
`_openSocket` that await `health()` (the newest generation and older ones),
`pinged`, `probing` and `retry` the timers, `login` and `waits` the single-flight
re-login and the closed socket that waits for it, `calls[c]` the frame of a `_req`,
`out` that of `logout`. The relay is `kind` (before or after 2.1), `valid` tokens and
`known` (the account exists). Refinement: `link` is "up" when `connected`, "trying"
when there is a socket, else "down"; a call is pending until `_req` returns.

Run | Shows
--- | ---
`connection` | type invariant; `KeepsPromise`: `ApiClient` implements `Connection`; `LogoutIsFinal`: signed out with no re-login under way, nothing opens a socket or brings a token back; `Reconnects`: a tab that wants its socket gets it, or hears that its session was rejected, or is at an older relay that never says so (`Unheard`); `CallsEnd`: every request ends

A relay before 2.1 closes the socket of a token it does not know before it accepts it, and
the browser reports 1006 as for any lost socket (`main.py:723-726`), so `SocketOpens` leads
to "lost" and only the reconnect timer is armed: the tab dials with the dead token until a
request of the app is answered 401 and signs in again. `Unheard` is that case, and without
it TLC finds `Reconnects` violated there. `Restart` takes the relay's tokens and sockets;
`AccountGoes` is `delete_account` from another device, which closes ready sockets with 4401
(what an older relay does then is not known, and its sockets stay).

Bounds: a GET and a POST, relays of both generations, any three events from
outside (requests, losses, restarts, lapses, silence, clicks, waking up). Three are
what it takes to lose a socket, refuse the token and lose the re-login. Delays are
left out: a timer may fire when it is set, but one that fires although the relay
would have answered counts as such an event. Handlers of an abandoned socket can
do nothing (`_openSocket` takes them off), so only the current one is kept.

Fairness: requests are answered or fail (`fetch` has a timeout), timers that are set
fire, a relay that is there answers, a live socket delivers pongs. Nothing is
assumed of failures, of the user or of the browser's events. The events being
finitely many, the network is quiet in the end; while it is not, `Reconnects`
cannot hold of any client.

No deadlock check: the bound on events ends a run.

Proved (`ApiClientProofs`), for any finite set of calls, any reads among them and any bounds, from
`ApiAssumption`: `TypeCorrect`, `LogoutHolds` (`LogoutIsFinal`) and
`ImplementsConnection` (`KeepsPromise`): the initial states are those of `Connection`, and
every step is one of its steps or a stutter. The invariant adds `Linked` (no link without a
socket that opened, no socket before the relay's features are known or once logout has
taken the token) and `RunsFirst` (a request is answered after it has run; one that changes
something has not run when it is about to go out): without the first the client could
report a link it does not have, without the second a re-login or a retry could run a
request twice. `Reconnects` and `CallsEnd` are left to TLC.

## KeyTrust

`peers`, `meta`, `pins` and `alerts` are `state.peers`, the keys in a group's
`meta.members`, `state.pins` and `state.keyAlerts`. A key record and its code are one
number. `task[t]` is whatever fetches keys: opening or refreshing a conversation,
reviewing a code, a share link, sending a text, sending a file. Between the answer of
the relay and `Adopt` lies the computation of the code; between `CheckFile` and
`SendFile`, `file.arrayBuffer()`. `dialog` is the safety-code dialog with the code
it shows, `accepting` the question of the banner. The relay is not trusted: it
serves any keys at any time.

Run | Shows
--- | ---
`trust` | type invariant; `KeysInUseAreKnown`: a key in use is pinned or questioned; `BannerTells`: what the banner offers to accept is the key in use; `TextsAreHeld`: a text is encrypted for pinned, unquestioned keys; `OnlyTheUserUnverifies`
`file_to_questioned_key` (violation) | a file may be encrypted to a key the user was warned about while it was read, against the comment at `app.js:1773`

The exception of the first and third, `overtaken`, is in the code: `setVerified` and
`acceptNewKey` settle the code that was shown, also when another key has come into
use meanwhile.

Bounds: one contact, alone and in a group; a second contact's pins, alerts and keys
are independent of the first one's, but for group loads, which the model adopts one by
one. Three keys in turn are what it takes to replace an alert's key by a third, two tasks
at a time what it takes to overtake one by another.

Proved (`TrustProofs`), for any contacts, any number of keys in turn and of tasks at a
time, from `TrustAssumption`: all five properties of `trust` (`TypeCorrect`,
`UsedKeysAreKnown`, `BannersTell`, `TextsAreForKnownKeys`, `OnlyTheUserDoes`). The
properties are not inductive alone. `TasksCover` adds that a task which has adopted all it
fetched finds a key in use for everybody it is about: without it a link, a dialog or a
text could settle or use the missing code 0. `PinsWhole` (no confirmation without a code),
`AlertsWhole` (what a banner offers is a code) and `DialogKnown` (so is what the dialog
shows) keep the steps of the user from pinning it. `Adopt` is the step where all parts
meet: `Pinned` and `Alerted` both look at the pin before it.

## Composer

`box` is the text box (a set of texts: order within the box is left out), `draft` the
drafts in `localStorage`, `timer` the debounce of `lattix.draft.*`, `sends` the texts on
their way with the conversation `sendCurrent` closed over, `file` and `busy` the file
sends and `_composerBusy`, `button` whether the send button is enabled. `home` and
`late` are history. `Select`, `Back`, `Block`, `Leave` and `Reload` are the ways to leave a
conversation; they treat the draft differently, as the code does.

Run | Shows
--- | ---
`composer` | type invariant; `CanSend`: the button tells whether there is something to send; `EachInItsPlace`: drafts and box belong to their conversation, as long as sends end where they began; `KeepsTexts`: no text is lost but in the three ways the property names

Bounds: a contact and a group, two texts, two files (two of each are what it takes for
two sends to end in the other order, and for a file to end while another goes on); after
a send has ended elsewhere, no file is sent any more (`FilesBeforeLate`, a constraint):
from there on `EachInItsPlace` says nothing and `CanSend` depends on the box and on the
files alone, whose interplay the states before cover. Texts and files are symmetric.

Proved (`ComposerProofs`), for any contacts, groups, texts and files, without that bound,
from `ComposerAssumption`: all four properties (`TypeCorrect`, `ButtonTells`,
`TextsStayInTheirPlace`, `TextsAreKept`). `EachInItsPlace` is inductive only together with
`ApartWhileInTime`: no text is in two sends, and the draft of a conversation that is not
open holds nothing that is on its way. `KeepsTexts` rests on `DraftShown`, which holds in
any order of sends: what the open conversation's draft holds beyond the box is done with
or on its way, so the debounce that overwrites it loses nothing.

## Account

`vault`, `weak` and `server` are `localStorage`, shared by `tab[t]`, each the form the
user is at (`st`, `flow`) with the identity in memory. `holder[r]` is the identity relay
`r` knows under the username. A request whose answer is lost may have taken effect
(`Registers`). `weak` marks what an older version sealed, `Reseal` is `upgradeVault`.
`forfeit` records identities whose keys the user gave up, or lost in one of the ways the
property names.

Run | Shows
--- | ---
`account` | type invariant with: only the old vault is weak; `KeysAreSomewhere`: no relay knows an identity whose keys are neither in the vault, nor exported, nor about to be stored - but for a warning accepted, a registration cut off before `storeVault`, or an overwriting by an import or another tab

Bounds: two tabs (one may overwrite what the other stored), two relays, one old
identity and two new ones.

Proved (`AccessProofs`), for any tabs, relays and number of identities, from
`AccountAssumption` (the default relay is one of the relays; there is room for the one
old identity): `Typing` (`AccountTypeOK`) and `KeysKept` (`KeysAreSomewhere`). The second is
not inductive alone: it says nothing of a form that is about to register. `FormsOK` adds what
a form knows at each stage: `Fits`, that stages go with flows and only the old identity is
sealed anew; `Backed`, that an identity which was unlocked or imported is still in the vault
or in a file unless it is in `forfeit`, and that the vault a new identity will replace was
given up. `Fits` is also what makes the last conjunct of the type invariant inductive:
without it a new identity could be sealed as if it were weak. Every step either moves one
form (`FormMoves`) or changes the vault, and then the other forms stay backed, since what
it overwrites goes into `forfeit`.

## History

`rows`, `seen` and `maxId` are one group conversation's `convo.messages`, `state.seen`
and `convo.maxId`. `rows` is a bag: `pushMessage` does not look at `state.seen` again, so
an envelope whose push is being ingested is listed twice when a page or a restore brings
its number meanwhile (`raced`). `arriving` are ingestions past the dedup check, `detached` those whose
conversation object is gone; `reveals` and `urls` are `revealImage` and the object URLs;
`backup` is the newest backup file. `Restore` merges what the backup holds and `seen`
does not; `Sweep` drops the expired with their keys and URLs. A row's `from`, the relay
that numbered it, is not in the code, which is the point: ids of two relays collide.

Run | Shows
--- | ---
`history` | type invariant; `ShownOnceAsSent`: every stored envelope is shown as it was sent unless its number was taken, and no number is listed twice unless a page or a restore overtook the ingestion of its push; `UrlsGoWithMessages`; `RestoreBringsBack`: after a restore every number of the backup is held

Bounds: two relays with two envelopes each, the first of which disappears; one
decryption per image at a time. Delivery itself is `Delivery`'s subject, so pages are
ingested in one step and no push is lost.

Proved (`HistoryProofs`), for any relays, envelopes, disappearing ones and number of
decryptions, from `HistoryAssumption`: all four properties (`TypeCorrect`,
`EachShownAsSent`, `UrlsFollow`, `RestoresBringBack`). The invariant says what a message
held may be (`RowsKnown`: the relay's own with its key, or a restored one), what a key may
stand for (`SeenHeld`), that an ingestion under way puts nothing beside a restored copy
unless that came meanwhile (`ArrivesOnce`), and the same as `ShownAsSent` while the user is
out of the group (`NothingForgotten`). `SweepKeeps` is the step where they meet: the sweep
removes keys by number, and a number may be held twice, even by two copies of one message.

## QrCode, Envelope, RelayUrl, Codecs

The pure parts, as operators. `QrCode` is `qr.js` with a codeword as the set of its
bits (so that exclusive or is symmetric difference) and a symbol as the set of its dark
modules. `Envelope` is `crypto.js` over symbolic primitives: a ciphertext remembers
its key, iv and body, a signature its maker and its text; WebCrypto and the vendored
ML-KEM and ML-DSA are external. `RelayUrl` is `config.js` on addresses as records, and
the appearance of `theme.js` and `preload.js`: what each script sets on the root element in
a given browser (`Appearance`, `Preload`), and what is seen of it (`Painted`). In `Codecs` each state is one input, and the
invariants compare the code with a reference written from elsewhere.

Run `codecs` | Reference
--- | ---
`SymbolsRead` | a reader of QR codes, from the standard: other field arithmetic, other reading order, syndromes of every block
`LayoutIsSound` | in all 40 versions and 4 levels, capacity equals the modules left free, every codeword of every block gets its place, and format and version words differ in enough bits
`PenaltiesAgree` | the standard's definition of runs and finder-like patterns, on lines of 21 and 25 modules
`ContentIsAuthentic` | who wrote what: payloads put together from two others, moved between conversations, or stripped to the first file format, and downloads of other bytes
`VaultsOpen` | which work factors are accepted, and which vaults are sealed anew
`PastedUrlsAgree` | the address of any endpoint of a relay leads to that relay
`PaintsOnce` | `preload.js` paints what `theme.js` will, in browsers whose store is open, full or unreadable, with and without `matchMedia`, whatever is stored; where it fails as a whole, the palette still agrees

Bounds: texts of one block, of two and of four of two lengths, at the capacity of a
version and one past it; three persons; paths of up to three segments. No deadlock check: each
input is one step.

Proved (`TrustProofs`), about the operators and so for every input, not only for those the
run enumerates:

- `MessagesAreAuthentic`, `DownloadsAreAuthentic`, `MetadataIsAuthentic`: if a payload -
  any value at all - carries a signature that was made for some message or file and opens,
  then it opens as that message or file, for its sender, its context and a recipient.
  They rest on `TranscriptsDiffer` (a transcript tells its fields and the wrapped keys) and
  `OpensAlike` (with the keys of a transcript goes what they open). The primitives being
  symbolic, that nobody else can make such a signature is a hypothesis, not a result.
- `FormatsAreApart`: no signature of one format verifies under the other.
- `MessagesOpen`, `MetadataOpens`, `DownloadsOpen`: what is encrypted opens for every recipient.
- `VaultSealsOnce`: a vault sealed today opens with its password alone and is not resealed.
- `AddressesLeadBack`: the address of `PastedUrlsAgree`, of any path. Its lemmas say what
  `Trimmed` is (the longest prefix that ends in no empty segment) and that `Base` of a
  relay, of its endpoints and of its WebSocket is the relay.
- `PaintsAlike`: for any strings stored, known or not, the scripts paint alike unless
  `preload.js` fails; then the palette agrees, the accent where there is `matchMedia`, and
  the colour scheme on a dark system.

From these, for any persons, and any origins whose paths are sequences of strings
(`OriginsAssumption`): `ContentKept`, `VaultsKeptOpen`, `AddressesAgree` and `PaintedOnce`,
the invariants of the same content that `codecs` checks.

## Known behaviours of the code

What the models show of the code and no run is spent on, since a property names it as
an exception or no sentence of the code says otherwise:

- A group keeps an owner who is not in it when its owner leaves against a concurrent
  deletion of the successor's account (`StrandedOnlyByATear` lists the five steps).
- `DELETE /api/me` fails on its own `BEGIN` after a statement of another handler has
  failed (`database.py`): nothing is deleted, and the open transaction is rolled back.
- `add_member` may raise a `TypeError` after its commit, when the group's last member's
  account is deleted in between (`main.py:500`); when `delete_expired` raises, the orphan
  sweep is skipped until the next round (`main.py:191`).
- The sweep may take a blob between the check of `send_file` and its `INSERT`, so a
  message may be stored without its file.
- A login that hashes while its account is deleted gets a token (`OrphansAreLate`).
- An announcement that somebody left, overtaken by their return, leaves a dot dark until
  they leave and return once more, or the client reconnects (`main.py:677`); the other
  way round `deliver` may light one that is gone. The dot of a former contact (all of
  whose messages have expired) stays as it was (`stray` in `Presence`).
- The first connection resyncs nothing, so what is stored between the history load and
  it stays unseen until something pulls.
- The echo of a tab's own send and its answer may both be shown: each looks at
  `state.seen` before the other's await ends. In the same way a push and a page, or a push
  and a restore, list a message twice (`raced`): `pushMessage` does not check again. If one
  of the two is then swept, the key goes with it, and a restore can add a third copy.
- A tab at a relay before 2.1 that has forgotten its token dials with it until a request is
  answered 401 (`Unheard`).
- If `localStorage` cannot be read, or the theme is "system" and there is no `matchMedia`,
  `preload.js` sets nothing at all (`PreloadFails`): the palette is the default one as it
  will be, but on a light system controls and canvas follow the system until `theme.js`
  runs, and in the second case a stored chat colour appears only then. An unknown chat
  colour is set as it is stored (`preload.js:22`); the style sheet shows the default accent.
- An envelope received while its sender is blocked stays hidden after unblocking.
- A send that fails after its conversation was left puts its text into the box of the
  one that is open (`EachInItsPlace` excludes it with `late`). Two files can get past the
  lock together (`app.js:1845`), and the first to end opens it for both.
- An import overwrites the vault without a warning, and so does another tab's
  `storeVault` or `upgradeVault` (`Unasked`).
- Leaving a group deletes the conversation although the dialog says that messages
  already on the device stay (`app.js:2093`); its object URLs are not revoked, nor is that of
  an image swept during its decryption (`app.js:1747`).
- A restored message never disappears, its file cannot be opened, and its id hides a
  new message of another relay.
- An address `[::1]:8000` without a scheme is taken for https (`config.js:56`); a relay
  whose own path ends in `/ws` loses it when its address is entered again.
- The first file format binds name and keys, not the bytes; rows of it are shown as
  verified when that signature is right, and `decryptFile` relies on the AES-GCM tag.
- Every request reads the relay's address from `localStorage` (`config.js:107`), so a tab
  follows another tab's choice at its next request (`Use`).

## What is only model-checked, and what is not modelled

Proved are the theorems named above, in eight modules. Only model-checked are liveness
(`NothingLingers`, `Reconnects`, `CallsEnd`), which depends on fairness; the two violations;
and the three properties of QR codes (`SymbolsRead`, `LayoutIsSound`, `PenaltiesAgree`),
which compare folds over tables, texts and lines: induction over data, which the prover
cannot do.

Not modelled:

- The rate limiter of the relay: what could go wrong are races of pool threads on single
  operations of a dictionary and its deques, which lose at most an attempt from the count.
- Rendering, sound, service worker and browser-extension glue: what they show follows
  from state that other components model; the search field and the stack of modal dialogs keep
  no state beyond the page.
- Validation of requests (`models.py`) and static files: stateless. The models' inputs are
  those that pass it.
- Launcher, installers, deployment: they install and start the program.
- Tests and documentation: read as statements about the program.

Within the modelled parts: payloads, avatars and group names; reads that change nothing;
failures of statements in `FileRelay` and `Sessions` other than `delete_user`'s; the colour of
the browser's own bars (`theme-color`); delays and their lengths; the wording of errors and dialogs.
