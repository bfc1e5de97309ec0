------------------------------ MODULE Delivery ------------------------------
(***************************************************************************)
(* How the envelopes of one 1:1 conversation reach one open browser tab:   *)
(* the relay's envelope table (server/database.py), its pushes over the    *)
(* WebSocket (ConnectionManager, server/main.py) and the client's history  *)
(* paging, resync and ingestion (client/js/app.js, client/js/api.js).      *)
(*                                                                         *)
(* The tab is single-threaded JavaScript, but every `await` lets another   *)
(* callback run.  Between the dedup check of an ingestion and its          *)
(* pushMessage lie the key lookup and the decryption; between two pages of *)
(* history lies a request.  Each such segment is a step here.  What may be *)
(* in flight together: ingestions of pushed envelopes (`pushed`), of the   *)
(* answer to the tab's own sends (`own`), and three history pulls: that of *)
(* boot, that of opening the conversation and that of a reconnect.         *)
(*                                                                         *)
(* Ids are those of the conversation's envelopes; the ids other            *)
(* conversations take in between are left out, since ids are only          *)
(* compared.  Payloads, ordering on the screen, unread counts and          *)
(* notifications are left out.  A page reload is a new behaviour.          *)
(***************************************************************************)
EXTENDS Integers, FiniteSets

CONSTANTS
    MaxId,      \* bound on the envelopes of the conversation
    PageSize,   \* HISTORY_PAGE_SIZE
    Ephemeral,  \* the envelopes sent with a ttl
    MaxDrops    \* bound on the times the socket is lost

ASSUME DeliveryAssumption ==
    /\ MaxId \in Nat /\ PageSize \in Nat \ {0} /\ MaxDrops \in Nat
    /\ Ephemeral \subseteq 1..MaxId

Ids == 1..MaxId
Pullers == {"boot", "open", "resync"}

VARIABLES
    last,      \* relay: envelopes 1..last are stored
    mine,      \* relay: those of them this user sent
    expired,   \* relay and tab: those whose deadline has passed
    outbox,    \* relay: deliver() has yet to look up this user's socket
    wire,      \* pushed frames under way on the socket
    link,      \* the socket: "down", "opening" (registered, ready not seen), "up"
    ever,      \* tab: _everConnected
    drops,     \* number of times the socket was lost
    keys,      \* tab: the peer's keys are cached in state.peers
    blocked,   \* tab: the peer is in state.blocked
    seen,      \* tab: state.seen
    maxId,     \* tab: convo.maxId
    copies,    \* tab: how often convo.messages holds each envelope
    pushed,    \* tab: ingestions of pushed envelopes, past the dedup check
    reply,     \* answers to this tab's sends under way
    own,       \* tab: ingestions of those answers, past the dedup check
    pull,      \* tab: the history pulls
    failed,    \* history: envelopes whose ingestion failed for want of keys
    hidden,    \* history: envelopes set aside because their sender was blocked,
               \* and not shown by another ingestion since
    opens      \* bound on the behaviours: in some the user opens the conversation
               \* and blocks the peer, who sends; in the others the socket is
               \* lost, envelopes expire and everyone sends

relayVars  == <<last, mine, expired>>
socketVars == <<outbox, wire, link, ever, drops>>
ingestVars == <<pushed, reply, own>>
convoVars  == <<seen, maxId, copies, hidden, opens>>
vars == <<relayVars, socketVars, keys, blocked, convoVars, ingestVars, pull,
          failed>>

-----------------------------------------------------------------------------
Larger(a, b) == IF a >= b THEN a ELSE b

\* The k smallest members of S: ORDER BY id ASC LIMIT k.
FirstOf(S, k) == {i \in S : Cardinality({j \in S : j <= i}) <= k}

IsLeast(i, S) == i \in S /\ \A j \in S : i <= j

Greatest(S) == CHOOSE i \in S : \A j \in S : i >= j

\* get_conversation(since_id)
PageAfter(since) == FirstOf({i \in 1..last : i > since /\ i \notin expired}, PageSize)

(* A pull: `from` is the cursor it began with, `since` the cursor of the    *)
(* next request, `head` the last envelope stored when the latest page was   *)
(* read, `page` what is left of that page, `cur` the one being ingested.    *)
Pulls == [st : {"idle", "me", "fetch", "page", "broken"}, from : 0..MaxId, since : 0..MaxId,
          head : 0..MaxId, full : BOOLEAN, page : SUBSET Ids, cur : 0..MaxId]

NoPull == [st |-> "idle", from |-> 0, since |-> 0, head |-> 0,
           full |-> FALSE, page |-> {}, cur |-> 0]

\* bootApp opens the socket first, then asks for /api/me and loads history.
Init == /\ last \in 0..MaxId
        /\ mine \in SUBSET (1..last)
        /\ expired = {}
        /\ outbox = {} /\ wire = {} /\ link = "down" /\ ever = FALSE /\ drops = 0
        /\ keys = FALSE /\ blocked = FALSE
        /\ seen = {} /\ maxId = 0 /\ copies = [i \in Ids |-> 0]
        /\ pushed = {} /\ reply = {} /\ own = {}
        /\ pull = [p \in Pullers |-> IF p = "boot" THEN [NoPull EXCEPT !.st = "me"] ELSE NoPull]
        /\ failed = {} /\ hidden = {} /\ opens \in BOOLEAN

-----------------------------------------------------------------------------
(* The relay.                                                              *)

\* store_envelope for an envelope of the peer, of this tab (which has looked up
\* the peer's keys to encrypt it) or of another device of the user.
Store(origin) ==
    /\ last < MaxId /\ (opens => origin = "peer")
    /\ last' = last + 1
    /\ mine' = IF origin = "peer" THEN mine ELSE mine \cup {last + 1}
    /\ outbox' = outbox \cup {last + 1}
    /\ reply' = IF origin = "tab" THEN reply \cup {last + 1} ELSE reply
    /\ keys' = (keys \/ origin = "tab")
    /\ UNCHANGED <<expired, wire, link, ever, drops, blocked, convoVars,
                   pushed, own, pull, failed>>

\* _send_to: to whatever socket is registered when deliver() gets to this user
Deliver(i) ==
    /\ i \in outbox
    /\ outbox' = outbox \ {i}
    /\ wire' = IF link = "down" THEN wire ELSE wire \cup {i}
    /\ UNCHANGED <<relayVars, link, ever, drops, keys, blocked, convoVars, ingestVars, pull, failed>>

\* A deadline passes: get_conversation omits the envelope from now on.
Expire(i) ==
    /\ i \in Ephemeral \cap 1..last /\ ~opens
    /\ i \notin expired
    /\ expired' = expired \cup {i}
    /\ UNCHANGED <<last, mine, socketVars, keys, blocked, convoVars, ingestVars, pull, failed>>

-----------------------------------------------------------------------------
(* The socket.                                                             *)

\* websocket_endpoint: manager.connect, then the "ready" frame.
Connect ==
    /\ link = "down"
    /\ link' = "opening"
    /\ UNCHANGED <<relayVars, outbox, wire, ever, drops, keys, blocked, convoVars,
                   ingestVars, pull, failed>>

\* _markConnected, and resyncAfterReconnect (single-flight) unless it is the
\* first time.
Ready ==
    /\ link = "opening"
    /\ link' = "up"
    /\ ever' = TRUE
    /\ pull' = IF ever /\ pull["resync"].st = "idle"
               THEN [pull EXCEPT !["resync"] = [NoPull EXCEPT !.st = "me"]]
               ELSE pull
    /\ UNCHANGED <<relayVars, outbox, wire, drops, keys, blocked, convoVars, ingestVars, failed>>

\* Mutant of Drop: the frames of an abandoned socket are still handled.
MutantDropKeepsFrames ==
    /\ link # "down" /\ drops < MaxDrops /\ ~opens
    /\ link' = "down"
    /\ drops' = drops + 1
    /\ UNCHANGED <<relayVars, outbox, wire, ever, keys, blocked, convoVars, ingestVars, pull, failed>>

\* The connection breaks, or the relay restarts: frames under way are gone.
Drop ==
    /\ link # "down" /\ drops < MaxDrops /\ ~opens
    /\ link' = "down"
    /\ wire' = {}
    /\ drops' = drops + 1
    /\ UNCHANGED <<relayVars, outbox, ever, keys, blocked, convoVars, ingestVars, pull, failed>>

-----------------------------------------------------------------------------
(* Ingestion: ingestDm up to its first await, and from there to the end.   *)

\* sweepExpired, on given messages and dedup keys.
SweptCopies(c)  == [i \in Ids |-> IF i \in expired THEN 0 ELSE c[i]]
SweptSeen(s, c) == s \ {i \in expired : c[i] > 0}

\* pushMessage; a message already expired is swept at once.
PushMessage(i) ==
    LET c == [copies EXCEPT ![i] = @ + 1]
        s == seen \cup {i}
    IN  /\ maxId' = Larger(maxId, i)
        /\ copies' = IF i \in expired THEN SweptCopies(c) ELSE c
        /\ seen' = IF i \in expired THEN SweptSeen(s, c) ELSE s

\* The end of an ingestion: keys found (cached, or fetched now), or not.
Shows(i) == /\ PushMessage(i) /\ hidden' = hidden \ {i}
            /\ keys' = (keys \/ i \notin mine)
            /\ UNCHANGED <<failed, opens>>

KeysFail(i) == /\ i \notin mine /\ ~keys
               /\ failed' = failed \cup {i}
               /\ UNCHANGED <<convoVars, keys>>

\* Mutant of Dedup: the key is added before the awaits, not by pushMessage.
MutantDedupEarly(i, begun) ==
    /\ begun = (i \notin seen /\ ~blocked)
    /\ seen' = seen \cup {i}
    /\ hidden' = IF blocked /\ i \notin seen THEN hidden \cup {i} ELSE hidden
    /\ UNCHANGED <<maxId, copies, opens>>

\* Its beginning.  `begun` tells whether the ingestion goes on.
Dedup(i, begun) ==
    /\ begun = (i \notin seen /\ ~blocked)
    /\ seen' = IF blocked THEN seen \cup {i} ELSE seen
    /\ hidden' = IF blocked /\ i \notin seen THEN hidden \cup {i} ELSE hidden
    /\ UNCHANGED <<maxId, copies, opens>>

\* onmessage: an envelope frame arrives.
Receive(i) ==
    /\ link = "up" /\ i \in wire
    /\ wire' = wire \ {i}
    /\ \E begun \in BOOLEAN :
          Dedup(i, begun) /\ pushed' = IF begun THEN pushed \cup {i} ELSE pushed
    /\ UNCHANGED <<relayVars, outbox, link, ever, drops, keys, blocked, reply, own, pull, failed>>

ShowPushed(i) ==
    /\ i \in pushed
    /\ Shows(i) \/ KeysFail(i)
    /\ pushed' = pushed \ {i}
    /\ UNCHANGED <<relayVars, socketVars, blocked, reply, own, pull>>

\* sendCurrent resumes with the stored envelope.
Answered(i) ==
    /\ i \in reply
    /\ reply' = reply \ {i}
    /\ \E begun \in BOOLEAN :
          Dedup(i, begun) /\ own' = IF begun THEN own \cup {i} ELSE own
    /\ UNCHANGED <<relayVars, socketVars, keys, blocked, pushed, pull, failed>>

\* The answer is lost (a POST is not retried); the text returns to the composer.
AnswerLost(i) ==
    /\ i \in reply
    /\ reply' = reply \ {i}
    /\ UNCHANGED <<relayVars, socketVars, keys, blocked, convoVars, pushed, own, pull, failed>>

ShowOwn(i) ==
    /\ i \in own
    /\ Shows(i)
    /\ own' = own \ {i}
    /\ UNCHANGED <<relayVars, socketVars, blocked, pushed, reply, pull>>

-----------------------------------------------------------------------------
(* pullHistory.                                                            *)

PullOnly == UNCHANGED <<relayVars, socketVars, blocked, ingestVars>>

Begin == [NoPull EXCEPT !.st = "fetch", !.from = maxId, !.since = maxId]

\* selectConversation: the peer's keys are fetched again if they can be, then
\* loadDm starts at the newest id held.
Open ==
    /\ opens /\ pull["open"].st = "idle"
    /\ pull' = [pull EXCEPT !["open"] = Begin]
    /\ keys' \in {keys, TRUE}
    /\ PullOnly /\ UNCHANGED <<convoVars, failed>>

\* /api/me has answered, in bootApp or in resyncAfterReconnect.
GotMe(p) ==
    /\ pull[p].st = "me"
    /\ pull' = [pull EXCEPT ![p] = Begin]
    /\ PullOnly /\ UNCHANGED <<keys, convoVars, failed>>

\* A request fails after its retries: the pull is over.  If it is the /api/me
\* of bootApp, so is bootApp.
PullFails(p) ==
    /\ pull[p].st \in {"me", "fetch"}
    /\ pull' = [pull EXCEPT ![p] = IF p = "boot" /\ @.st = "me"
                                   THEN [NoPull EXCEPT !.st = "broken"] ELSE NoPull]
    /\ PullOnly /\ UNCHANGED <<keys, convoVars, failed>>

FetchPage(p) ==
    /\ pull[p].st = "fetch"
    /\ LET page == PageAfter(pull[p].since) IN
          pull' = [pull EXCEPT
             ![p] = [@ EXCEPT !.st    = "page", !.page = page, !.head = last,
                              !.full  = Cardinality(page) = PageSize,
                              !.since = IF page = {} THEN pull[p].since ELSE Greatest(page)]]
    /\ PullOnly /\ UNCHANGED <<keys, convoVars, failed>>

\* for (const env of page) await ingest(env)
IngestNext(p, i) ==
    /\ pull[p].st = "page" /\ pull[p].cur = 0 /\ IsLeast(i, pull[p].page)
    /\ \E begun \in BOOLEAN :
          /\ Dedup(i, begun)
          /\ pull' = [pull EXCEPT ![p] = [@ EXCEPT !.page = pull[p].page \ {i},
                                                   !.cur = IF begun THEN i ELSE 0]]
    /\ PullOnly /\ UNCHANGED <<keys, failed>>

ShowNext(p) ==
    /\ pull[p].cur # 0
    /\ Shows(pull[p].cur) \/ KeysFail(pull[p].cur)
    /\ pull' = [pull EXCEPT ![p] = [@ EXCEPT !.cur = 0]]
    /\ PullOnly

\* Mutant of PageDone: one call is all the client makes.
MutantPageDoneOnePage(p) ==
    /\ pull[p].st = "page" /\ pull[p].page = {} /\ pull[p].cur = 0
    /\ pull' = [pull EXCEPT ![p] = NoPull]
    /\ PullOnly /\ UNCHANGED <<keys, convoVars, failed>>

\* The page is done: a short one was the last.
PageDone(p) ==
    /\ pull[p].st = "page" /\ pull[p].page = {} /\ pull[p].cur = 0
    /\ pull' = [pull EXCEPT ![p] = IF pull[p].full THEN [@ EXCEPT !.st = "fetch"] ELSE NoPull]
    /\ PullOnly /\ UNCHANGED <<keys, convoVars, failed>>

-----------------------------------------------------------------------------
\* The timer of sweepExpired runs once bootApp has got through.
SweepExpired ==
    /\ pull["boot"].st = "idle"
    /\ copies' = SweptCopies(copies)
    /\ seen' = SweptSeen(seen, copies)
    /\ UNCHANGED <<relayVars, socketVars, keys, blocked, maxId, hidden, opens, ingestVars, pull, failed>>

\* blockUser, unblockUser
ToggleBlock ==
    /\ opens
    /\ blocked' = ~blocked
    /\ UNCHANGED <<relayVars, socketVars, keys, convoVars, ingestVars, pull, failed>>

Next ==
    \/ \E origin \in {"peer", "tab", "elsewhere"} : Store(origin)
    \/ \E i \in Ids : Deliver(i)
    \/ \E i \in Ids : Expire(i)
    \/ Connect
    \/ Ready
    \/ Drop
    \/ \E i \in Ids : Receive(i)
    \/ \E i \in Ids : ShowPushed(i)
    \/ \E i \in Ids : Answered(i)
    \/ \E i \in Ids : AnswerLost(i)
    \/ \E i \in Ids : ShowOwn(i)
    \/ Open
    \/ \E p \in Pullers : GotMe(p)
    \/ \E p \in Pullers : PullFails(p)
    \/ \E p \in Pullers : FetchPage(p)
    \/ \E p \in Pullers, i \in Ids : IngestNext(p, i)
    \/ \E p \in Pullers : ShowNext(p)
    \/ \E p \in Pullers : PageDone(p)
    \/ SweepExpired
    \/ ToggleBlock

Spec == Init /\ [][Next]_vars

-----------------------------------------------------------------------------
(* What the relay and the tab promise.                                     *)

\* Pull p, at work, will still come to envelope i, stored and not expired.
Ahead(p, i) == \/ pull[p].st = "fetch" /\ i > pull[p].since
               \/ pull[p].st = "page" /\ \/ i \in pull[p].page \cup {pull[p].cur}
                                         \/ pull[p].full /\ i > pull[p].since

Carried(i) == \/ i \in outbox \cup wire \cup pushed \cup reply \cup own
              \/ \E p \in Pullers : Ahead(p, i)

Missing(i) == i \in 1..last /\ i \notin seen \cup expired /\ ~Carried(i)

(* Type invariant.  Frames are under way only on a socket that exists: the  *)
(* handlers of an abandoned one are taken off, or check `this.ws !== ws`.   *)
TypeOK ==
    /\ last \in 0..MaxId /\ mine \subseteq 1..last /\ expired \subseteq 1..last
    /\ outbox \subseteq 1..last /\ wire \subseteq 1..last
    /\ link \in {"down", "opening", "up"} /\ (link = "down" => wire = {})
    /\ ever \in BOOLEAN /\ drops \in 0..MaxDrops
    /\ keys \in BOOLEAN /\ blocked \in BOOLEAN
    /\ seen \subseteq 1..last /\ maxId \in 0..last
    /\ copies \in [Ids -> Nat]
    /\ pushed \subseteq 1..last /\ reply \subseteq mine /\ own \subseteq mine
    /\ pull \in [Pullers -> Pulls]
    /\ failed \subseteq (1..last) \ mine /\ hidden \subseteq 1..last /\ opens \in BOOLEAN

(* pullHistory: when a pull comes to its regular end, every envelope between *)
(* the cursor it began with and the newest one its last page could have      *)
(* returned has been dealt with: held, expired, or given up for want of the  *)
(* sender's keys.  Pushes, other pulls and expiries in between make no gap.  *)
PullLeavesNoGap ==
    [][\A p \in Pullers : pull[p].st = "page" /\ pull'[p].st = "idle" =>
          \A i \in 1..last : pull[p].from < i /\ i <= pull[p].head =>
              i \in seen \cup expired \cup failed]_vars

(* ingestDm marks an envelope as seen only together with showing it, or when *)
(* its sender is blocked at that moment, and the sweep forgets it with the   *)
(* message: an ingestion that failed can be repeated, and a swept envelope   *)
(* leaves no key behind, however ingestions, sweeps and blocking interleave. *)
SeenWhenShown == seen = {i \in Ids : copies[i] > 0} \cup hidden

\* Nothing fails but an established socket, and nothing is sent while the tab
\* boots.
Calm == /\ \A p \in Pullers : ~PullFails(p)
        /\ \A i \in Ids : ~AnswerLost(i)
        /\ failed' = failed
        /\ drops' # drops => link = "up"
        /\ last' # last => pull["boot"].st = "idle"

CalmSpec == Init /\ ~opens /\ [][Next /\ Calm]_vars

(* The comment of resyncAfterReconnect: everything newer than what the tab   *)
(* holds is pulled, "so a proxy hiccup or a relay restart never silently     *)
(* loses messages".  A missing envelope behind maxId is lost until the page  *)
(* is loaded again, since every later pull starts at maxId.                  *)
NeverSilentlyLoses ==
    link = "up" /\ drops > 0 /\ (\A p \in Pullers : pull[p].st = "idle")
        => \A i \in Ids : i < maxId => ~Missing(i)
=============================================================================
