------------------------------ MODULE ApiClient ------------------------------
(***************************************************************************)
(* LattixApi (client/js/api.js): requests, their retries and the re-login  *)
(* they may need; the WebSocket with its readiness timer, ping watchdog    *)
(* and reconnects; logout.  All of it runs between the awaits and timers   *)
(* of one tab, against a relay that restarts, forgets its tokens, or is    *)
(* out of reach.                                                           *)
(*                                                                         *)
(* Time is left out: a timer may fire whenever it is set, but firing       *)
(* although the relay would have answered in time counts as an event from  *)
(* outside, as every failure of the network does; the number of those is   *)
(* bounded.  Backoff delays are left out too.  Handlers that the next      *)
(* _openSocket takes off a socket can do nothing, so only the current      *)
(* socket is kept.                                                         *)
(***************************************************************************)
EXTENDS Integers, FiniteSets

CONSTANTS
    Calls,        \* requests the app makes
    Reads,        \* those made with GET
    ReadAttempts, \* READ_ATTEMPTS
    Kinds,        \* relays: "modern", or "legacy" (before 2.1)
    MaxEvents     \* bound on what comes from outside, taken together: requests
                  \* of the app, failures, restarts, nudges of user and browser

ASSUME ApiAssumption ==
    /\ Reads \subseteq Calls /\ IsFiniteSet(Calls)
    /\ ReadAttempts \in Nat \ {0} /\ MaxEvents \in Nat
    /\ Kinds \subseteq {"modern", "legacy"} /\ Kinds # {}

VARIABLES
    kind,      \* relay: which features it has
    valid,     \* relay: live tokens
    known,     \* relay: the account exists and the secret matches
    events,    \* number of those so far
    token,     \* this.token, 0 for null
    want,      \* _wantSocket
    features,  \* this.features: "unknown" for null
    asks,      \* _openSocket awaits health(): the newest call, an older one
    sock,      \* this.ws
    connected, \* this.connected
    pinged,    \* the last ping of the interval is unanswered
    probing,   \* so is that of _checkAlive, whose timer is running
    retry,     \* the _retry timer is set
    shown,     \* the last "status" event emitted
    login,     \* _reauthing
    waits,     \* a closed socket waits for the re-login (_handleClose)
    rejected,  \* "auth" was emitted with renewed: false
    calls,     \* frame of each _req
    out        \* logout

relayVars == <<kind, valid, known>>
sockVars  == <<asks, sock, connected, pinged, probing, retry, shown>>
loginVars == <<login, waits, rejected>>
vars == <<relayVars, events, token, want, features, sockVars, loginVars, calls, out>>

-----------------------------------------------------------------------------
\* As many as can be about at a time, and one to issue.
Tokens == 1..(Cardinality(Calls) + 5)

NoSock  == [st |-> "none", auth |-> 0, silent |-> FALSE]
NoLogin == [st |-> "none", tok |-> 0]
NoCall  == [st |-> "idle", tok |-> 0, tries |-> 0, re |-> FALSE, ran |-> 0]

Sockets == [st : {"none", "connecting", "open", "lost", "refused"},
            auth : Tokens \cup {0}, silent : BOOLEAN]
Logins  == [st : {"none", "asked", "granted", "refused", "failed"}, tok : Tokens \cup {0}]
Frames  == [st : {"idle", "sent", "answered", "refused", "lost", "sleeping", "waiting",
                  "ok", "failed"},
            tok : Tokens \cup {0}, tries : 0..ReadAttempts, re : BOOLEAN, ran : Nat]
Exits   == [st : {"no", "sent", "served", "done"}, tok : Tokens \cup {0}]

\* bootApp has asked for /api/health, with or without success, and calls
\* connectSocket.
Init == /\ kind \in Kinds /\ valid = {1} /\ known = TRUE
        /\ events = 0
        /\ token = 1 /\ want = FALSE
        /\ features \in {"unknown", kind}
        /\ asks = {} /\ sock = NoSock /\ connected = FALSE
        /\ pinged = FALSE /\ probing = FALSE /\ retry = FALSE /\ shown = "none"
        /\ login = NoLogin /\ waits = FALSE /\ rejected = FALSE
        /\ calls = [c \in Calls |-> NoCall]
        /\ out = [st |-> "no", tok |-> 0]

Event == events < MaxEvents /\ events' = events + 1
Calm  == UNCHANGED events

-----------------------------------------------------------------------------
(* The socket.                                                             *)

\* Mutant of Teardown: the link keeps looking up.
MutantTeardownStaysConnected ==
    /\ sock' = NoSock /\ pinged' = FALSE /\ probing' = FALSE
    /\ UNCHANGED connected

\* _teardown
Teardown == /\ sock' = NoSock /\ connected' = FALSE
            /\ pinged' = FALSE /\ probing' = FALSE

\* new WebSocket(url), with the token in the URL for a legacy relay
Dial(tok, f) ==
    /\ sock' = [NoSock EXCEPT !.st = "connecting", !.auth = IF f = "legacy" THEN tok ELSE 0]
    /\ connected' = FALSE /\ pinged' = FALSE /\ probing' = FALSE

\* _openSocket up to its first await: a newer generation makes older ones stale.
OpenSocket(tok) ==
    /\ retry' = FALSE
    /\ IF tok = 0 \/ features = "unknown"
       THEN /\ Teardown
            /\ asks' = (IF asks = {} THEN {} ELSE {"stale"}) \cup
                       (IF tok = 0 THEN {} ELSE {"newest"})
       ELSE /\ Dial(tok, features)
            /\ asks' = IF asks = {} THEN {} ELSE {"stale"}

NeedsLogin(l) == IF l.st = "none" THEN [l EXCEPT !.st = "asked"] ELSE l

\* Mutant of HandleClose: it leaves the reconnect to a timer it does not set.
MutantHandleCloseGivesUp(st) ==
    /\ Teardown /\ shown' = "down"
    /\ LET goesOn == token # 0 /\ want IN
       /\ login' = IF goesOn /\ st = "refused" THEN NeedsLogin(login) ELSE login
       /\ waits' = (waits \/ (goesOn /\ st = "refused"))
       /\ retry' = retry

\* _handleClose, with close code 4401 ("refused") or another ("lost")
HandleClose(st) ==
    /\ Teardown /\ shown' = "down"
    /\ LET goesOn == token # 0 /\ want IN
       /\ login' = IF goesOn /\ st = "refused" THEN NeedsLogin(login) ELSE login
       /\ waits' = (waits \/ (goesOn /\ st = "refused"))
       /\ retry' = (retry \/ (goesOn /\ st # "refused"))

\* _markConnected
MarkConnected(auth) ==
    /\ sock' = [sock EXCEPT !.st = "open", !.auth = auth]
    /\ connected' = TRUE /\ shown' = "up"
    /\ UNCHANGED <<asks, pinged, probing, retry>>

NotSocket == UNCHANGED <<token, want, features, calls, out>>

\* connectSocket, called once by bootApp
ConnectSocket ==
    /\ ~want /\ out.st = "no"
    /\ want' = TRUE
    /\ OpenSocket(token)
    /\ Calm
    /\ UNCHANGED <<relayVars, token, features, shown, loginVars, calls, out>>

\* health() has come back to _openSocket, or has failed after its retries.
HealthReturns(a, ok) ==
    /\ a \in asks
    /\ IF ok THEN Calm ELSE Event
    /\ features' = IF ok THEN kind ELSE features
    /\ asks' = asks \ {a}
    /\ IF a = "stale" \/ token = 0 \/ ~want
       THEN UNCHANGED <<sock, connected, pinged, probing, retry, shown>>
       ELSE IF features' = "unknown"
       THEN /\ shown' = "down" /\ retry' = TRUE
            /\ UNCHANGED <<sock, connected, pinged, probing>>
       ELSE Dial(token, features') /\ UNCHANGED <<retry, shown>>
    /\ UNCHANGED <<relayVars, token, want, loginVars, calls, out>>

\* onopen: the token goes out in the first frame, or is in the URL already.  A
\* legacy relay closes a socket whose token it does not know before it accepts
\* it, and the browser reports 1006, as for any socket that was lost.
SocketOpens ==
    /\ sock.st = "connecting" /\ ~sock.silent
    /\ IF features = "modern"
       THEN /\ sock' = [sock EXCEPT !.st = "open", !.auth = token]
            /\ UNCHANGED <<asks, connected, pinged, probing, retry, shown>>
       ELSE IF sock.auth \in valid
       THEN MarkConnected(sock.auth)
       ELSE /\ sock' = [sock EXCEPT !.st = "lost"]
            /\ UNCHANGED <<asks, connected, pinged, probing, retry, shown>>
    /\ Calm
    /\ UNCHANGED <<relayVars, loginVars>> /\ NotSocket

\* The "ready" frame of a modern relay, or its 4401.
Authenticated ==
    /\ sock.st = "open" /\ ~sock.silent /\ ~connected
    /\ IF sock.auth \in valid
       THEN MarkConnected(sock.auth)
       ELSE /\ sock' = [sock EXCEPT !.st = "refused"]
            /\ UNCHANGED <<asks, connected, pinged, probing, retry, shown>>
    /\ Calm
    /\ UNCHANGED <<relayVars, loginVars>> /\ NotSocket

\* onmessage: a pong, or any other frame
Frame ==
    /\ connected /\ sock.st = "open" /\ ~sock.silent
    /\ pinged' = FALSE
    /\ probing' = FALSE
    /\ Calm
    /\ UNCHANGED <<relayVars, asks, sock, connected, retry, shown, loginVars>> /\ NotSocket

\* The handlers of a socket that went away, or is taken for dead.
Drop(st) == /\ HandleClose(st)
            /\ UNCHANGED <<relayVars, asks, rejected>> /\ NotSocket

OnClose == /\ sock.st \in {"lost", "refused"}
           /\ Drop(sock.st) /\ Calm

\* A timer gives up on a socket: rightly if it is silent.
GivesUp == /\ sock.st # "none"
           /\ IF sock.silent THEN Calm ELSE Event
           /\ Drop("lost")

ReadyTimeout == ~connected /\ GivesUp
AliveTimeout == probing /\ GivesUp

\* The ping interval: a relay that answers pings has not answered the last one.
PingTick ==
    /\ sock.st = "open"
    /\ IF features = "modern" /\ connected /\ pinged
       THEN GivesUp
       ELSE /\ pinged' = TRUE
            /\ Calm
            /\ UNCHANGED <<relayVars, asks, sock, connected, probing, retry, shown, loginVars>>
            /\ NotSocket

\* The _retry timer
RetryFires ==
    /\ retry
    /\ IF want THEN OpenSocket(token)
               ELSE retry' = FALSE /\ UNCHANGED <<asks, sock, connected, pinged, probing>>
    /\ Calm
    /\ UNCHANGED <<relayVars, shown, loginVars>> /\ NotSocket

\* reconnectNow, from the connection strip (only while it shows "down")
Reconnect ==
    /\ token # 0
    /\ want' = TRUE
    /\ OpenSocket(token)
    /\ UNCHANGED <<relayVars, token, features, shown, loginVars, calls, out>>

ClickStrip == shown # "up" /\ Reconnect /\ Event

\* "online" and "visibilitychange"
Wakes ==
    /\ want /\ Event
    /\ IF connected
       THEN /\ sock.st = "open" /\ features = "modern"
            /\ probing' = TRUE
            /\ UNCHANGED <<relayVars, asks, sock, connected, pinged, retry, shown, loginVars>>
            /\ NotSocket
       ELSE Reconnect

-----------------------------------------------------------------------------
(* Requests.                                                               *)

Send(c, frame) == calls' = [calls EXCEPT ![c] = [frame EXCEPT !.st = "sent", !.tok = token]]

\* _req returns or throws.
Ended(frame, st) == [NoCall EXCEPT !.st = st, !.ran = frame.ran]

OnlyCalls == UNCHANGED <<relayVars, token, want, features, sockVars, waits, rejected, out>>

Start(c) == /\ calls[c].st = "idle" /\ token # 0
            /\ Send(c, calls[c])
            /\ Event /\ OnlyCalls /\ UNCHANGED login

\* The relay carries the request out, or answers 401.
Serve(c) == /\ calls[c].st = "sent"
            /\ calls' = [calls EXCEPT ![c] =
                  IF @.tok \in valid THEN [@ EXCEPT !.st = "answered", !.ran = calls[c].ran + 1]
                                     ELSE [@ EXCEPT !.st = "refused"]]
            /\ Calm /\ OnlyCalls /\ UNCHANGED login

\* The request or its answer is lost, times out, or a proxy answers 502.
Lose(c) == /\ calls[c].st \in {"sent", "answered"}
           /\ calls' = [calls EXCEPT ![c] = [@ EXCEPT !.st = "lost", !.tok = 0]]
           /\ Event /\ OnlyCalls /\ UNCHANGED login

Answered(c) == /\ calls[c].st = "answered"
               /\ calls' = [calls EXCEPT ![c] = Ended(@, "ok")]
               /\ Calm /\ OnlyCalls /\ UNCHANGED login

\* Mutant of Failed: every request is tried again.
MutantFailedRetriesAll(c) ==
    /\ calls[c].st = "lost"
    /\ calls' = [calls EXCEPT ![c] =
          IF @.tries + 1 < ReadAttempts
          THEN [@ EXCEPT !.st = "sleeping", !.tok = 0, !.tries = calls[c].tries + 1]
          ELSE Ended(@, "failed")]
    /\ Calm /\ OnlyCalls /\ UNCHANGED login

\* Only reads are tried again.
Failed(c) ==
    /\ calls[c].st = "lost"
    /\ calls' = [calls EXCEPT ![c] =
          IF c \in Reads /\ @.tries + 1 < ReadAttempts
          THEN [@ EXCEPT !.st = "sleeping", !.tok = 0, !.tries = calls[c].tries + 1]
          ELSE Ended(@, "failed")]
    /\ Calm /\ OnlyCalls /\ UNCHANGED login

Again(c) == /\ calls[c].st = "sleeping"
            /\ Send(c, calls[c])
            /\ Calm /\ OnlyCalls /\ UNCHANGED login

\* Mutant of Unauthorized: a token that changed meanwhile is not looked at.
MutantUnauthorizedAlwaysRenews(c) ==
    /\ calls[c].st = "refused"
    /\ IF calls[c].tok = 0 \/ calls[c].re
       THEN calls' = [calls EXCEPT ![c] = Ended(@, "failed")] /\ UNCHANGED login
       ELSE /\ calls' = [calls EXCEPT ![c] = [@ EXCEPT !.st = "waiting", !.re = TRUE]]
            /\ login' = NeedsLogin(login)
    /\ Calm /\ OnlyCalls

\* 401: once per request, retry with the token another request has renewed, or
\* wait for the re-login.
Unauthorized(c) ==
    /\ calls[c].st = "refused"
    /\ IF calls[c].tok = 0 \/ calls[c].re
       THEN calls' = [calls EXCEPT ![c] = Ended(@, "failed")] /\ UNCHANGED login
       ELSE IF calls[c].tok # token
       THEN Send(c, [calls[c] EXCEPT !.re = TRUE]) /\ UNCHANGED login
       ELSE /\ calls' = [calls EXCEPT ![c] = [@ EXCEPT !.st = "waiting", !.re = TRUE]]
            /\ login' = NeedsLogin(login)
    /\ Calm /\ OnlyCalls

-----------------------------------------------------------------------------
(* The re-login, shared by everybody who needs one.                        *)

\* The tokens that matter to the client; the rest are forgotten, and numbers
\* are given out again.
InUse == {token, sock.auth, login.tok, out.tok} \cup {calls[c].tok : c \in Calls}

IsFresh(t) == t \notin InUse /\ \A s \in Tokens : s < t => s \in InUse

ServeLogin ==
    /\ login.st = "asked"
    /\ IF known
       THEN \E t \in Tokens :
            /\ IsFresh(t)
            /\ valid' = (valid \cap InUse) \cup {t}
            /\ login' = [st |-> "granted", tok |-> t]
       ELSE /\ login' = [login EXCEPT !.st = "refused"]
            /\ UNCHANGED valid
    /\ Calm
    /\ UNCHANGED <<kind, known, token, want, features, sockVars, waits, rejected, calls, out>>

LoseLogin ==
    /\ login.st \in {"asked", "granted"}
    /\ login' = [st |-> "failed", tok |-> 0]
    /\ Event
    /\ UNCHANGED <<relayVars, token, want, features, sockVars, waits, rejected, calls, out>>

\* Mutant of LoginReturns: a refused login is a 401 that asks for a re-login,
\* and waits for itself.
MutantLoginReturnsRecurses ==
    /\ login.st \in {"granted", "failed"}
    /\ token' = IF login.st = "granted" THEN login.tok ELSE token
    /\ calls' = [c \in Calls |->
          IF calls[c].st # "waiting" THEN calls[c]
          ELSE IF login.st = "granted"
          THEN [calls[c] EXCEPT !.st = "sent", !.tok = login.tok]
          ELSE Ended(calls[c], "failed")]
    /\ IF waits /\ want /\ login.st = "granted"
       THEN OpenSocket(login.tok) /\ UNCHANGED shown
       ELSE /\ retry' = (retry \/ (waits /\ want /\ login.st = "failed"))
            /\ UNCHANGED <<asks, sock, connected, pinged, probing, shown>>
    /\ rejected' = (rejected \/ login.st = "refused")
    /\ login' = NoLogin /\ waits' = FALSE
    /\ Calm
    /\ UNCHANGED <<relayVars, want, features, out>>

\* The answer of _reauth: every waiting request and closed socket goes on.
LoginReturns ==
    /\ login.st \in {"granted", "refused", "failed"}
    /\ token' = IF login.st = "granted" THEN login.tok ELSE token
    /\ calls' = [c \in Calls |->
          IF calls[c].st # "waiting" THEN calls[c]
          ELSE IF login.st = "granted"
          THEN [calls[c] EXCEPT !.st = "sent", !.tok = login.tok]
          ELSE Ended(calls[c], "failed")]
    /\ IF waits /\ want /\ login.st = "granted"
       THEN OpenSocket(login.tok) /\ UNCHANGED shown
       ELSE /\ retry' = (retry \/ (waits /\ want /\ login.st = "failed"))
            /\ UNCHANGED <<asks, sock, connected, pinged, probing, shown>>
    /\ rejected' = (rejected \/ login.st = "refused")
    /\ login' = NoLogin /\ waits' = FALSE
    /\ Calm
    /\ UNCHANGED <<relayVars, want, features, out>>

-----------------------------------------------------------------------------
(* Logout.                                                                 *)

Logout ==
    /\ out.st = "no" /\ token # 0
    /\ want' = FALSE
    /\ out' = [st |-> "sent", tok |-> token]
    /\ Calm
    /\ UNCHANGED <<relayVars, token, features, sockVars, loginVars, calls>>

ServeLogout ==
    /\ out.st = "sent"
    /\ valid' = valid \ {out.tok}
    /\ out' = [st |-> "served", tok |-> 0]
    /\ Calm
    /\ UNCHANGED <<kind, known, token, want, features, sockVars, loginVars, calls>>

\* The answer, or the five seconds are over: _closeSocket, and the token goes.
LogoutReturns ==
    /\ \/ out.st = "served" /\ Calm
       \/ out.st = "sent" /\ Event
    /\ out' = [st |-> "done", tok |-> 0]
    /\ token' = 0
    /\ Teardown /\ retry' = FALSE
    /\ UNCHANGED <<relayVars, want, features, asks, shown, loginVars, calls>>

-----------------------------------------------------------------------------
(* Failures of the relay and the network.                                   *)

NotClient == UNCHANGED <<kind, token, want, features, asks, connected, pinged, probing,
                         retry, shown, loginVars, calls, out>>

\* The relay forgets its tokens, and its sockets go away.
Restart ==
    /\ Event
    /\ valid' = {}
    /\ sock' = IF sock.st \in {"connecting", "open"} /\ ~sock.silent
               THEN [sock EXCEPT !.st = "lost"] ELSE sock
    /\ NotClient /\ UNCHANGED known

\* delete_account, from another device: the relay closes the sockets that are
\* ready with 4401.
AccountGoes ==
    /\ known /\ Event
    /\ known' = FALSE /\ valid' = {}
    /\ sock' = IF kind = "modern" /\ connected /\ sock.st = "open" /\ ~sock.silent
               THEN [sock EXCEPT !.st = "refused"] ELSE sock
    /\ NotClient

\* TOKEN_TTL ends: the sockets stay.
Lapses(t) ==
    /\ t \in valid /\ Event
    /\ valid' = valid \ {t}
    /\ UNCHANGED <<kind, known, token, want, features, sockVars, loginVars, calls, out>>

\* The connection breaks, or goes silent without a word.
Breaks(silently) ==
    /\ sock.st \in {"connecting", "open"} /\ ~sock.silent
    /\ sock' = IF silently THEN [sock EXCEPT !.silent = TRUE] ELSE [sock EXCEPT !.st = "lost"]
    /\ Event
    /\ UNCHANGED <<relayVars, asks, connected, pinged, probing, retry, shown, loginVars>>
    /\ NotSocket

Next ==
    \/ ConnectSocket
    \/ \E a \in {"newest", "stale"}, ok \in BOOLEAN : HealthReturns(a, ok)
    \/ SocketOpens
    \/ Authenticated
    \/ Frame
    \/ OnClose
    \/ ReadyTimeout
    \/ AliveTimeout
    \/ PingTick
    \/ RetryFires
    \/ ClickStrip
    \/ Wakes
    \/ \E c \in Calls : Start(c)
    \/ \E c \in Calls : Serve(c)
    \/ \E c \in Calls : Lose(c)
    \/ \E c \in Calls : Answered(c)
    \/ \E c \in Calls : Failed(c)
    \/ \E c \in Calls : Again(c)
    \/ \E c \in Calls : Unauthorized(c)
    \/ ServeLogin
    \/ LoseLogin
    \/ LoginReturns
    \/ Logout
    \/ ServeLogout
    \/ LogoutReturns
    \/ Restart
    \/ AccountGoes
    \/ \E t \in Tokens : Lapses(t)
    \/ \E silently \in BOOLEAN : Breaks(silently)

\* Timers fire and requests are answered, lost or timed out in the end.
Fairness ==
    /\ \A a \in {"newest", "stale"} : WF_vars(HealthReturns(a, TRUE))
    /\ WF_vars(ConnectSocket) /\ WF_vars(SocketOpens) /\ WF_vars(Authenticated)
    /\ WF_vars(Frame) /\ WF_vars(OnClose) /\ WF_vars(ReadyTimeout)
    /\ WF_vars(PingTick) /\ WF_vars(RetryFires)
    /\ \A c \in Calls : WF_vars(Serve(c)) /\ WF_vars(Answered(c)) /\ WF_vars(Failed(c))
                        /\ WF_vars(Again(c)) /\ WF_vars(Unauthorized(c))
    /\ WF_vars(ServeLogin) /\ WF_vars(LoginReturns)
    /\ WF_vars(ServeLogout) /\ WF_vars(LogoutReturns)

Spec == Init /\ [][Next]_vars /\ Fairness

-----------------------------------------------------------------------------
(* What the client promises.                                               *)

\* Type invariant: the link is up only on a socket, and whoever waits for a
\* re-login has one under way.
TypeOK ==
    /\ kind \in Kinds /\ valid \subseteq Tokens
    /\ known \in BOOLEAN /\ events \in 0..MaxEvents
    /\ token \in Tokens \cup {0} /\ want \in BOOLEAN
    /\ features \in {"unknown", kind}
    /\ asks \subseteq {"newest", "stale"} /\ sock \in Sockets /\ connected \in BOOLEAN
    /\ pinged \in BOOLEAN /\ probing \in BOOLEAN
    /\ retry \in BOOLEAN /\ shown \in {"none", "up", "down"}
    /\ login \in Logins /\ waits \in BOOLEAN /\ rejected \in BOOLEAN
    /\ calls \in [Calls -> Frames] /\ out \in Exits
    /\ connected \/ pinged \/ probing => sock.st # "none"
    /\ waits \/ (\E c \in Calls : calls[c].st = "waiting") => login.st # "none"

Outcome(st) == CASE st = "idle" -> "idle" [] st = "ok" -> "ok"
                 [] st = "failed" -> "failed" [] OTHER -> "pending"

\* The client keeps the promise of Connection: its "status" events are true,
\* and a POST that was lost is never carried out twice.
Promise == INSTANCE Connection WITH
              link    <- IF connected THEN "up" ELSE IF sock.st # "none" THEN "trying" ELSE "down",
              told    <- shown,
              leaving <- out.st # "no",
              outcome <- [c \in Calls |-> Outcome(calls[c].st)],
              effects <- [c \in Calls |-> calls[c].ran]

KeepsPromise == Promise!Spec

\* The tab is connected for good, as far as it depends on it: not to a socket
\* that is dead without a word, unless the relay answers no pings.
Settled == /\ connected
           /\ kind = "modern" => ~sock.silent /\ sock.st = "open"

\* A legacy relay does not say that it forgot the token: the tab dials with it
\* again and again, until a request of the app is answered 401.
Unheard == kind = "legacy" /\ token \notin valid

(* However the relay restarted, forgot the token or fell silent, a tab that  *)
(* wants its socket gets it back: no timer, watchdog or re-login is left     *)
(* without a successor.  It may only end in a rejected re-login, which the   *)
(* app hears of, in logout, or at a legacy relay in a dead token.            *)
Reconnects == want ~> (Settled \/ rejected \/ out.st # "no" \/ Unheard)

(* Every request comes to an end: none waits for a re-login that waits for   *)
(* a request.                                                                *)
CallsEnd == \A c \in Calls : calls[c].st # "idle" ~> calls[c].st \in {"ok", "failed"}

\* Signed out, with no answer to a re-login under way.
SignedOut == out.st = "done" /\ token = 0 /\ login.st = "none"

(* Logout is final: once it is through and no re-login is under way, none    *)
(* begins, no token comes back and no socket is opened, whatever timers,     *)
(* requests and answers are still about (server dialog and deleteAppData     *)
(* reload the page only later).                                              *)
LogoutIsFinal == [][SignedOut => SignedOut' /\ sock' = NoSock]_vars
=============================================================================
