--------------------------- MODULE ApiClientProofs ---------------------------
(***************************************************************************)
(* Proofs about ApiClient, for any requests, attempts and events: types,   *)
(* that logout is final, and that it implements Connection.  Liveness is   *)
(* left to TLC.                                                            *)
(***************************************************************************)
EXTENDS ApiClient, FiniteSetTheorems, TLAPS

\* No link without a socket that has opened; no socket before the relay's
\* features are known, nor after the token is gone, which only logout takes.
Linked ==
    /\ connected => sock.st \notin {"none", "connecting"}
    /\ features = "unknown" => sock.st = "none" /\ shown # "up"
    /\ token = 0 => sock = NoSock /\ out.st = "done"
    /\ login.st = "granted" => login.tok # 0

\* A request is answered after it has run; one that is not tried again has not
\* run before it goes out.
RunsFirst ==
    \A c \in Calls :
        /\ calls[c].st = "answered" => calls[c].ran > 0
        /\ c \notin Reads /\ calls[c].st \in {"idle", "sent", "refused", "sleeping", "waiting"}
              => calls[c].ran = 0

IndInv == TypeOK /\ Linked /\ RunsFirst

-----------------------------------------------------------------------------
(* The parts of the socket's handlers.                                     *)

\* The types of what a socket's handlers change.
SockTyped ==
    /\ asks \subseteq {"newest", "stale"} /\ sock \in Sockets /\ connected \in BOOLEAN
    /\ pinged \in BOOLEAN /\ probing \in BOOLEAN
    /\ retry \in BOOLEAN /\ shown \in {"none", "up", "down"}
    /\ connected \/ pinged \/ probing => sock.st # "none"

LEMMA NoSockTyped == NoSock \in Sockets /\ NoSock.st = "none"
  BY DEF NoSock, Sockets

LEMMA DialSets ==
    ASSUME NEW tok \in Tokens \cup {0}, NEW f, Dial(tok, f)
    PROVE  /\ sock' \in Sockets /\ sock'.st = "connecting"
           /\ connected' = FALSE /\ pinged' = FALSE /\ probing' = FALSE
  BY DEF Dial, NoSock, Sockets

LEMMA OpenSocketSets ==
    ASSUME NEW tok \in Tokens \cup {0}, OpenSocket(tok)
    PROVE  /\ asks' \subseteq {"newest", "stale"} /\ sock' \in Sockets
           /\ connected' = FALSE /\ pinged' = FALSE /\ probing' = FALSE /\ retry' = FALSE
           /\ IF tok = 0 \/ features = "unknown" THEN sock' = NoSock
                                                  ELSE sock'.st = "connecting"
  <1>1. CASE tok = 0 \/ features = "unknown"
    BY <1>1, NoSockTyped DEF OpenSocket, Teardown
  <1>2. CASE ~(tok = 0 \/ features = "unknown")
    BY <1>2, DialSets DEF OpenSocket
  <1> QED
    BY <1>1, <1>2

LEMMA HandleCloseSets ==
    ASSUME TypeOK, NEW st, HandleClose(st)
    PROVE  /\ sock' = NoSock /\ connected' = FALSE /\ pinged' = FALSE /\ probing' = FALSE
           /\ shown' = "down" /\ retry' \in BOOLEAN /\ waits' \in BOOLEAN
           /\ login' \in Logins /\ (waits' => login'.st # "none")
           /\ login.st # "none" => login' = login
           /\ login'.st = "granted" => login' = login
           /\ token = 0 => login' = login
  <1>1. /\ login \in Logins /\ (waits => login.st # "none") /\ waits \in BOOLEAN
        /\ retry \in BOOLEAN
    BY DEF TypeOK
  <1>2. NeedsLogin(login) \in Logins /\ NeedsLogin(login).st # "none"
        /\ (login.st # "none" => NeedsLogin(login) = login)
        /\ (login.st = "none" => NeedsLogin(login).st = "asked")
    BY <1>1 DEF NeedsLogin, Logins
  <1> QED
    BY <1>1, <1>2 DEF HandleClose, Teardown

LEMMA MarkConnectedSets ==
    ASSUME TypeOK, NEW auth \in Tokens \cup {0}, MarkConnected(auth)
    PROVE  /\ sock' \in Sockets /\ sock'.st = "open" /\ connected' = TRUE /\ shown' = "up"
           /\ UNCHANGED <<asks, pinged, probing, retry>>
  BY DEF TypeOK, MarkConnected, Sockets

LEMMA EventTyped == TypeOK /\ (Event \/ Calm) => events' \in 0..MaxEvents
  BY ApiAssumption DEF TypeOK, Event, Calm

LEMMA TokensTyped == 0 \notin Tokens /\ 1 \in Tokens
  BY ApiAssumption, FS_CardinalityType DEF Tokens

-----------------------------------------------------------------------------
(* Initially.                                                              *)

LEMMA InitInd == Init => IndInv
  <1> SUFFICES ASSUME Init PROVE IndInv
    OBVIOUS
  <1>1. /\ NoSock \in Sockets /\ NoSock.st = "none"
        /\ NoLogin \in Logins /\ NoLogin.st = "none"
        /\ NoCall \in Frames /\ NoCall.st = "idle" /\ NoCall.ran = 0
        /\ out \in Exits
    BY ApiAssumption DEF Init, NoSock, Sockets, NoLogin, Logins, NoCall, Frames, Exits
  <1>2. TypeOK
    <2>1. /\ kind \in Kinds /\ valid \subseteq Tokens /\ known \in BOOLEAN
          /\ events \in 0..MaxEvents /\ token \in Tokens \cup {0}
      BY TokensTyped, ApiAssumption DEF Init
    <2>2. calls \in [Calls -> Frames] /\ \A c \in Calls : calls[c].st = "idle"
      BY <1>1 DEF Init
    <2>3. /\ features \in {"unknown", kind} /\ asks \subseteq {"newest", "stale"}
          /\ sock \in Sockets /\ login \in Logins
      BY <1>1 DEF Init
    <2> QED
      BY <1>1, <2>1, <2>2, <2>3 DEF Init, TypeOK
  <1>3. Linked
    BY <1>1, TokensTyped DEF Init, Linked
  <1>4. RunsFirst
    BY <1>1 DEF Init, RunsFirst
  <1> QED
    BY <1>2, <1>3, <1>4 DEF IndInv

-----------------------------------------------------------------------------
(* Steps of the socket.  They leave the relay's part, the requests and      *)
(* logout alone.                                                           *)

\* A step that leaves relay, token, requests and logout alone keeps the
\* invariant if it keeps what is said of sockets and of the re-login.
LEMMA SocketStep ==
    ASSUME IndInv, UNCHANGED <<relayVars, token, calls, out>>, events' \in 0..MaxEvents,
           want' \in BOOLEAN, features' \in {features, kind}, SockTyped',
           login' \in Logins, login'.st = "granted" => login' = login,
           login.st # "none" => login' = login,
           waits' \in BOOLEAN, waits' => login'.st # "none", UNCHANGED rejected,
           connected' => sock'.st # "connecting",
           features' = "unknown" => sock'.st = "none" /\ shown' # "up",
           token = 0 => sock' = NoSock
    PROVE  IndInv'
  <1>1. TypeOK'
    <2>1. \A c \in Calls : calls'[c].st = "waiting" => login'.st # "none"
      BY DEF IndInv, TypeOK
    <2>2. UNCHANGED <<kind, valid, known, token, calls, out>>
      BY DEF relayVars
    <2>3. features' \in {"unknown", kind'}
      BY <2>2 DEF IndInv, TypeOK
    <2> QED
      BY <2>1, <2>2, <2>3 DEF IndInv, TypeOK, SockTyped
  <1>2. Linked'
    BY DEF IndInv, Linked, SockTyped
  <1>3. RunsFirst'
    BY DEF IndInv, RunsFirst
  <1> QED
    BY <1>1, <1>2, <1>3 DEF IndInv

\* Those that leave the re-login alone too.
LEMMA PlainSocketStep ==
    ASSUME IndInv, UNCHANGED <<relayVars, token, calls, out, loginVars>>,
           events' \in 0..MaxEvents,
           want' \in BOOLEAN, features' \in {features, kind}, SockTyped',
           connected' => sock'.st # "connecting",
           features' = "unknown" => sock'.st = "none" /\ shown' # "up",
           token = 0 => sock' = NoSock
    PROVE  IndInv'
  <1>1. login' = login /\ waits' = waits /\ rejected' = rejected
    BY DEF loginVars
  <1>2. /\ login' \in Logins /\ waits' \in BOOLEAN /\ (waits' => login'.st # "none")
    BY <1>1 DEF IndInv, TypeOK
  <1> QED
    BY <1>1, <1>2, SocketStep

\* A step that opens a socket, or asks first what the relay can do.
LEMMA OpenSocketStep ==
    ASSUME IndInv, OpenSocket(token), UNCHANGED <<relayVars, token, features, shown, loginVars, calls, out>>,
           events' \in 0..MaxEvents, want' \in BOOLEAN
    PROVE  IndInv'
  <1>1. token \in Tokens \cup {0} /\ shown \in {"none", "up", "down"}
    BY DEF IndInv, TypeOK
  <1>2. /\ asks' \subseteq {"newest", "stale"} /\ sock' \in Sockets
        /\ connected' = FALSE /\ pinged' = FALSE /\ probing' = FALSE /\ retry' = FALSE
        /\ IF token = 0 \/ features = "unknown" THEN sock' = NoSock
                                                ELSE sock'.st = "connecting"
    BY <1>1, OpenSocketSets
  <1>3. SockTyped'
    BY <1>1, <1>2 DEF SockTyped
  <1>4. features' = "unknown" => sock'.st = "none" /\ shown' # "up"
    BY <1>2, NoSockTyped DEF IndInv, Linked
  <1> QED
    BY <1>2, <1>3, <1>4, PlainSocketStep

LEMMA ConnectSocketInd == ASSUME IndInv, ConnectSocket PROVE IndInv'
  BY OpenSocketStep, EventTyped DEF ConnectSocket, IndInv

LEMMA RetryFiresInd == ASSUME IndInv, RetryFires PROVE IndInv'
  <1>1. want' \in BOOLEAN /\ events' \in 0..MaxEvents
    BY EventTyped DEF RetryFires, NotSocket, IndInv, TypeOK
  <1>2. CASE want
    BY <1>1, <1>2, OpenSocketStep DEF RetryFires, NotSocket
  <1>3. CASE ~want
    <2>1. UNCHANGED <<relayVars, token, calls, out, loginVars, features, sock, connected, shown>>
      BY <1>3 DEF RetryFires, NotSocket
    <2>2. SockTyped'
      BY <1>3 DEF RetryFires, IndInv, TypeOK, SockTyped
    <2>3. /\ connected' => sock'.st # "connecting"
          /\ features' = "unknown" => sock'.st = "none" /\ shown' # "up"
          /\ token = 0 => sock' = NoSock
      BY <2>1 DEF IndInv, Linked
    <2> QED
      BY <1>1, <2>1, <2>2, <2>3, PlainSocketStep
  <1> QED
    BY <1>2, <1>3

LEMMA ReconnectInd == ASSUME IndInv, Reconnect, Event PROVE IndInv'
  BY OpenSocketStep, EventTyped DEF Reconnect, IndInv

LEMMA HealthReturnsInd ==
    ASSUME IndInv, NEW a \in {"newest", "stale"}, NEW ok \in BOOLEAN, HealthReturns(a, ok)
    PROVE  IndInv'
  <1>1. events' \in 0..MaxEvents
    BY EventTyped DEF HealthReturns, IndInv
  <1>2. /\ features' = IF ok THEN kind ELSE features
        /\ UNCHANGED <<relayVars, token, want, loginVars, calls, out>>
        /\ asks' = asks \ {a}
    BY DEF HealthReturns
  <1>3. /\ kind \in {"modern", "legacy"} /\ asks \subseteq {"newest", "stale"}
        /\ token \in Tokens \cup {0} /\ want \in BOOLEAN /\ SockTyped
    BY ApiAssumption DEF IndInv, TypeOK, SockTyped
  <1>4. CASE a = "stale" \/ token = 0 \/ ~want
    <2>1. UNCHANGED <<sock, connected, pinged, probing, retry, shown>>
      BY <1>4 DEF HealthReturns
    <2>2. SockTyped'
      BY <1>2, <1>3, <2>1 DEF SockTyped
    <2>3. /\ connected' => sock'.st # "connecting"
          /\ features' = "unknown" => sock'.st = "none" /\ shown' # "up"
          /\ token = 0 => sock' = NoSock
      BY <1>2, <1>3, <2>1 DEF IndInv, Linked
    <2> QED
      BY <1>1, <1>2, <1>3, <2>2, <2>3, PlainSocketStep
  <1>5. CASE ~(a = "stale" \/ token = 0 \/ ~want) /\ features' = "unknown"
    <2>1. shown' = "down" /\ retry' = TRUE /\ UNCHANGED <<sock, connected, pinged, probing>>
      BY <1>5 DEF HealthReturns
    <2>2. SockTyped'
      BY <1>2, <1>3, <2>1 DEF SockTyped
    <2>3. /\ connected' => sock'.st # "connecting"
          /\ features' = "unknown" => sock'.st = "none" /\ shown' # "up"
          /\ token = 0 => sock' = NoSock
      BY <1>2, <1>3, <1>5, <2>1 DEF IndInv, Linked
    <2> QED
      BY <1>1, <1>2, <1>3, <2>2, <2>3, PlainSocketStep
  <1>6. CASE ~(a = "stale" \/ token = 0 \/ ~want) /\ features' # "unknown"
    <2>1. Dial(token, features') /\ UNCHANGED <<retry, shown>>
      BY <1>6 DEF HealthReturns
    <2>2. /\ sock' \in Sockets /\ sock'.st = "connecting"
          /\ connected' = FALSE /\ pinged' = FALSE /\ probing' = FALSE
      <3> DEFINE f == features'
      <3>1. Dial(token, f)
        BY <2>1
      <3> HIDE DEF f
      <3> QED
        BY <1>3, <3>1, DialSets
    <2>3. SockTyped'
      BY <1>2, <1>3, <2>1, <2>2 DEF SockTyped
    <2> QED
      BY <1>1, <1>2, <1>3, <1>6, <2>2, <2>3, PlainSocketStep
  <1> QED
    BY <1>4, <1>5, <1>6

LEMMA SocketOpensInd == ASSUME IndInv, SocketOpens PROVE IndInv'
  <1>1. /\ events' \in 0..MaxEvents /\ UNCHANGED <<relayVars, token, want, features, calls, out, loginVars>>
        /\ sock.st = "connecting"
    BY EventTyped DEF SocketOpens, NotSocket, IndInv
  <1>2. /\ SockTyped /\ want \in BOOLEAN /\ token \in Tokens \cup {0} /\ sock.auth \in Tokens \cup {0}
        /\ ~connected /\ features # "unknown" /\ token # 0
    BY <1>1, NoSockTyped DEF IndInv, TypeOK, Linked, SockTyped, Sockets
  <1>3. SockTyped' /\ sock'.st # "connecting"
    <2>1. CASE features = "modern"
      BY <1>2, <2>1 DEF SocketOpens, SockTyped, Sockets
    <2>2. CASE features # "modern" /\ sock.auth \in valid
      <3>1. MarkConnected(sock.auth)
        BY <2>2 DEF SocketOpens
      <3> QED
        BY <1>2, <3>1, MarkConnectedSets DEF IndInv, SockTyped
    <2>3. CASE features # "modern" /\ sock.auth \notin valid
      BY <1>2, <2>3 DEF SocketOpens, SockTyped, Sockets
    <2> QED
      BY <2>1, <2>2, <2>3
  <1> QED
    BY <1>1, <1>2, <1>3, PlainSocketStep

LEMMA AuthenticatedInd == ASSUME IndInv, Authenticated PROVE IndInv'
  <1>1. /\ events' \in 0..MaxEvents /\ UNCHANGED <<relayVars, token, want, features, calls, out, loginVars>>
        /\ sock.st = "open"
    BY EventTyped DEF Authenticated, NotSocket, IndInv
  <1>2. /\ SockTyped /\ want \in BOOLEAN /\ sock.auth \in Tokens \cup {0}
        /\ features # "unknown" /\ token # 0
    BY <1>1, NoSockTyped DEF IndInv, TypeOK, Linked, SockTyped, Sockets
  <1>3. SockTyped' /\ sock'.st # "connecting"
    <2>1. CASE sock.auth \in valid
      <3>1. MarkConnected(sock.auth)
        BY <2>1 DEF Authenticated
      <3> QED
        BY <1>2, <3>1, MarkConnectedSets DEF IndInv, SockTyped
    <2>2. CASE sock.auth \notin valid
      BY <1>2, <2>2 DEF Authenticated, SockTyped, Sockets
    <2> QED
      BY <2>1, <2>2
  <1> QED
    BY <1>1, <1>2, <1>3, PlainSocketStep

LEMMA FrameInd == ASSUME IndInv, Frame PROVE IndInv'
  <1>1. /\ events' \in 0..MaxEvents /\ UNCHANGED <<relayVars, token, want, features, calls, out, loginVars>>
        /\ UNCHANGED <<sock, connected, shown>>
    BY EventTyped DEF Frame, NotSocket, IndInv
  <1>2. SockTyped' /\ want' \in BOOLEAN
    BY <1>1 DEF Frame, IndInv, TypeOK, SockTyped
  <1>3. /\ connected' => sock'.st # "connecting"
        /\ features' = "unknown" => sock'.st = "none" /\ shown' # "up"
        /\ token = 0 => sock' = NoSock
    BY <1>1 DEF IndInv, Linked
  <1> QED
    BY <1>1, <1>2, <1>3, PlainSocketStep

LEMMA DropInd == ASSUME IndInv, NEW st, Drop(st), events' \in 0..MaxEvents PROVE IndInv'
  <1>1. HandleClose(st) /\ UNCHANGED <<relayVars, asks, rejected, token, want, features, calls, out>>
    BY DEF Drop, NotSocket
  <1>2. /\ sock' = NoSock /\ connected' = FALSE /\ pinged' = FALSE /\ probing' = FALSE
        /\ shown' = "down" /\ retry' \in BOOLEAN /\ waits' \in BOOLEAN
        /\ login' \in Logins /\ (waits' => login'.st # "none")
        /\ login.st # "none" => login' = login
        /\ login'.st = "granted" => login' = login
    BY <1>1, HandleCloseSets DEF IndInv
  <1>3. SockTyped' /\ want' \in BOOLEAN
    BY <1>1, <1>2, NoSockTyped DEF IndInv, TypeOK, SockTyped
  <1>4. features' = "unknown" => sock'.st = "none" /\ shown' # "up"
    BY <1>2, NoSockTyped
  <1> QED
    BY <1>1, <1>2, <1>3, <1>4, SocketStep

LEMMA OnCloseInd == ASSUME IndInv, OnClose PROVE IndInv'
  BY DropInd, EventTyped DEF OnClose, IndInv

LEMMA GivesUpInd == ASSUME IndInv, GivesUp PROVE IndInv'
  BY DropInd, EventTyped DEF GivesUp, IndInv

LEMMA PingTickInd == ASSUME IndInv, PingTick PROVE IndInv'
  <1>1. CASE features = "modern" /\ connected /\ pinged
    BY <1>1, GivesUpInd DEF PingTick
  <1>2. CASE ~(features = "modern" /\ connected /\ pinged)
    <2>1. /\ events' \in 0..MaxEvents /\ pinged' = TRUE /\ sock.st = "open"
          /\ UNCHANGED <<relayVars, token, want, features, calls, out, loginVars>>
          /\ UNCHANGED <<asks, sock, connected, probing, retry, shown>>
      BY <1>2, EventTyped DEF PingTick, NotSocket, IndInv
    <2>2. SockTyped' /\ want' \in BOOLEAN
      BY <2>1 DEF IndInv, TypeOK, SockTyped
    <2>3. /\ connected' => sock'.st # "connecting"
          /\ features' = "unknown" => sock'.st = "none" /\ shown' # "up"
          /\ token = 0 => sock' = NoSock
      BY <2>1 DEF IndInv, Linked
    <2> QED
      BY <2>1, <2>2, <2>3, PlainSocketStep
  <1> QED
    BY <1>1, <1>2

LEMMA WakesInd == ASSUME IndInv, Wakes PROVE IndInv'
  <1>1. CASE connected
    <2>1. /\ events' \in 0..MaxEvents /\ probing' = TRUE /\ sock.st = "open"
          /\ UNCHANGED <<relayVars, token, want, features, calls, out, loginVars>>
          /\ UNCHANGED <<asks, sock, connected, pinged, retry, shown>>
      BY <1>1, EventTyped DEF Wakes, NotSocket, IndInv
    <2>2. SockTyped' /\ want' \in BOOLEAN
      BY <2>1 DEF IndInv, TypeOK, SockTyped
    <2>3. /\ connected' => sock'.st # "connecting"
          /\ features' = "unknown" => sock'.st = "none" /\ shown' # "up"
          /\ token = 0 => sock' = NoSock
      BY <2>1 DEF IndInv, Linked
    <2> QED
      BY <2>1, <2>2, <2>3, PlainSocketStep
  <1>2. CASE ~connected
    BY <1>2, ReconnectInd DEF Wakes
  <1> QED
    BY <1>1, <1>2

LEMMA BreaksInd == ASSUME IndInv, NEW silently \in BOOLEAN, Breaks(silently) PROVE IndInv'
  <1>1. /\ events' \in 0..MaxEvents /\ UNCHANGED <<relayVars, token, want, features, calls, out, loginVars>>
        /\ UNCHANGED <<asks, connected, pinged, probing, retry, shown>>
        /\ sock.st \in {"connecting", "open"}
        /\ sock' = IF silently THEN [sock EXCEPT !.silent = TRUE] ELSE [sock EXCEPT !.st = "lost"]
    BY EventTyped DEF Breaks, NotSocket, IndInv
  <1>2. sock' \in Sockets /\ sock'.st \in {"lost", sock.st} /\ sock \in Sockets
    BY <1>1 DEF IndInv, TypeOK, Sockets
  <1>3. SockTyped' /\ want' \in BOOLEAN
    BY <1>1, <1>2 DEF IndInv, TypeOK, SockTyped
  <1>4. /\ connected' => sock'.st # "connecting"
        /\ features # "unknown" /\ token # 0
    BY <1>1, <1>2, NoSockTyped DEF IndInv, Linked
  <1> QED
    BY <1>1, <1>3, <1>4, PlainSocketStep

-----------------------------------------------------------------------------
(* Requests.                                                               *)

\* A step of requests that begins no re-login but for those who wait.
LEMMA CallStep ==
    ASSUME IndInv, OnlyCalls, events' \in 0..MaxEvents, calls' \in [Calls -> Frames], RunsFirst',
           login' = login \/ login' = NeedsLogin(login),
           \A c \in Calls : calls'[c].st = "waiting" => calls[c].st = "waiting" \/ login' = NeedsLogin(login)
    PROVE  IndInv'
  <1>1. /\ login \in Logins /\ login' \in Logins /\ (login.st # "none" => login' = login)
        /\ login'.st = "granted" => login' = login
        /\ login' = NeedsLogin(login) => login'.st # "none"
    BY DEF IndInv, TypeOK, NeedsLogin, Logins
  <1>2. TypeOK'
    <2>1. waits' \/ (\E c \in Calls : calls'[c].st = "waiting") => login'.st # "none"
      BY <1>1 DEF IndInv, TypeOK, OnlyCalls
    <2> QED
      BY <1>1, <2>1 DEF IndInv, TypeOK, OnlyCalls, relayVars, sockVars
  <1>3. Linked'
    BY <1>1 DEF IndInv, Linked, OnlyCalls, sockVars
  <1> QED
    BY <1>2, <1>3 DEF IndInv

\* What a request's next frame may be.
Follows(c, frame) ==
    /\ frame \in Frames
    /\ frame.st = "answered" => frame.ran > 0
    /\ c \notin Reads /\ frame.st \in {"idle", "sent", "refused", "sleeping", "waiting"}
          => frame.ran = 0

LEMMA OneCallStep ==
    ASSUME IndInv, OnlyCalls, events' \in 0..MaxEvents, NEW c \in Calls, NEW frame,
           calls' = [calls EXCEPT ![c] = frame], Follows(c, frame),
           login' = login \/ login' = NeedsLogin(login),
           frame.st = "waiting" => login' = NeedsLogin(login)
    PROVE  IndInv'
  <1>1. calls \in [Calls -> Frames]
    BY DEF IndInv, TypeOK
  <1>2. \A d \in Calls : calls'[d] = IF d = c THEN frame ELSE calls[d]
    BY <1>1
  <1>3. calls' \in [Calls -> Frames]
    BY <1>1 DEF Follows
  <1>4. RunsFirst'
    BY <1>2 DEF IndInv, RunsFirst, Follows
  <1>5. \A d \in Calls : calls'[d].st = "waiting" =>
           calls[d].st = "waiting" \/ login' = NeedsLogin(login)
    BY <1>2
  <1> QED
    BY <1>3, <1>4, <1>5, CallStep

\* The frame of a request before a step.
LEMMA FrameNow ==
    ASSUME IndInv, NEW c \in Calls
    PROVE  Follows(c, calls[c]) /\ token \in Tokens \cup {0}
  BY DEF IndInv, TypeOK, RunsFirst, Follows

LEMMA SentFollows ==
    ASSUME IndInv, NEW c \in Calls, NEW frame, Follows(c, frame),
           frame.st \in {"idle", "refused", "sleeping", "waiting"}
    PROVE  Follows(c, [frame EXCEPT !.st = "sent", !.tok = token])
           /\ [frame EXCEPT !.st = "sent", !.tok = token].st = "sent"
  BY FrameNow DEF Follows, Frames

LEMMA EndedFollows ==
    ASSUME NEW c \in Calls, NEW frame, Follows(c, frame), NEW st \in {"ok", "failed"}
    PROVE  Follows(c, Ended(frame, st)) /\ Ended(frame, st).st = st
  <1>1. NoCall \in Frames
    BY ApiAssumption DEF NoCall, Frames
  <1>2. frame.ran \in Nat
    BY DEF Follows, Frames
  <1>3. Ended(frame, st) \in Frames /\ Ended(frame, st).st = st
    BY <1>1, <1>2 DEF Frames, Ended
  <1> QED
    BY <1>3 DEF Follows

LEMMA StartInd == ASSUME IndInv, NEW c \in Calls, Start(c) PROVE IndInv'
  <1> DEFINE frame == [calls[c] EXCEPT !.st = "sent", !.tok = token]
  <1>1. Follows(c, frame) /\ frame.st = "sent"
    BY FrameNow, SentFollows DEF Start
  <1>2. /\ calls' = [calls EXCEPT ![c] = frame] /\ events' \in 0..MaxEvents
        /\ OnlyCalls /\ login' = login
    BY EventTyped DEF Start, Send, IndInv
  <1> HIDE DEF frame
  <1> QED
    BY <1>1, <1>2, OneCallStep

LEMMA ServeInd == ASSUME IndInv, NEW c \in Calls, Serve(c) PROVE IndInv'
  <1> DEFINE frame == IF calls[c].tok \in valid
                      THEN [calls[c] EXCEPT !.st = "answered", !.ran = calls[c].ran + 1]
                      ELSE [calls[c] EXCEPT !.st = "refused"]
  <1>1. Follows(c, frame) /\ frame.st # "waiting"
    <2>1. Follows(c, calls[c]) /\ calls[c].st = "sent"
      BY FrameNow DEF Serve
    <2>2. calls[c].ran \in Nat /\ calls[c].ran + 1 \in Nat /\ calls[c].ran + 1 > 0
      BY <2>1 DEF Follows, Frames
    <2> QED
      BY <2>1, <2>2 DEF Follows, Frames
  <1>2. /\ calls' = [calls EXCEPT ![c] = frame] /\ events' \in 0..MaxEvents
        /\ OnlyCalls /\ login' = login
    BY EventTyped DEF Serve, IndInv
  <1> HIDE DEF frame
  <1> QED
    BY <1>1, <1>2, OneCallStep

LEMMA LoseInd == ASSUME IndInv, NEW c \in Calls, Lose(c) PROVE IndInv'
  <1> DEFINE frame == [calls[c] EXCEPT !.st = "lost", !.tok = 0]
  <1>1. Follows(c, frame) /\ frame.st # "waiting"
    BY FrameNow DEF Follows, Frames
  <1>2. /\ calls' = [calls EXCEPT ![c] = frame] /\ events' \in 0..MaxEvents
        /\ OnlyCalls /\ login' = login
    BY EventTyped DEF Lose, IndInv
  <1> HIDE DEF frame
  <1> QED
    BY <1>1, <1>2, OneCallStep

LEMMA AnsweredInd == ASSUME IndInv, NEW c \in Calls, Answered(c) PROVE IndInv'
  <1>1. Follows(c, Ended(calls[c], "ok")) /\ Ended(calls[c], "ok").st = "ok"
    BY FrameNow, EndedFollows
  <1>2. /\ calls' = [calls EXCEPT ![c] = Ended(calls[c], "ok")] /\ events' \in 0..MaxEvents
        /\ OnlyCalls /\ login' = login
    BY EventTyped DEF Answered, IndInv
  <1> QED
    BY <1>1, <1>2, OneCallStep

LEMMA FailedInd == ASSUME IndInv, NEW c \in Calls, Failed(c) PROVE IndInv'
  <1> DEFINE frame == IF c \in Reads /\ calls[c].tries + 1 < ReadAttempts
                      THEN [calls[c] EXCEPT !.st = "sleeping", !.tok = 0, !.tries = calls[c].tries + 1]
                      ELSE Ended(calls[c], "failed")
  <1>1. Follows(c, frame) /\ frame.st # "waiting"
    <2>1. CASE c \in Reads /\ calls[c].tries + 1 < ReadAttempts
      <3>1. Follows(c, calls[c]) /\ calls[c].st = "lost"
        BY FrameNow DEF Failed
      <3>2. calls[c].tries \in Nat /\ calls[c].tries + 1 \in 0..ReadAttempts
        BY <2>1, <3>1, ApiAssumption DEF Follows, Frames
      <3>3. frame \in Frames /\ frame.st = "sleeping"
        BY <2>1, <3>1, <3>2 DEF Follows, Frames
      <3> QED
        BY <2>1, <3>3 DEF Follows
    <2>2. CASE ~(c \in Reads /\ calls[c].tries + 1 < ReadAttempts)
      <3>1. frame = Ended(calls[c], "failed")
        BY <2>2
      <3> HIDE DEF frame
      <3> QED
        BY <3>1, FrameNow, EndedFollows
    <2> QED
      BY <2>1, <2>2
  <1>2. /\ calls' = [calls EXCEPT ![c] = frame] /\ events' \in 0..MaxEvents
        /\ OnlyCalls /\ login' = login
    BY EventTyped DEF Failed, IndInv
  <1> HIDE DEF frame
  <1> QED
    BY <1>1, <1>2, OneCallStep

LEMMA AgainInd == ASSUME IndInv, NEW c \in Calls, Again(c) PROVE IndInv'
  <1> DEFINE frame == [calls[c] EXCEPT !.st = "sent", !.tok = token]
  <1>1. Follows(c, frame) /\ frame.st = "sent"
    BY FrameNow, SentFollows DEF Again
  <1>2. /\ calls' = [calls EXCEPT ![c] = frame] /\ events' \in 0..MaxEvents
        /\ OnlyCalls /\ login' = login
    BY EventTyped DEF Again, Send, IndInv
  <1> HIDE DEF frame
  <1> QED
    BY <1>1, <1>2, OneCallStep

LEMMA UnauthorizedInd == ASSUME IndInv, NEW c \in Calls, Unauthorized(c) PROVE IndInv'
  <1>1. OnlyCalls /\ events' \in 0..MaxEvents /\ calls[c].st = "refused"
    BY EventTyped DEF Unauthorized, IndInv
  <1>2. CASE calls[c].tok = 0 \/ calls[c].re
    <2>1. calls' = [calls EXCEPT ![c] = Ended(calls[c], "failed")] /\ login' = login
      BY <1>2 DEF Unauthorized
    <2>2. Follows(c, Ended(calls[c], "failed")) /\ Ended(calls[c], "failed").st = "failed"
      BY FrameNow, EndedFollows
    <2> QED
      BY <1>1, <2>1, <2>2, OneCallStep
  <1>3. CASE ~(calls[c].tok = 0 \/ calls[c].re) /\ calls[c].tok # token
    <2> DEFINE renewed == [calls[c] EXCEPT !.re = TRUE]
               frame == [renewed EXCEPT !.st = "sent", !.tok = token]
    <2>1. Follows(c, renewed) /\ renewed.st = "refused"
      BY <1>1, FrameNow DEF Follows, Frames
    <2>2. calls' = [calls EXCEPT ![c] = frame] /\ login' = login
      BY <1>3 DEF Unauthorized, Send
    <2> HIDE DEF renewed
    <2>3. Follows(c, frame) /\ frame.st = "sent"
      BY <2>1, SentFollows
    <2> HIDE DEF frame
    <2> QED
      BY <1>1, <2>2, <2>3, OneCallStep
  <1>4. CASE ~(calls[c].tok = 0 \/ calls[c].re) /\ calls[c].tok = token
    <2> DEFINE frame == [calls[c] EXCEPT !.st = "waiting", !.re = TRUE]
    <2>1. Follows(c, frame)
      BY <1>1, FrameNow DEF Follows, Frames
    <2>2. calls' = [calls EXCEPT ![c] = frame] /\ login' = NeedsLogin(login)
      BY <1>4 DEF Unauthorized
    <2> HIDE DEF frame
    <2> QED
      BY <1>1, <2>1, <2>2, OneCallStep
  <1> QED
    BY <1>2, <1>3, <1>4

-----------------------------------------------------------------------------
(* The re-login.                                                           *)

LEMMA ServeLoginInd == ASSUME IndInv, ServeLogin PROVE IndInv'
  <1>1. /\ login.st = "asked" /\ events' \in 0..MaxEvents
        /\ UNCHANGED <<kind, known, token, want, features, sockVars, waits, rejected, calls, out>>
    BY EventTyped DEF ServeLogin, IndInv
  <1>2. /\ valid' \subseteq Tokens /\ login' \in Logins /\ login'.st # "none"
        /\ login'.st = "granted" => login'.tok # 0
    <2>1. CASE known
      <3>1. PICK t \in Tokens : valid' = (valid \cap InUse) \cup {t}
                                /\ login' = [st |-> "granted", tok |-> t]
        BY <2>1 DEF ServeLogin
      <3>2. valid \subseteq Tokens /\ t # 0
        BY TokensTyped DEF IndInv, TypeOK
      <3> QED
        BY <3>1, <3>2 DEF Logins
    <2>2. CASE ~known
      BY <2>2 DEF ServeLogin, IndInv, TypeOK, Logins
    <2> QED
      BY <2>1, <2>2
  <1>3. TypeOK'
    BY <1>1, <1>2 DEF IndInv, TypeOK, sockVars
  <1>4. Linked' /\ RunsFirst'
    BY <1>1, <1>2 DEF IndInv, Linked, RunsFirst, sockVars
  <1> QED
    BY <1>3, <1>4 DEF IndInv

LEMMA LoseLoginInd == ASSUME IndInv, LoseLogin PROVE IndInv'
  <1>1. /\ events' \in 0..MaxEvents /\ login' = [st |-> "failed", tok |-> 0]
        /\ UNCHANGED <<relayVars, token, want, features, sockVars, waits, rejected, calls, out>>
    BY EventTyped DEF LoseLogin, IndInv
  <1>2. login' \in Logins /\ login'.st = "failed"
    BY <1>1 DEF Logins
  <1>3. TypeOK'
    BY <1>1, <1>2 DEF IndInv, TypeOK, sockVars, relayVars
  <1>4. Linked' /\ RunsFirst'
    BY <1>1, <1>2 DEF IndInv, Linked, RunsFirst, sockVars
  <1> QED
    BY <1>3, <1>4 DEF IndInv

\* What becomes of the requests when the re-login has been answered.
LEMMA LoginReturnsCalls ==
    ASSUME IndInv, LoginReturns
    PROVE  /\ calls' \in [Calls -> Frames] /\ RunsFirst'
           /\ \A c \in Calls : calls'[c].st # "waiting"
  <1>1. calls' = [c \in Calls |->
          IF calls[c].st # "waiting" THEN calls[c]
          ELSE IF login.st = "granted"
          THEN [calls[c] EXCEPT !.st = "sent", !.tok = login.tok]
          ELSE Ended(calls[c], "failed")]
    BY DEF LoginReturns
  <1>2. ASSUME NEW c \in Calls PROVE Follows(c, calls'[c]) /\ calls'[c].st # "waiting"
    <2>1. Follows(c, calls[c]) /\ login.tok \in Tokens \cup {0}
      BY FrameNow DEF IndInv, TypeOK, Logins
    <2>2. CASE calls[c].st # "waiting"
      BY <1>1, <2>1, <2>2
    <2>3. CASE calls[c].st = "waiting" /\ login.st = "granted"
      <3>1. calls'[c] = [calls[c] EXCEPT !.st = "sent", !.tok = login.tok]
        BY <1>1, <2>3
      <3> QED
        BY <2>1, <2>3, <3>1 DEF Follows, Frames
    <2>4. CASE calls[c].st = "waiting" /\ login.st # "granted"
      <3>1. calls'[c] = Ended(calls[c], "failed")
        BY <1>1, <2>4
      <3>2. Follows(c, Ended(calls[c], "failed")) /\ Ended(calls[c], "failed").st = "failed"
        BY <2>1, EndedFollows
      <3> QED
        BY <3>1, <3>2
    <2> QED
      BY <2>2, <2>3, <2>4
  <1>3. calls' \in [Calls -> Frames]
    BY <1>1, <1>2 DEF Follows
  <1> QED
    BY <1>2, <1>3 DEF RunsFirst, Follows

LEMMA LoginReturnsInd == ASSUME IndInv, LoginReturns PROVE IndInv'
  <1>1. /\ events' \in 0..MaxEvents /\ login' = NoLogin /\ waits' = FALSE /\ rejected' \in BOOLEAN
        /\ UNCHANGED <<relayVars, want, features, out>>
        /\ token' = IF login.st = "granted" THEN login.tok ELSE token
        /\ token' \in Tokens \cup {0}
    BY EventTyped DEF LoginReturns, IndInv, TypeOK, Logins
  <1>2. NoLogin \in Logins /\ NoLogin.st = "none"
    BY DEF NoLogin, Logins
  <1>3. /\ SockTyped' /\ (connected' => sock'.st \notin {"none", "connecting"})
        /\ features = "unknown" => sock'.st = "none" /\ shown' # "up"
        /\ token' = 0 => sock' = NoSock
    <2>1. CASE waits /\ want /\ login.st = "granted"
      <3>1. OpenSocket(login.tok) /\ UNCHANGED shown /\ login.tok \in Tokens \cup {0}
            /\ login.tok # 0 /\ token' = login.tok
        BY <1>1, <2>1 DEF LoginReturns, IndInv, TypeOK, Linked, Logins
      <3>2. /\ asks' \subseteq {"newest", "stale"} /\ sock' \in Sockets
            /\ connected' = FALSE /\ pinged' = FALSE /\ probing' = FALSE /\ retry' = FALSE
            /\ IF login.tok = 0 \/ features = "unknown" THEN sock' = NoSock
                                                        ELSE sock'.st = "connecting"
        BY <3>1, OpenSocketSets
      <3> QED
        BY <3>1, <3>2, NoSockTyped DEF IndInv, TypeOK, Linked, SockTyped
    <2>2. CASE ~(waits /\ want /\ login.st = "granted")
      <3>1. UNCHANGED <<asks, sock, connected, pinged, probing, shown>> /\ retry' \in BOOLEAN
        BY <2>2 DEF LoginReturns, IndInv, TypeOK
      <3>2. token' = 0 => token = 0
        BY <1>1 DEF IndInv, Linked
      <3> QED
        BY <3>1, <3>2 DEF IndInv, TypeOK, Linked, SockTyped
    <2> QED
      BY <2>1, <2>2
  <1>4. token' = 0 => out'.st = "done"
    BY <1>1 DEF IndInv, Linked
  <1>5. TypeOK'
    BY <1>1, <1>2, <1>3, LoginReturnsCalls DEF IndInv, TypeOK, SockTyped, relayVars
  <1>6. Linked'
    BY <1>1, <1>2, <1>3, <1>4 DEF Linked
  <1> QED
    BY <1>5, <1>6, LoginReturnsCalls DEF IndInv

-----------------------------------------------------------------------------
(* Logout, and failures.                                                   *)

LEMMA LogoutInd == ASSUME IndInv, Logout \/ ServeLogout PROVE IndInv'
  <1>1. /\ events' \in 0..MaxEvents /\ want' \in BOOLEAN /\ valid' \subseteq valid
        /\ UNCHANGED <<kind, known, token, features, sockVars, loginVars, calls>>
        /\ out'.st # "no" /\ out.st # "done" /\ out' \in Exits
    <2>1. CASE Logout
      BY <2>1, EventTyped DEF Logout, IndInv, TypeOK, Exits, relayVars
    <2>2. CASE ServeLogout
      BY <2>2, EventTyped DEF ServeLogout, IndInv, TypeOK, Exits
    <2> QED
      BY <2>1, <2>2
  <1>2. TypeOK'
    BY <1>1 DEF IndInv, TypeOK, sockVars, loginVars
  <1>3. Linked' /\ RunsFirst'
    BY <1>1 DEF IndInv, Linked, RunsFirst, sockVars, loginVars
  <1> QED
    BY <1>2, <1>3 DEF IndInv

LEMMA LogoutReturnsInd == ASSUME IndInv, LogoutReturns PROVE IndInv'
  <1>1. /\ events' \in 0..MaxEvents /\ token' = 0 /\ retry' = FALSE
        /\ sock' = NoSock /\ connected' = FALSE /\ pinged' = FALSE /\ probing' = FALSE
        /\ UNCHANGED <<relayVars, want, features, asks, shown, loginVars, calls>>
        /\ out' \in Exits /\ out'.st = "done"
    BY EventTyped DEF LogoutReturns, Teardown, IndInv, Exits
  <1>2. TypeOK'
    BY <1>1, NoSockTyped DEF IndInv, TypeOK, relayVars, loginVars
  <1>3. Linked' /\ RunsFirst'
    BY <1>1, NoSockTyped DEF IndInv, Linked, RunsFirst, loginVars
  <1> QED
    BY <1>2, <1>3 DEF IndInv

LEMMA RestartInd == ASSUME IndInv, Restart \/ AccountGoes PROVE IndInv'
  <1>1. /\ events' \in 0..MaxEvents /\ valid' = {} /\ known' \in BOOLEAN
        /\ UNCHANGED <<kind, token, want, features, asks, connected, pinged, probing,
                       retry, shown, loginVars, calls, out>>
    BY EventTyped DEF Restart, AccountGoes, NotClient, IndInv, TypeOK
  <1>2. /\ sock \in Sockets /\ sock' \in Sockets
        /\ sock' = sock \/ (sock.st \in {"connecting", "open"} /\ sock'.st \in {"lost", "refused"})
    <2>1. sock \in Sockets
      BY DEF IndInv, TypeOK
    <2>2. \/ sock' = sock
          \/ /\ sock.st \in {"connecting", "open"}
             /\ sock' = [sock EXCEPT !.st = "lost"] \/ sock' = [sock EXCEPT !.st = "refused"]
      <3>1. CASE Restart
        BY <3>1 DEF Restart
      <3>2. CASE AccountGoes
        BY <3>2 DEF AccountGoes
      <3> QED
        BY <3>1, <3>2
    <2> QED
      BY <2>1, <2>2 DEF Sockets
  <1>3. TypeOK'
    <2>1. connected' \/ pinged' \/ probing' => sock'.st # "none"
      BY <1>1, <1>2 DEF IndInv, TypeOK
    <2>2. UNCHANGED <<login, waits, rejected>> /\ {} \subseteq Tokens
      BY <1>1 DEF loginVars
    <2>3. sock' \in Sockets
      BY <1>2
    <2> QED
      BY <1>1, <2>1, <2>2, <2>3 DEF IndInv, TypeOK
  <1>4. Linked' /\ RunsFirst'
    BY <1>1, <1>2, NoSockTyped DEF IndInv, Linked, RunsFirst, loginVars
  <1> QED
    BY <1>3, <1>4 DEF IndInv

LEMMA LapsesInd == ASSUME IndInv, NEW t \in Tokens, Lapses(t) PROVE IndInv'
  <1>1. /\ events' \in 0..MaxEvents /\ valid' \subseteq valid
        /\ UNCHANGED <<kind, known, token, want, features, sockVars, loginVars, calls, out>>
    BY EventTyped DEF Lapses, IndInv
  <1>2. TypeOK'
    BY <1>1 DEF IndInv, TypeOK, sockVars, loginVars
  <1>3. Linked' /\ RunsFirst'
    BY <1>1 DEF IndInv, Linked, RunsFirst, sockVars, loginVars
  <1> QED
    BY <1>2, <1>3 DEF IndInv

LEMMA StutterInd == ASSUME IndInv, UNCHANGED vars PROVE IndInv'
  BY DEF IndInv, TypeOK, Linked, RunsFirst, vars, relayVars, sockVars, loginVars

LEMMA StepInd == IndInv /\ [Next]_vars => IndInv'
  <1> SUFFICES ASSUME IndInv, [Next]_vars PROVE IndInv'
    OBVIOUS
  <1>1. CASE ConnectSocket
    BY <1>1, ConnectSocketInd
  <1>2. ASSUME NEW a \in {"newest", "stale"}, NEW ok \in BOOLEAN, HealthReturns(a, ok)
        PROVE  IndInv'
    BY <1>2, HealthReturnsInd
  <1>3. CASE SocketOpens
    BY <1>3, SocketOpensInd
  <1>4. CASE Authenticated
    BY <1>4, AuthenticatedInd
  <1>5. CASE Frame
    BY <1>5, FrameInd
  <1>6. CASE OnClose
    BY <1>6, OnCloseInd
  <1>7. CASE ReadyTimeout \/ AliveTimeout
    BY <1>7, GivesUpInd DEF ReadyTimeout, AliveTimeout
  <1>8. CASE PingTick
    BY <1>8, PingTickInd
  <1>9. CASE RetryFires
    BY <1>9, RetryFiresInd
  <1>10. CASE ClickStrip
    BY <1>10, ReconnectInd DEF ClickStrip
  <1>11. CASE Wakes
    BY <1>11, WakesInd
  <1>12. ASSUME NEW c \in Calls, Start(c) \/ Serve(c) \/ Lose(c) \/ Answered(c)
         PROVE  IndInv'
    BY <1>12, StartInd, ServeInd, LoseInd, AnsweredInd
  <1>13. ASSUME NEW c \in Calls, Failed(c) \/ Again(c) \/ Unauthorized(c)
         PROVE  IndInv'
    BY <1>13, FailedInd, AgainInd, UnauthorizedInd
  <1>14. CASE ServeLogin
    BY <1>14, ServeLoginInd
  <1>15. CASE LoseLogin
    BY <1>15, LoseLoginInd
  <1>16. CASE LoginReturns
    BY <1>16, LoginReturnsInd
  <1>17. CASE Logout \/ ServeLogout
    BY <1>17, LogoutInd
  <1>18. CASE LogoutReturns
    BY <1>18, LogoutReturnsInd
  <1>19. CASE Restart \/ AccountGoes
    BY <1>19, RestartInd
  <1>20. ASSUME NEW t \in Tokens, Lapses(t) PROVE IndInv'
    BY <1>20, LapsesInd
  <1>21. ASSUME NEW silently \in BOOLEAN, Breaks(silently) PROVE IndInv'
    BY <1>21, BreaksInd
  <1>22. CASE UNCHANGED vars
    BY <1>22, StutterInd
  <1> QED
    BY <1>1, <1>2, <1>3, <1>4, <1>5, <1>6, <1>7, <1>8, <1>9, <1>10, <1>11, <1>12, <1>13,
       <1>14, <1>15, <1>16, <1>17, <1>18, <1>19, <1>20, <1>21, <1>22 DEF Next

(* Every state of ApiClient satisfies the inductive invariant.              *)
THEOREM Invariance == Spec => []IndInv
  BY InitInd, StepInd, PTL DEF Spec

(* Every variable stays in its domain; the link is up only on a socket, and  *)
(* whoever waits for a re-login has one under way (_reauth).                 *)
THEOREM TypeCorrect == Spec => []TypeOK
  <1>1. IndInv => TypeOK
    BY DEF IndInv
  <1> QED
    BY <1>1, Invariance, PTL

-----------------------------------------------------------------------------
(* Logout.                                                                 *)

(* Once logout is through and no re-login is under way, none begins, no      *)
(* token comes back and no socket is opened, whichever timer, request or     *)
(* answer comes next (logout, _closeSocket, _reauth).                        *)
THEOREM LogoutHolds == Spec => LogoutIsFinal
  <1>1. ASSUME IndInv, Next, SignedOut PROVE SignedOut' /\ sock' = NoSock
    <2>1. /\ out.st = "done" /\ token = 0 /\ login.st = "none" /\ sock = NoSock
          /\ sock.st = "none" /\ ~connected /\ ~probing
      BY <1>1, NoSockTyped DEF SignedOut, IndInv, TypeOK, Linked
    <2>2. CASE UNCHANGED <<out, token, login, sock>>
      BY <2>1, <2>2 DEF SignedOut
    <2>3. ASSUME NEW c \in Calls, Unauthorized(c) PROVE UNCHANGED <<out, token, login, sock>>
      BY <2>1, <2>3 DEF Unauthorized, OnlyCalls, sockVars
    <2>4. ASSUME NEW c \in Calls,
                 Serve(c) \/ Lose(c) \/ Answered(c) \/ Failed(c) \/ Again(c)
          PROVE  UNCHANGED <<out, token, login, sock>>
      BY <2>4 DEF Serve, Lose, Answered, Failed, Again, OnlyCalls, sockVars
    <2>5. ASSUME RetryFires PROVE UNCHANGED <<out, token, login, sock>>
      BY <2>1, <2>5 DEF RetryFires, NotSocket, OpenSocket, Teardown, loginVars
    <2>6. ASSUME NEW a \in {"newest", "stale"}, NEW ok \in BOOLEAN, HealthReturns(a, ok)
          PROVE  UNCHANGED <<out, token, login, sock>>
      BY <2>1, <2>6 DEF HealthReturns, loginVars
    <2>7. ASSUME NEW t \in Tokens, Lapses(t) PROVE UNCHANGED <<out, token, login, sock>>
      BY <2>7 DEF Lapses, sockVars, loginVars
    <2>8. ASSUME Restart \/ AccountGoes PROVE UNCHANGED <<out, token, login, sock>>
      BY <2>1, <2>8 DEF Restart, AccountGoes, NotClient, loginVars
    <2>9. ~ReadyTimeout /\ ~AliveTimeout /\ ~PingTick /\ ~OnClose /\ ~SocketOpens
          /\ ~Authenticated /\ ~Frame /\ \A silently \in BOOLEAN : ~Breaks(silently)
      BY <2>1 DEF ReadyTimeout, AliveTimeout, PingTick, GivesUp, OnClose, SocketOpens,
                  Authenticated, Frame, Breaks
    <2>10. ~ConnectSocket /\ ~ClickStrip /\ ~Wakes /\ ~ServeLogin /\ ~LoseLogin /\ ~LoginReturns
           /\ ~Logout /\ ~ServeLogout /\ ~LogoutReturns /\ \A c \in Calls : ~Start(c)
      BY <2>1 DEF ConnectSocket, ClickStrip, Wakes, Reconnect, ServeLogin, LoseLogin,
                  LoginReturns, Logout, ServeLogout, LogoutReturns, Start
    <2> QED
      BY <1>1, <2>2, <2>3, <2>4, <2>5, <2>6, <2>7, <2>8, <2>9, <2>10 DEF Next
  <1>2. IndInv /\ [Next]_vars => [SignedOut => SignedOut' /\ sock' = NoSock]_vars
    BY <1>1
  <1> QED
    BY <1>2, Invariance, PTL DEF Spec, LogoutIsFinal

-----------------------------------------------------------------------------
(* The promise.                                                            *)

\* The link as Connection sees it.
Link == IF connected THEN "up" ELSE IF sock.st # "none" THEN "trying" ELSE "down"

Outcomes == [c \in Calls |-> Outcome(calls[c].st)]
Effects  == [c \in Calls |-> calls[c].ran]
Leaving  == out.st # "no"

LEMMA InitMaps == Init => Promise!Init
  <1> SUFFICES ASSUME Init PROVE Promise!Init
    OBVIOUS
  <1>1. connected = FALSE /\ sock.st = "none" /\ shown = "none" /\ out.st = "no"
    BY DEF Init, NoSock
  <1>2. \A c \in Calls : calls[c].st = "idle" /\ calls[c].ran = 0
    BY DEF Init, NoCall
  <1>3. \A c \in Calls : Outcome(calls[c].st) = "idle"
    BY <1>2 DEF Outcome
  <1> QED
    BY <1>1, <1>2, <1>3 DEF Promise!Init

\* Steps that the promise does not see.
LEMMA Unseen ==
    ASSUME IndInv, UNCHANGED <<shown, connected>>, sock'.st = "none" <=> sock.st = "none",
           out'.st = "no" <=> out.st = "no",
           UNCHANGED calls \/
             /\ \A c \in Calls : calls'[c].ran = calls[c].ran
             /\ \A c \in Calls : Outcome(calls'[c].st) = Outcome(calls[c].st)
    PROVE  UNCHANGED Promise!promised
  BY DEF Promise!promised

\* Steps of the link alone.
LEMMA LinkStep ==
    ASSUME UNCHANGED <<calls, out>>,
           \/ Link' = "trying" /\ shown' = shown
           \/ Link = "trying" /\ Link' = "up" /\ shown' = "up"
           \/ Link' = "down" /\ shown' = "down"
           \/ Link' = "down" /\ shown' = shown /\ shown # "up"
    PROVE  Promise!Next
  BY DEF Link, Promise!Next, Promise!Tries, Promise!ComesUp, Promise!GoesDown, Promise!IsClosed

LEMMA RestartMoves ==
    ASSUME IndInv, Restart \/ AccountGoes
    PROVE  UNCHANGED <<shown, connected>> /\ (sock'.st = "none" <=> sock.st = "none")
  <1>1. UNCHANGED <<shown, connected>> /\ sock \in Sockets
    BY DEF Restart, AccountGoes, NotClient, loginVars, IndInv, TypeOK
  <1>2. CASE Restart
    BY <1>1, <1>2 DEF Restart, Sockets
  <1>3. CASE AccountGoes
    BY <1>1, <1>3 DEF AccountGoes, Sockets
  <1> QED
    BY <1>1, <1>2, <1>3

LEMMA BreaksMoves ==
    ASSUME IndInv, NEW silently \in BOOLEAN, Breaks(silently)
    PROVE  UNCHANGED <<shown, connected>> /\ (sock'.st = "none" <=> sock.st = "none")
  <1>1. UNCHANGED <<shown, connected>> /\ sock \in Sockets
    BY DEF Breaks, IndInv, TypeOK
  <1>2. CASE silently
    BY <1>1, <1>2 DEF Breaks, Sockets
  <1>3. CASE ~silently
    BY <1>1, <1>3 DEF Breaks, Sockets
  <1> QED
    BY <1>1, <1>2, <1>3

LEMMA SocketMaps ==
    ASSUME IndInv, Next, UNCHANGED <<calls, out>>, ~LoginReturns
    PROVE  Promise!Next \/ UNCHANGED Promise!promised
  <1>1. /\ connected => sock.st \notin {"none", "connecting"}
        /\ token = 0 \/ features = "unknown" => sock.st = "none" /\ (features = "unknown" => shown # "up")
        /\ connected \in BOOLEAN
        /\ sock.st = "none" => Link = "down"
        /\ token \in Tokens \cup {0}
    BY NoSockTyped DEF IndInv, TypeOK, Linked, Link
  <1>2. ASSUME OpenSocket(token), UNCHANGED shown
        PROVE  Promise!Next \/ UNCHANGED Promise!promised
    <2>1. CASE token = 0 \/ features = "unknown"
      <3>1. sock' = NoSock /\ connected' = FALSE
        BY <1>2, <2>1 DEF OpenSocket, Teardown
      <3>2. sock.st = "none" /\ connected = FALSE
        BY <1>1, <2>1
      <3> QED
        BY <1>2, <3>1, <3>2, NoSockTyped, Unseen
    <2>2. CASE ~(token = 0 \/ features = "unknown")
      <3>1. sock'.st = "connecting" /\ connected' = FALSE
        BY <1>1, <1>2, <2>2, OpenSocketSets
      <3>2. Link' = "trying"
        BY <3>1 DEF Link
      <3> QED
        BY <1>2, <3>2, LinkStep
    <2> QED
      BY <2>1, <2>2
  <1>3. ASSUME NEW st, HandleClose(st) PROVE Promise!Next
    <2>1. sock'.st = "none" /\ connected' = FALSE /\ shown' = "down"
      BY <1>3, HandleCloseSets, NoSockTyped DEF IndInv
    <2>2. Link' = "down"
      BY <2>1 DEF Link
    <2> QED
      BY <2>1, <2>2, LinkStep
  <1>4. ASSUME NEW auth, MarkConnected(auth), sock.st # "none", ~connected PROVE Promise!Next
    <2>1. Link = "trying" /\ connected' = TRUE /\ shown' = "up"
      BY <1>4 DEF Link, MarkConnected
    <2>2. Link' = "up"
      BY <2>1 DEF Link
    <2> QED
      BY <2>1, <2>2, LinkStep
  <1>5. ASSUME UNCHANGED <<shown, connected, sock>> PROVE UNCHANGED Promise!promised
    BY <1>5, Unseen
  <1>6. ASSUME NEW a \in {"newest", "stale"}, NEW ok \in BOOLEAN, HealthReturns(a, ok)
        PROVE  Promise!Next \/ UNCHANGED Promise!promised
    <2>1. CASE a = "stale" \/ token = 0 \/ ~want
      BY <1>5, <1>6, <2>1 DEF HealthReturns
    <2>2. CASE ~(a = "stale" \/ token = 0 \/ ~want) /\ features' = "unknown"
      <3>1. shown' = "down" /\ UNCHANGED <<sock, connected>>
        BY <1>6, <2>2 DEF HealthReturns
      <3>2. features = "unknown"
        BY <1>6, <2>2, ApiAssumption DEF HealthReturns, IndInv, TypeOK
      <3>3. Link' = "down"
        BY <1>1, <3>1, <3>2 DEF Link
      <3> QED
        BY <3>1, <3>3, LinkStep
    <2>3. CASE ~(a = "stale" \/ token = 0 \/ ~want) /\ features' # "unknown"
      <3>1. connected' = FALSE /\ sock'.st = "connecting" /\ shown' = shown
        BY <1>6, <2>3 DEF HealthReturns, Dial, NoSock
      <3>2. Link' = "trying"
        BY <3>1 DEF Link
      <3> QED
        BY <3>1, <3>2, LinkStep
    <2> QED
      BY <2>1, <2>2, <2>3
  <1>7. ASSUME SocketOpens \/ Authenticated PROVE Promise!Next \/ UNCHANGED Promise!promised
    <2>1. sock.st # "none" /\ ~connected
      BY <1>1, <1>7 DEF SocketOpens, Authenticated
    <2>2. \/ MarkConnected(sock.auth)
          \/ /\ \/ sock' = [sock EXCEPT !.st = "open", !.auth = token]
                \/ sock' = [sock EXCEPT !.st = "lost"]
                \/ sock' = [sock EXCEPT !.st = "refused"]
             /\ UNCHANGED <<connected, shown>>
      BY <1>7 DEF SocketOpens, Authenticated
    <2>3. CASE MarkConnected(sock.auth)
      BY <1>4, <2>1, <2>3
    <2>4. CASE /\ sock'.st \in {"open", "lost", "refused"}
               /\ UNCHANGED <<connected, shown>>
      BY <2>1, <2>4, Unseen
    <2>5. sock \in Sockets
      BY DEF IndInv, TypeOK
    <2> QED
      BY <2>2, <2>3, <2>4, <2>5 DEF Sockets
  <1>8. ASSUME PingTick \/ OnClose \/ ReadyTimeout \/ AliveTimeout
        PROVE  Promise!Next \/ UNCHANGED Promise!promised
    <2>1. (\E st : HandleClose(st)) \/ UNCHANGED <<shown, connected, sock>>
      BY <1>8 DEF PingTick, OnClose, ReadyTimeout, AliveTimeout, GivesUp, Drop
    <2> QED
      BY <1>3, <1>5, <2>1
  <1>9. ASSUME ConnectSocket \/ RetryFires \/ ClickStrip \/ Wakes
        PROVE  Promise!Next \/ UNCHANGED Promise!promised
    <2>1. (OpenSocket(token) /\ UNCHANGED shown) \/ UNCHANGED <<shown, connected, sock>>
      BY <1>9 DEF ConnectSocket, RetryFires, ClickStrip, Wakes, Reconnect
    <2> QED
      BY <1>2, <1>5, <2>1
  <1>10. ASSUME Frame \/ (\E c \in Calls : Start(c) \/ Serve(c) \/ Lose(c) \/ Answered(c) \/ Failed(c)
                                           \/ Again(c) \/ Unauthorized(c))
                \/ ServeLogin \/ LoseLogin \/ (\E t \in Tokens : Lapses(t))
         PROVE  UNCHANGED Promise!promised
    <2>1. UNCHANGED <<shown, connected, sock>>
      BY <1>10 DEF Frame, Start, Serve, Lose, Answered, Failed, Again, Unauthorized, OnlyCalls,
                   ServeLogin, LoseLogin, Lapses, sockVars
    <2> QED
      BY <1>5, <2>1
  <1>11. ASSUME Restart \/ AccountGoes
                \/ (\E silently \in BOOLEAN : Breaks(silently))
         PROVE  UNCHANGED Promise!promised
    <2>1. UNCHANGED <<shown, connected>> /\ (sock'.st = "none" <=> sock.st = "none")
      BY <1>11, RestartMoves, BreaksMoves
    <2> QED
      BY <2>1, Unseen
  <1>12. ~Logout /\ ~ServeLogout /\ ~LogoutReturns
    <2>1. out \in Exits
      BY DEF IndInv, TypeOK
    <2> QED
      BY <2>1 DEF Logout, ServeLogout, LogoutReturns, Exits
  <1> QED
    BY <1>6, <1>7, <1>8, <1>9, <1>10, <1>11, <1>12 DEF Next

\* Steps of one request: what Connection sees of it.
LEMMA OneCallSeen ==
    ASSUME IndInv, OnlyCalls, NEW c \in Calls, NEW frame, calls' = [calls EXCEPT ![c] = frame]
    PROVE  /\ UNCHANGED <<Link, shown, Leaving>>
           /\ Outcomes' = [Outcomes EXCEPT ![c] = Outcome(frame.st)]
           /\ Effects' = [Effects EXCEPT ![c] = frame.ran]
  <1>1. \A d \in Calls : calls'[d] = IF d = c THEN frame ELSE calls[d]
    BY DEF IndInv, TypeOK
  <1>2. UNCHANGED <<Link, shown, Leaving>>
    BY DEF OnlyCalls, sockVars, Link, Leaving
  <1>3. Outcomes' = [Outcomes EXCEPT ![c] = Outcome(frame.st)]
    <2>1. \A d \in Calls : Outcome(calls'[d].st) =
                              IF d = c THEN Outcome(frame.st) ELSE Outcome(calls[d].st)
      BY <1>1
    <2> QED
      BY <2>1 DEF Outcomes
  <1>4. Effects' = [Effects EXCEPT ![c] = frame.ran]
    <2>1. \A d \in Calls : calls'[d].ran = IF d = c THEN frame.ran ELSE calls[d].ran
      BY <1>1
    <2> QED
      BY <2>1 DEF Effects
  <1> QED
    BY <1>2, <1>3, <1>4

\* Its outcome and its effects stay.
LEMMA CallUnseen ==
    ASSUME IndInv, OnlyCalls, NEW c \in Calls, NEW frame, calls' = [calls EXCEPT ![c] = frame],
           Outcome(frame.st) = Outcome(calls[c].st), frame.ran = calls[c].ran
    PROVE  UNCHANGED Promise!promised
  <1>1. Outcomes' = Outcomes /\ Effects' = Effects
    BY OneCallSeen DEF Outcomes, Effects
  <1>2. UNCHANGED <<Link, shown, Leaving>>
    BY OneCallSeen
  <1> QED
    BY <1>1, <1>2 DEF Promise!promised, Outcomes, Effects, Link, Leaving

LEMMA CallFails ==
    ASSUME IndInv, OnlyCalls, NEW c \in Calls, calls' = [calls EXCEPT ![c] = Ended(calls[c], "failed")],
           Outcome(calls[c].st) = "pending"
    PROVE  Promise!Fail({c})
  <1>1. Ended(calls[c], "failed").st = "failed" /\ Ended(calls[c], "failed").ran = calls[c].ran
    BY DEF Ended, NoCall
  <1>2. Outcome("failed") = "failed"
    BY DEF Outcome
  <1> DEFINE frame == Ended(calls[c], "failed")
  <1>3. /\ UNCHANGED <<Link, shown, Leaving>>
        /\ Outcomes' = [Outcomes EXCEPT ![c] = Outcome(frame.st)]
        /\ Effects' = [Effects EXCEPT ![c] = frame.ran]
    BY OneCallSeen
  <1> HIDE DEF frame
  <1>4. Effects' = Effects
    BY <1>1, <1>3 DEF Effects, frame
  <1>5. Outcomes' = [d \in Calls |-> IF d \in {c} THEN "failed" ELSE Outcomes[d]]
    BY <1>1, <1>2, <1>3 DEF Outcomes, frame
  <1> QED
    BY <1>3, <1>4, <1>5 DEF Promise!Fail, Outcomes, Effects, Link, Leaving

LEMMA CallMaps ==
    ASSUME IndInv, NEW c \in Calls,
           Start(c) \/ Serve(c) \/ Lose(c) \/ Answered(c) \/ Failed(c) \/ Again(c) \/ Unauthorized(c)
    PROVE  Promise!Next \/ UNCHANGED Promise!promised
  <1>1. calls[c] \in Frames /\ calls[c].ran \in Nat
    BY DEF IndInv, TypeOK, Frames
  <1>2. ASSUME Start(c) PROVE Promise!Begins(c)
    <2> DEFINE frame == [calls[c] EXCEPT !.st = "sent", !.tok = token]
    <2>1. calls' = [calls EXCEPT ![c] = frame] /\ OnlyCalls /\ calls[c].st = "idle"
      BY <1>2 DEF Start, Send
    <2>2. frame.st = "sent" /\ frame.ran = calls[c].ran
      BY <1>1 DEF Frames
    <2> HIDE DEF frame
    <2>3. /\ UNCHANGED <<Link, shown, Leaving>>
          /\ Outcomes' = [Outcomes EXCEPT ![c] = Outcome(frame.st)]
          /\ Effects' = [Effects EXCEPT ![c] = frame.ran]
      BY <2>1, OneCallSeen
    <2>4. Outcome("sent") = "pending" /\ Outcome("idle") = "idle"
      BY DEF Outcome
    <2>5. Effects' = Effects
      BY <2>2, <2>3 DEF Effects
    <2> QED
      BY <2>1, <2>2, <2>3, <2>4, <2>5 DEF Promise!Begins, Outcomes, Effects, Link, Leaving
  <1>3. ASSUME Serve(c) PROVE Promise!TakesEffect(c) \/ UNCHANGED Promise!promised
    <2>1. calls[c].st = "sent" /\ OnlyCalls
      BY <1>3 DEF Serve
    <2>2. Outcome("sent") = "pending" /\ Outcome("answered") = "pending"
          /\ Outcome("refused") = "pending"
      BY DEF Outcome
    <2>3. CASE calls[c].tok \in valid
      <3> DEFINE frame == [calls[c] EXCEPT !.st = "answered", !.ran = calls[c].ran + 1]
      <3>1. calls' = [calls EXCEPT ![c] = frame]
        BY <1>3, <2>3 DEF Serve
      <3>2. frame.st = "answered" /\ frame.ran = calls[c].ran + 1
        BY <1>1 DEF Frames
      <3> HIDE DEF frame
      <3>3. /\ UNCHANGED <<Link, shown, Leaving>>
            /\ Outcomes' = [Outcomes EXCEPT ![c] = Outcome(frame.st)]
            /\ Effects' = [Effects EXCEPT ![c] = frame.ran]
        BY <2>1, <3>1, OneCallSeen
      <3>4. Outcomes' = Outcomes
        BY <2>1, <2>2, <3>2, <3>3 DEF Outcomes
      <3>5. Effects' = [Effects EXCEPT ![c] = Effects[c] + 1]
        BY <3>2, <3>3 DEF Effects
      <3>6. c \in Reads \/ calls[c].ran = 0
        BY <2>1 DEF IndInv, RunsFirst
      <3>7. Outcomes[c] = "pending" /\ (c \in Reads \/ Effects[c] = 0)
        BY <2>1, <2>2, <3>6 DEF Outcomes, Effects
      <3> QED
        BY <3>3, <3>4, <3>5, <3>7 DEF Promise!TakesEffect, Outcomes, Effects, Link, Leaving
    <2>4. CASE calls[c].tok \notin valid
      <3> DEFINE frame == [calls[c] EXCEPT !.st = "refused"]
      <3>1. calls' = [calls EXCEPT ![c] = frame]
        BY <1>3, <2>4 DEF Serve
      <3>2. frame.st = "refused" /\ frame.ran = calls[c].ran
        BY <1>1 DEF Frames
      <3> HIDE DEF frame
      <3> QED
        BY <2>1, <2>2, <3>1, <3>2, CallUnseen
    <2> QED
      BY <2>3, <2>4
  <1>4. ASSUME Lose(c) PROVE UNCHANGED Promise!promised
    <2> DEFINE frame == [calls[c] EXCEPT !.st = "lost", !.tok = 0]
    <2>1. calls' = [calls EXCEPT ![c] = frame] /\ OnlyCalls /\ calls[c].st \in {"sent", "answered"}
      BY <1>4 DEF Lose
    <2>2. frame.st = "lost" /\ frame.ran = calls[c].ran
      BY <1>1 DEF Frames
    <2> HIDE DEF frame
    <2>3. Outcome(frame.st) = Outcome(calls[c].st)
      BY <2>1, <2>2 DEF Outcome
    <2> QED
      BY <2>1, <2>2, <2>3, CallUnseen
  <1>5. ASSUME Answered(c) PROVE Promise!Succeeds(c)
    <2> DEFINE frame == Ended(calls[c], "ok")
    <2>1. calls' = [calls EXCEPT ![c] = frame] /\ OnlyCalls /\ calls[c].st = "answered"
          /\ calls[c].ran > 0
      BY <1>5 DEF Answered, IndInv, RunsFirst
    <2>2. frame.st = "ok" /\ frame.ran = calls[c].ran
      BY DEF Ended, NoCall
    <2> HIDE DEF frame
    <2>3. /\ UNCHANGED <<Link, shown, Leaving>>
          /\ Outcomes' = [Outcomes EXCEPT ![c] = Outcome(frame.st)]
          /\ Effects' = [Effects EXCEPT ![c] = frame.ran]
      BY <2>1, OneCallSeen
    <2>4. Outcome("ok") = "ok" /\ Outcome("answered") = "pending"
      BY DEF Outcome
    <2>5. Effects' = Effects
      BY <2>2, <2>3 DEF Effects
    <2>6. Outcomes[c] = "pending" /\ Effects[c] > 0 /\ Outcomes' = [Outcomes EXCEPT ![c] = "ok"]
      BY <2>1, <2>2, <2>3, <2>4 DEF Outcomes, Effects
    <2> QED
      BY <2>3, <2>5, <2>6 DEF Promise!Succeeds, Outcomes, Effects, Link, Leaving
  <1>6. ASSUME Failed(c) PROVE Promise!Fail({c}) \/ UNCHANGED Promise!promised
    <2>1. OnlyCalls /\ calls[c].st = "lost"
      BY <1>6 DEF Failed
    <2>2. Outcome("lost") = "pending" /\ Outcome("sleeping") = "pending"
      BY DEF Outcome
    <2>3. CASE c \in Reads /\ calls[c].tries + 1 < ReadAttempts
      <3> DEFINE frame == [calls[c] EXCEPT !.st = "sleeping", !.tok = 0, !.tries = calls[c].tries + 1]
      <3>1. calls' = [calls EXCEPT ![c] = frame]
        BY <1>6, <2>3 DEF Failed
      <3>2. frame.st = "sleeping" /\ frame.ran = calls[c].ran
        BY <1>1 DEF Frames
      <3> HIDE DEF frame
      <3> QED
        BY <2>1, <2>2, <3>1, <3>2, CallUnseen
    <2>4. CASE ~(c \in Reads /\ calls[c].tries + 1 < ReadAttempts)
      <3>1. calls' = [calls EXCEPT ![c] = Ended(calls[c], "failed")]
        BY <1>6, <2>4 DEF Failed
      <3> QED
        BY <2>1, <2>2, <3>1, CallFails
    <2> QED
      BY <2>3, <2>4
  <1>7. ASSUME Again(c) PROVE UNCHANGED Promise!promised
    <2> DEFINE frame == [calls[c] EXCEPT !.st = "sent", !.tok = token]
    <2>1. calls' = [calls EXCEPT ![c] = frame] /\ OnlyCalls /\ calls[c].st = "sleeping"
      BY <1>7 DEF Again, Send
    <2>2. frame.st = "sent" /\ frame.ran = calls[c].ran
      BY <1>1 DEF Frames
    <2> HIDE DEF frame
    <2>3. Outcome(frame.st) = Outcome(calls[c].st)
      BY <2>1, <2>2 DEF Outcome
    <2> QED
      BY <2>1, <2>2, <2>3, CallUnseen
  <1>8. ASSUME Unauthorized(c) PROVE Promise!Fail({c}) \/ UNCHANGED Promise!promised
    <2>1. OnlyCalls /\ calls[c].st = "refused"
      BY <1>8 DEF Unauthorized
    <2>2. Outcome("refused") = "pending" /\ Outcome("sent") = "pending"
          /\ Outcome("waiting") = "pending"
      BY DEF Outcome
    <2>3. CASE calls' = [calls EXCEPT ![c] = Ended(calls[c], "failed")]
      BY <2>1, <2>2, <2>3, CallFails
    <2>4. CASE calls' = [calls EXCEPT ![c] = [[calls[c] EXCEPT !.re = TRUE] EXCEPT !.st = "sent", !.tok = token]]
      <3> DEFINE frame == [[calls[c] EXCEPT !.re = TRUE] EXCEPT !.st = "sent", !.tok = token]
      <3>1. frame.st = "sent" /\ frame.ran = calls[c].ran /\ calls' = [calls EXCEPT ![c] = frame]
        BY <1>1, <2>4 DEF Frames
      <3> HIDE DEF frame
      <3> QED
        BY <2>1, <2>2, <3>1, CallUnseen
    <2>5. CASE calls' = [calls EXCEPT ![c] = [calls[c] EXCEPT !.st = "waiting", !.re = TRUE]]
      <3> DEFINE frame == [calls[c] EXCEPT !.st = "waiting", !.re = TRUE]
      <3>1. frame.st = "waiting" /\ frame.ran = calls[c].ran /\ calls' = [calls EXCEPT ![c] = frame]
        BY <1>1, <2>5 DEF Frames
      <3> HIDE DEF frame
      <3> QED
        BY <2>1, <2>2, <3>1, CallUnseen
    <2> QED
      BY <1>8, <2>3, <2>4, <2>5 DEF Unauthorized, Send
  <1>9. ASSUME Promise!Fail({c}) PROVE Promise!Next
    BY <1>9 DEF Promise!Next
  <1>10. ASSUME Promise!Begins(c) \/ Promise!TakesEffect(c) \/ Promise!Succeeds(c) PROVE Promise!Next
    BY <1>10 DEF Promise!Next
  <1> QED
    BY <1>2, <1>3, <1>4, <1>5, <1>6, <1>7, <1>8, <1>9, <1>10

LEMMA LogoutMaps ==
    ASSUME IndInv, Logout \/ ServeLogout \/ LogoutReturns
    PROVE  Promise!Next \/ UNCHANGED Promise!promised
  <1>1. UNCHANGED <<Outcomes, Effects, shown>>
    BY DEF Logout, ServeLogout, LogoutReturns, sockVars, Outcomes, Effects
  <1>2. CASE Logout
    <2>1. UNCHANGED Link /\ Leaving' = TRUE
      BY <1>2 DEF Logout, sockVars, Link, Leaving
    <2>2. Promise!Leaves
      BY <1>1, <2>1 DEF Promise!Leaves, Link, Leaving, Outcomes, Effects
    <2> QED
      BY <2>2 DEF Promise!Next
  <1>3. CASE ServeLogout
    <2>1. UNCHANGED Link /\ Leaving' = Leaving
      BY <1>3 DEF ServeLogout, sockVars, Link, Leaving
    <2> QED
      BY <1>1, <2>1 DEF Promise!promised, Link, Leaving, Outcomes, Effects
  <1>4. CASE LogoutReturns
    <2>1. Leaving = TRUE /\ Leaving' = TRUE /\ Link' = "down"
      BY <1>4 DEF LogoutReturns, Teardown, NoSock, Link, Leaving
    <2>2. Promise!IsClosed
      BY <1>1, <2>1 DEF Promise!IsClosed, Link, Leaving, Outcomes, Effects
    <2> QED
      BY <2>2 DEF Promise!Next
  <1> QED
    BY <1>2, <1>3, <1>4

LEMMA LoginReturnsMaps ==
    ASSUME IndInv, LoginReturns
    PROVE  Promise!Next \/ UNCHANGED Promise!promised
  <1> DEFINE C == {c \in Calls : calls[c].st = "waiting"}
  <1>1. /\ UNCHANGED <<out, shown>>
        /\ calls' = [c \in Calls |->
              IF calls[c].st # "waiting" THEN calls[c]
              ELSE IF login.st = "granted"
              THEN [calls[c] EXCEPT !.st = "sent", !.tok = login.tok]
              ELSE Ended(calls[c], "failed")]
    BY DEF LoginReturns
  <1>2. calls \in [Calls -> Frames] /\ connected \in BOOLEAN /\ login.tok \in Tokens \cup {0}
    BY DEF IndInv, TypeOK, Logins
  <1>3. Outcome("waiting") = "pending" /\ Outcome("sent") = "pending" /\ Outcome("failed") = "failed"
    BY DEF Outcome
  <1>4. Leaving' = Leaving
    BY <1>1 DEF Leaving
  <1>5. \A c \in Calls : calls'[c].ran = calls[c].ran
    <2> SUFFICES ASSUME NEW c \in Calls PROVE calls'[c].ran = calls[c].ran
      OBVIOUS
    <2>1. Ended(calls[c], "failed").ran = calls[c].ran
      BY DEF Ended, NoCall
    <2>2. [calls[c] EXCEPT !.st = "sent", !.tok = login.tok].ran = calls[c].ran
      BY <1>2 DEF Frames
    <2> QED
      BY <1>1, <2>1, <2>2
  <1>6. Effects' = Effects
    BY <1>5 DEF Effects
  <1>7. CASE login.st = "granted"
    <2>1. \A c \in Calls : Outcome(calls'[c].st) = Outcome(calls[c].st)
      <3> SUFFICES ASSUME NEW c \in Calls PROVE Outcome(calls'[c].st) = Outcome(calls[c].st)
        OBVIOUS
      <3>1. [calls[c] EXCEPT !.st = "sent", !.tok = login.tok].st = "sent"
        BY <1>2 DEF Frames
      <3> QED
        BY <1>1, <1>3, <1>7, <3>1
    <2>2. Outcomes' = Outcomes
      BY <2>1 DEF Outcomes
    <2>3. CASE waits /\ want
      <3>1. OpenSocket(login.tok) /\ login.tok # 0
        BY <1>7, <2>3 DEF LoginReturns, IndInv, Linked
      <3>2. CASE features = "unknown"
        <4>1. sock' = NoSock /\ connected' = FALSE
          BY <3>1, <3>2 DEF OpenSocket, Teardown
        <4>2. sock.st = "none" /\ connected = FALSE
          BY <1>2, <3>2 DEF IndInv, Linked
        <4>3. Link' = Link
          BY <4>1, <4>2, NoSockTyped DEF Link
        <4> QED
          BY <1>1, <1>4, <1>6, <2>2, <4>3
          DEF Promise!promised, Link, Leaving, Outcomes, Effects
      <3>3. CASE features # "unknown"
        <4>1. sock'.st = "connecting" /\ connected' = FALSE
          BY <1>2, <3>1, <3>3, OpenSocketSets
        <4>2. Link' = "trying"
          BY <4>1 DEF Link
        <4>3. Promise!Tries
          BY <1>1, <1>4, <1>6, <2>2, <4>2 DEF Promise!Tries, Link, Leaving, Outcomes, Effects
        <4> QED
          BY <4>3 DEF Promise!Next
      <3> QED
        BY <3>2, <3>3
    <2>4. CASE ~(waits /\ want)
      <3>1. UNCHANGED <<sock, connected>>
        BY <2>4 DEF LoginReturns
      <3>2. Link' = Link
        BY <3>1 DEF Link
      <3> QED
        BY <1>1, <1>4, <1>6, <2>2, <3>2 DEF Promise!promised, Link, Leaving, Outcomes, Effects
    <2> QED
      BY <2>3, <2>4
  <1>8. CASE login.st # "granted"
    <2>1. UNCHANGED <<sock, connected>>
      BY <1>8 DEF LoginReturns
    <2>2. Link' = Link
      BY <2>1 DEF Link
    <2>3. \A c \in Calls : Outcome(calls'[c].st) = IF c \in C THEN "failed" ELSE Outcome(calls[c].st)
      <3> SUFFICES ASSUME NEW c \in Calls
                   PROVE  Outcome(calls'[c].st) = IF c \in C THEN "failed" ELSE Outcome(calls[c].st)
        OBVIOUS
      <3>1. Ended(calls[c], "failed").st = "failed"
        BY DEF Ended, NoCall
      <3> QED
        BY <1>1, <1>3, <1>8, <3>1
    <2>4. \A c \in C : Outcome(calls[c].st) = "pending"
      BY <1>3
    <2>5. C \in SUBSET Calls
      OBVIOUS
    <2> HIDE DEF C
    <2>6. Outcomes' = [c \in Calls |-> IF c \in C THEN "failed" ELSE Outcomes[c]]
      BY <2>3 DEF Outcomes
    <2>7. \A c \in C : Outcomes[c] = "pending"
      BY <2>4, <2>5 DEF Outcomes
    <2>8. Promise!Fail(C)
      BY <1>1, <1>4, <1>6, <2>2, <2>6, <2>7 DEF Promise!Fail, Link, Leaving, Outcomes, Effects
    <2> QED
      BY <2>5, <2>8 DEF Promise!Next
  <1> QED
    BY <1>7, <1>8

LEMMA StepMaps == IndInv /\ [Next]_vars => [Promise!Next]_(Promise!promised)
  <1> SUFFICES ASSUME IndInv, [Next]_vars
               PROVE  Promise!Next \/ UNCHANGED Promise!promised
    OBVIOUS
  <1>1. CASE UNCHANGED vars
    BY <1>1 DEF vars, sockVars, Promise!promised
  <1>2. CASE LoginReturns
    BY <1>2, LoginReturnsMaps
  <1>3. CASE Logout \/ ServeLogout \/ LogoutReturns
    BY <1>3, LogoutMaps
  <1>4. ASSUME NEW c \in Calls,
               Start(c) \/ Serve(c) \/ Lose(c) \/ Answered(c) \/ Failed(c) \/ Again(c) \/ Unauthorized(c)
        PROVE  Promise!Next \/ UNCHANGED Promise!promised
    BY <1>4, CallMaps
  <1>5. ASSUME Next, ~LoginReturns, ~Logout, ~ServeLogout, ~LogoutReturns,
               \A c \in Calls : ~Start(c) /\ ~Serve(c) /\ ~Lose(c) /\ ~Answered(c) /\ ~Failed(c)
                                /\ ~Again(c) /\ ~Unauthorized(c)
        PROVE  Promise!Next \/ UNCHANGED Promise!promised
    <2>1. UNCHANGED <<calls, out>>
      BY <1>5 DEF Next, ConnectSocket, HealthReturns, SocketOpens, Authenticated, Frame, OnClose,
                  ReadyTimeout, AliveTimeout, PingTick, GivesUp, Drop, NotSocket, RetryFires,
                  ClickStrip, Wakes, Reconnect, ServeLogin, LoseLogin, Restart, AccountGoes,
                  NotClient, Lapses, Breaks
    <2> QED
      BY <1>5, <2>1, SocketMaps
  <1> QED
    BY <1>1, <1>2, <1>3, <1>4, <1>5

(* LattixApi keeps the promise that the app relies on, as stated in          *)
(* Connection: "status" events are true, and what changes something is       *)
(* carried out at most once, whatever is lost and tried again (_req,         *)
(* _markConnected, _handleClose).                                            *)
THEOREM ImplementsConnection == Spec => KeepsPromise
  BY InitMaps, StepMaps, Invariance, PTL DEF Spec, KeepsPromise, Promise!Spec
=============================================================================
