------------------------------ MODULE RelayUrl ------------------------------
(***************************************************************************)
(* Which relay the client talks to (client/js/config.js), and how it looks *)
(* (client/js/theme.js, client/js/preload.js), as operators on what the     *)
(* user typed or the browser stored.                                        *)
(*                                                                         *)
(* An address is a record: its scheme, "" when none was typed; user, that  *)
(* it names one; a host, "" when there is none; and the segments of its    *)
(* path, an empty one for two slashes in a row or a slash at the end.      *)
(* Ports, letter case and blanks are left out.                             *)
(***************************************************************************)
EXTENDS Naturals, SequencesExt

CONSTANTS
    LocalHosts,   \* hosts that LOCAL_HOST_RE matches
    PrivateHosts, \* hosts that PRIVATE_IP_RE matches
    Bracketed     \* those of them written in brackets, with colons

Local(host) == host \in LocalHosts
Near(host) == host \in LocalHosts \cup PrivateHosts

\* Without a scheme the code looks at the part before the first colon.
Guessed(a) == IF a.scheme # "" THEN a.scheme
              ELSE IF Near(a.host) /\ a.host \notin Bracketed THEN "http" ELSE "https"

Scheme(a) == CASE Guessed(a) = "ws" -> "http" [] Guessed(a) = "wss" -> "https"
               [] OTHER -> Guessed(a)

\* Slashes at the end of a path
Trimmed(path) == SubSeq(path, 1, Max({0} \cup {i \in DOMAIN path : path[i] # ""}))

\* Mutant of Base: only the WebSocket's path is taken off.
MutantBaseSocketOnly(path) ==
    LET p == Trimmed(path) IN IF p # <<>> /\ Last(p) = "ws" THEN Front(p) ELSE p

\* The path without what follows the relay's own: from the first "api" on, or
\* "ws" at the end
Base(path) ==
    LET p == Trimmed(path)
        api == {i \in DOMAIN p : p[i] = "api"}
    IN  IF api # {} THEN SubSeq(p, 1, Min(api) - 1)
        ELSE IF p # <<>> /\ Last(p) = "ws" THEN Front(p) ELSE p

Refused == [ok |-> FALSE]

\* normalizeServerUrl, for an input that is not empty, on a page of a scheme
Normalize(a, page) ==
    IF \/ Scheme(a) \notin {"http", "https"} \/ a.user \/ a.host = ""
       \/ page = "https" /\ Scheme(a) = "http" /\ ~Local(a.host)
    THEN Refused
    ELSE [ok |-> TRUE, warning |-> Scheme(a) = "http" /\ ~Near(a.host),
          url |-> [scheme |-> Scheme(a), user |-> FALSE, host |-> a.host, path |-> Base(a.path)]]

\* setServerUrl, then getServerUrl
Stored(url) == [url EXCEPT !.path = Trimmed(url.path)]

\* apiBase: SameOrigin when no other relay is stored, or the page's own is
SameOrigin == [scheme |-> "", user |-> FALSE, host |-> "", path |-> <<>>]
ApiBase(stored, origin, extension, default) ==
    IF stored = SameOrigin THEN IF extension THEN default ELSE SameOrigin
    ELSE IF ~extension /\ stored = origin THEN SameOrigin ELSE stored

ServerOrigin(base, origin) == IF base = SameOrigin THEN origin ELSE base

WsUrl(base, origin) ==
    LET o == ServerOrigin(base, origin)
    IN  [scheme |-> IF o.scheme = "http" THEN "ws" ELSE IF o.scheme = "https" THEN "wss" ELSE o.scheme,
         user |-> o.user, host |-> o.host, path |-> Append(Trimmed(o.path), "ws")]

-----------------------------------------------------------------------------
(* Appearance.  A browser is a record: its storage, "open", "full" (what is *)
(* stored can be read, and nothing written) or "blocked"; the theme and the *)
(* chat colour stored there, any string or NoValue; what its user prefers   *)
(* the system to look like; and media, that it has matchMedia.              *)

NoValue == "no value"
Palettes == {"dark", "light", "monokai", "kali"}
Themes == Palettes \cup {"system"}
ChatColors == {"default", "red", "green", "blue", "pink"}

Browsers(themes, colours) ==
    [store : {"open", "full", "blocked"}, theme : themes, chat : colours,
     os : {"dark", "light"}, media : BOOLEAN]

\* resolveTheme; theme.js takes a missing matchMedia for a dark system.
ResolveTheme(name, b) ==
    IF name = "system" THEN IF b.media /\ b.os = "light" THEN "light" ELSE "dark"
    ELSE IF name \in Palettes THEN name ELSE "dark"

Or(stored, default) == IF stored = NoValue THEN default ELSE stored

\* currentTheme, currentChatColor
Current(b, stored, default) == IF b.store = "blocked" THEN default ELSE Or(stored, default)

\* What the scripts set on the root element: its two attributes and its colour
\* scheme
Dressed(theme, chat) ==
    [theme |-> theme, chat |-> chat, scheme |-> IF theme = "light" THEN "light" ELSE "dark"]
Bare == [theme |-> NoValue, chat |-> NoValue, scheme |-> NoValue]

\* initAppearance: applyTheme and applyChatColor, which store what they apply
Appearance(b) ==
    LET theme  == Current(b, b.theme, "dark")
        chat   == Current(b, b.chat, "default")
        name   == IF theme \in Themes THEN theme ELSE "dark"
        colour == IF chat \in ChatColors THEN chat ELSE "default"
    IN  [root |-> Dressed(ResolveTheme(name, b), colour),
         browser |-> IF b.store = "open" THEN [b EXCEPT !.theme = name, !.chat = colour] ELSE b]

\* Mutant of Preload: the preference is taken for a palette.
MutantPreloadUnresolved(b) ==
    LET stored == Or(b.theme, "dark")
    IN  IF b.store = "blocked" THEN Bare
        ELSE Dressed(IF stored \in Palettes THEN stored ELSE "dark", Or(b.chat, "default"))

\* preload.js, before the first paint: whatever fails, it sets nothing; the chat
\* colour is taken as it is stored.
PreloadFails(b) == b.store = "blocked" \/ (Or(b.theme, "dark") = "system" /\ ~b.media)
Preload(b) ==
    IF PreloadFails(b) THEN Bare
    ELSE LET stored == Or(b.theme, "dark")
             named  == IF stored = "system" THEN b.os ELSE stored
         IN  Dressed(IF named \in Palettes THEN named ELSE "dark", Or(b.chat, "default"))

\* What is seen of it: styles.css has the dark palette for a root without a theme
\* as well, and an accent for four chat colours; a page without a colour scheme of
\* its own supports both (index.html), and follows the system.
Painted(root, b) ==
    [palette |-> IF root.theme \in Palettes THEN root.theme ELSE "dark",
     accent  |-> IF root.chat \in ChatColors THEN root.chat ELSE "default",
     scheme  |-> IF root.scheme = NoValue THEN b.os ELSE root.scheme]
=============================================================================
