------------------------------ MODULE Presence ------------------------------
(***************************************************************************)
(* Who is shown as online: ConnectionManager, websocket_endpoint and the   *)
(* requests that announce somebody (server/main.py), and the dots of the   *)
(* client behind each connection (onPresence, client/js/app.js).           *)
(*                                                                         *)
(* Whoever tells others of somebody first looks, then sends one frame      *)
(* after the other and gives way at each, so what is told may be outdated. *)
(* Each frame is a step, also the first one of a round, to which the code  *)
(* goes on without giving way.  Frames of one connection stay in order, so *)
(* a frame sent to a client that is there counts as shown.                 *)
(*                                                                         *)
(* A connection that has ended stands for a new one.  Which sessions may   *)
(* open one is the subject of Sessions.  Left out: what is sent besides    *)
(* presence, but for its failing.                                          *)
(***************************************************************************)
EXTENDS Naturals

CONSTANTS
    Names,     \* usernames
    Nobody,    \* not a username
    Conns,     \* connections
    NameOf,    \* whose connection each is
    Requests   \* requests that send a message or delete an account, at a time

ASSUME PresenceAssumption ==
    NameOf \in [Conns -> Names] /\ Conns \cap Requests = {} /\ Nobody \notin Names

VARIABLES
    active,    \* ConnectionManager.active
    up,        \* connections whose client is still there
    dots,      \* state.online of the client behind each connection
    contacts,  \* pairs of names that have exchanged envelopes
    doing,     \* what each websocket_endpoint and each request is at
    stray      \* history: dots that are wrong for one of the reasons named below

presenceVars == <<active, up, dots, contacts, doing, stray>>

-----------------------------------------------------------------------------
Tasks == Conns \cup Requests

\* about: who is talked of; todo: names still to be told, or, while a request
\* looks, the one to be told; to: connections still to be told; more: the other
\* one of sender and recipient is still to be talked of; late: history, what is
\* told was true when the task looked, and is not any more or was not meanwhile;
\* knew: history, the contacts of the account when its deletion was asked for.
AtRest ==
    [pc |-> "idle", about |-> Nobody, todo |-> {}, to |-> {}, more |-> FALSE, late |-> FALSE,
     knew |-> {}]

Pair(n, m) == {n, m}
Pairs == {Pair(n, m) : n \in Names, m \in Names} \ {{n} : n \in Names}

\* list_contacts
Befriended(n) == {m \in Names : Pair(n, m) \in contacts}

ConnsOf(n, conns) == {c \in conns : NameOf[c] = n}
OnlineIn(n, conns) == ConnsOf(n, conns) # {}
Online(n)    == OnlineIn(n, active)

\* A task that tells that somebody has come, or has gone.
Greeting(f)  == f.pc \in {"greet", "deliver"}
Parting(f)   == f.pc \in {"bye", "deleted"}

PresenceInit ==
    /\ active = {} /\ up = {} /\ stray = {}
    /\ dots = [c \in Conns |-> {}]
    /\ contacts \in SUBSET Pairs
    /\ doing = [t \in Tasks |-> AtRest]

\* The tasks, when the connections in conns are the active ones
Noticed(conns) ==
    [t \in Tasks |-> [doing[t] EXCEPT !.late =
        \/ @
        \/ doing[t].pc = "deliver" /\ ~OnlineIn(doing[t].about, conns)
        \/ Parting(doing[t]) /\ OnlineIn(doing[t].about, conns)]]

Goes(t, f) == doing' = [doing EXCEPT ![t] = f]

-----------------------------------------------------------------------------
(* Telling: _send_to, and the rounds of presence and delete_account.       *)

\* The next one to be told has these connections.
NextPeer(t, n) ==
    /\ doing[t].pc \in {"greet", "bye", "deleted"} /\ doing[t].to = {} /\ n \in doing[t].todo
    /\ Goes(t, [doing[t] EXCEPT !.to = ConnsOf(n, active), !.todo = @ \ {n}])
    /\ UNCHANGED <<active, up, dots, contacts, stray>>

\* The client behind c is told of n.
Shows(c, n, on, late) ==
    /\ dots' = [dots EXCEPT ![c] = IF on THEN @ \cup {n} ELSE @ \ {n}]
    /\ stray' = IF \/ late /\ on # Online(n)
                   \/ on /\ Pair(n, NameOf[c]) \notin contacts
                THEN stray \cup {<<c, n>>} ELSE stray \ {<<c, n>>}

Tell(t, c) ==
    /\ c \in doing[t].to /\ c \in up
    /\ Shows(c, doing[t].about, Greeting(doing[t]), doing[t].late)
    /\ Goes(t, [doing[t] EXCEPT !.to = @ \ {c}])
    /\ UNCHANGED <<active, up, contacts>>

\* A frame to a client that is gone is lost, or fails: then disconnect.
TellFails(t, c) ==
    /\ c \in doing[t].to /\ c \notin up
    /\ active' \in {active, active \ {c}}
    /\ doing' = [Noticed(active') EXCEPT ![t].to = @ \ {c}]
    /\ UNCHANGED <<up, dots, contacts, stray>>

\* The same for any other frame
SendFails(c) ==
    /\ c \in active \ up
    /\ active' = active \ {c}
    /\ doing' = Noticed(active')
    /\ UNCHANGED <<up, dots, contacts, stray>>

-----------------------------------------------------------------------------
(* websocket_endpoint.                                                     *)

\* manager.connect and "ready", at which the client forgets its dots
Opens(c) ==
    /\ doing[c] = AtRest
    /\ active' = active \cup {c} /\ up' = up \cup {c}
    /\ dots' = [dots EXCEPT ![c] = {}]
    /\ stray' = stray \ ({c} \X Names)
    /\ doing' = [Noticed(active') EXCEPT ![c] = [AtRest EXCEPT !.pc = "ready", !.about = NameOf[c]]]
    /\ UNCHANGED contacts

\* presence(username, True)
Greets(c) ==
    /\ doing[c].pc = "ready"
    /\ Goes(c, [doing[c] EXCEPT !.pc = "greet", !.todo = Befriended(NameOf[c])])
    /\ UNCHANGED <<active, up, dots, contacts, stray>>

\* send_presence_snapshot
LooksRound(c) ==
    /\ doing[c].pc = "greet" /\ doing[c].todo = {} /\ doing[c].to = {}
    /\ Goes(c, [doing[c] EXCEPT !.pc = "snapshot", !.todo = Befriended(NameOf[c])])
    /\ UNCHANGED <<active, up, dots, contacts, stray>>

Sees(c, n) ==
    /\ doing[c].pc = "snapshot" /\ n \in doing[c].todo
    /\ IF Online(n) /\ c \in up THEN Shows(c, n, TRUE, FALSE) ELSE UNCHANGED <<dots, stray>>
    /\ Goes(c, [doing[c] EXCEPT !.todo = @ \ {n}])
    /\ UNCHANGED <<active, up, contacts>>

SeesNot(c) ==
    /\ doing[c].pc = "snapshot" /\ c \notin up /\ \E n \in doing[c].todo : Online(n)
    /\ active' = active \ {c}
    /\ doing' = [Noticed(active') EXCEPT ![c].todo = {}]
    /\ UNCHANGED <<up, dots, contacts, stray>>

\* The client goes, or its connection breaks.
Breaks(c) ==
    /\ c \in up
    /\ up' = up \ {c}
    /\ UNCHANGED <<active, dots, contacts, doing, stray>>

\* Mutant of Leaves: the end of any tab is announced as the end of its user.
MutantLeavesAnyTab(c) ==
    /\ doing[c].pc = "ready" \/ (doing[c].pc = "snapshot" /\ doing[c].todo = {})
    /\ c \notin up
    /\ active' = active \ {c}
    /\ doing' = [Noticed(active') EXCEPT ![c] = [AtRest EXCEPT !.pc = "bye", !.about = NameOf[c],
                                                !.todo = Befriended(NameOf[c])]]
    /\ UNCHANGED <<up, dots, contacts, stray>>

\* The end of the handler: presence(username, False), if it was the last one.
Leaves(c) ==
    /\ doing[c].pc = "ready" \/ (doing[c].pc = "snapshot" /\ doing[c].todo = {})
    /\ c \notin up
    /\ active' = active \ {c}
    /\ doing' = [Noticed(active') EXCEPT ![c] =
                    IF OnlineIn(NameOf[c], active') THEN AtRest
                    ELSE [AtRest EXCEPT !.pc = "bye", !.about = NameOf[c],
                                        !.todo = Befriended(NameOf[c])]]
    /\ UNCHANGED <<up, dots, contacts, stray>>

\* presence or delete_account is through with its round.
Through(t) ==
    /\ Parting(doing[t]) /\ doing[t].todo = {} /\ doing[t].to = {}
    /\ Goes(t, AtRest)
    /\ UNCHANGED <<active, up, dots, contacts, stray>>

-----------------------------------------------------------------------------
(* Requests.                                                               *)

\* store_envelope, and deliver, which sends the envelope first
SendsMessage(r, n, m) ==
    /\ doing[r] = AtRest /\ n # m
    /\ contacts' = contacts \cup {Pair(n, m)}
    /\ Goes(r, [AtRest EXCEPT !.pc = "look", !.about = n, !.todo = {m}, !.more = TRUE])
    /\ UNCHANGED <<active, up, dots, stray>>

\* First the recipient is told of the sender, then the sender of the recipient.
OtherHalf(f) ==
    IF f.more THEN [AtRest EXCEPT !.pc = "look", !.about = CHOOSE n \in f.todo : TRUE,
                                  !.todo = {f.about}]
    ELSE AtRest

Looks(r) ==
    /\ doing[r].pc = "look"
    /\ \E n \in doing[r].todo :
          Goes(r, IF Online(doing[r].about)
                  THEN [doing[r] EXCEPT !.pc = "deliver", !.to = ConnsOf(n, active)]
                  ELSE OtherHalf(doing[r]))
    /\ UNCHANGED <<active, up, dots, contacts, stray>>

Delivered(r) ==
    /\ doing[r].pc = "deliver" /\ doing[r].to = {}
    /\ Goes(r, OtherHalf(doing[r]))
    /\ UNCHANGED <<active, up, dots, contacts, stray>>

\* delete_account reads the contacts first.
DeletesAccount(r, n) ==
    /\ doing[r] = AtRest
    /\ Goes(r, [AtRest EXCEPT !.pc = "delete", !.about = n, !.todo = Befriended(n),
                            !.knew = Befriended(n)])
    /\ UNCHANGED <<active, up, dots, contacts, stray>>

\* These are contacts no more: who shows a dot for the other will not be told
\* when it goes, but those who are told anyway.
Parts(pairs, told) ==
    /\ contacts' = contacts \ pairs
    /\ stray' = stray \cup ({s \in Conns \X Names : s[2] \in dots[s[1]] /\ Pair(s[2], NameOf[s[1]]) \in pairs} \ told)

\* delete_user in its thread, unless it raises
DeletesUser(r) ==
    /\ doing[r].pc = "delete"
    /\ Parts({p \in contacts : doing[r].about \in p},
             {s \in Conns \X Names : s[2] = doing[r].about /\ NameOf[s[1]] \in doing[r].knew})
    /\ Goes(r, [doing[r] EXCEPT !.pc = "purge"])
    /\ UNCHANGED <<active, up, dots>>

DeletesNot(r) ==
    /\ doing[r].pc = "delete"
    /\ Goes(r, AtRest)
    /\ UNCHANGED <<active, up, dots, contacts, stray>>

\* close_user
ClosesUser(r) ==
    /\ doing[r].pc = "purge"
    /\ LET gone == ConnsOf(doing[r].about, active) IN active' = active \ gone /\ up' = up \ gone
    /\ doing' = [Noticed(active') EXCEPT ![r].pc = "deleted"]
    /\ UNCHANGED <<dots, contacts, stray>>

\* delete_expired takes the last envelope of two.
Forgets(p) ==
    /\ p \in contacts
    /\ Parts({p}, {})
    /\ UNCHANGED <<active, up, dots, doing>>

\* Everything but the tables is in memory.
StartsAgain ==
    /\ active' = {} /\ up' = {}
    /\ doing' = [t \in Tasks |-> AtRest]
    /\ UNCHANGED <<dots, contacts, stray>>

PresenceNext ==
    \/ \E t \in Tasks, n \in Names : NextPeer(t, n)
    \/ \E t \in Tasks, c \in Conns : Tell(t, c)
    \/ \E t \in Tasks, c \in Conns : TellFails(t, c)
    \/ \E c \in Conns : SendFails(c)
    \/ \E c \in Conns : Opens(c)
    \/ \E c \in Conns : Greets(c)
    \/ \E c \in Conns : LooksRound(c)
    \/ \E c \in Conns, n \in Names : Sees(c, n)
    \/ \E c \in Conns : SeesNot(c)
    \/ \E c \in Conns : Breaks(c)
    \/ \E c \in Conns : Leaves(c)
    \/ \E t \in Tasks : Through(t)
    \/ \E r \in Requests, n, m \in Names : SendsMessage(r, n, m)
    \/ \E r \in Requests : Looks(r)
    \/ \E r \in Requests : Delivered(r)
    \/ \E r \in Requests, n \in Names : DeletesAccount(r, n)
    \/ \E r \in Requests : DeletesUser(r)
    \/ \E r \in Requests : DeletesNot(r)
    \/ \E r \in Requests : ClosesUser(r)
    \/ \E p \in contacts : Forgets(p)
    \/ StartsAgain

PresenceSpec == PresenceInit /\ [][PresenceNext]_presenceVars

-----------------------------------------------------------------------------
Frames == [pc : {"idle", "ready", "greet", "snapshot", "bye",
                 "look", "deliver", "delete", "purge", "deleted"},
           about : Names \cup {Nobody}, todo : SUBSET Names, to : SUBSET Conns,
           more : BOOLEAN, late : BOOLEAN, knew : SUBSET Names]

PresenceTypeOK ==
    /\ up \subseteq active /\ active \subseteq Conns
    /\ dots \in [Conns -> SUBSET Names]
    /\ contacts \subseteq Pairs
    /\ doing \in [Tasks -> Frames]
    /\ stray \subseteq Conns \X Names

Reaches(f, c) == NameOf[c] \in f.todo \/ c \in f.to

\* The task will tell c that n is gone, if only once the handler ends.
TellsGone(f, c, n) ==
    /\ f.about = n
    /\ f.pc \in {"ready", "greet", "snapshot"} \/ (f.pc \in {"bye", "purge", "deleted"} /\ Reaches(f, c))

\* The task will tell c that n is there.
TellsHere(f, c, n) ==
    \/ f.about = n /\ (\/ f.pc = "ready"
                       \/ f.pc \in {"greet", "look"} /\ Reaches(f, c)
                       \/ f.pc = "deliver" /\ c \in f.to)
    \/ f.about = NameOf[c] /\ f.pc \in {"look", "deliver"} /\ f.more /\ n \in f.todo

\* c will look itself whether n is there.
LooksFor(c, n) == doing[c].pc \in {"ready", "greet"} \/ (doing[c].pc = "snapshot" /\ n \in doing[c].todo)

(* Whatever comes between the frames of those who tell, a dot that is wrong  *)
(* is about to be put right - but for a frame that was overtaken, and for    *)
(* dots of former contacts: then it is wrong until the next change.          *)
DotsTell ==
    \A c \in up, n \in Names : <<c, n>> \notin stray =>
        /\ n \in dots[c] /\ ~Online(n) => \E t \in Tasks : TellsGone(doing[t], c, n)
        /\ n \notin dots[c] /\ Online(n) /\ Pair(n, NameOf[c]) \in contacts =>
              LooksFor(c, n) \/ \E t \in active \cup Requests : TellsHere(doing[t], c, n)
=============================================================================
