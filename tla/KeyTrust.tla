------------------------------ MODULE KeyTrust ------------------------------
(***************************************************************************)
(* Which keys one tab encrypts to (client/js/app.js): the cache of the     *)
(* keys of contacts (state.peers), the safety codes pinned in localStorage *)
(* (state.pins), the alerts that hold sending back (state.keyAlerts), and  *)
(* the dialogs with which the user confirms or accepts a code.  The relay  *)
(* is not trusted: it serves any keys at any time.                         *)
(*                                                                         *)
(* A key record and the code computed from it are one number here.  Keys   *)
(* are fetched for a contact or for a group with all contacts in it, by up *)
(* to one task of each kind at a time: opening or refreshing, reviewing a  *)
(* code, a share link, the sending of a text and that of a file.           *)
(* Between an answer and its adoption lies the computation of the code;    *)
(* between the check of a file and its encryption, the reading of it.      *)
(* From the check of a text to the choice of its recipients nothing waits. *)
(***************************************************************************)
EXTENDS Naturals, FiniteSets

CONSTANTS
    Contacts,  \* the contacts of the user, who all share one group with them
    Group,     \* that group
    MaxKey,    \* bound on the keys served for a contact
    MaxBusy    \* bound on the tasks under way at a time

ASSUME TrustAssumption ==
    Group \notin Contacts /\ MaxKey \in Nat \ {0} /\ MaxBusy \in Nat \ {0}

VARIABLES
    peers,     \* state.peers: the keys in use, 0 for none
    meta,      \* the keys in the group's convo.meta.members, 0 for none
    pins,      \* state.pins
    alerts,    \* state.keyAlerts
    task,      \* what fetches keys
    dialog,    \* the safety-code dialog
    accepting, \* the contact whose new code the user is asked to accept, or Group
    overtaken  \* history: contacts of whom the user settled a code not in use

vars == <<peers, meta, pins, alerts, task, dialog, accepting, overtaken>>

-----------------------------------------------------------------------------
Keys  == 1..MaxKey
Tasks == {"open", "review", "link", "text", "file"}

NoPin    == [fp |-> 0, verified |-> FALSE]
NoAlert  == [old |-> 0, new |-> 0, reason |-> "none"]
NoTask   == [st |-> "idle", convo |-> Group, got |-> [c \in Contacts |-> 0], fp |-> 0]
NoDialog == [user |-> Group, fp |-> 0, was |-> FALSE]

Init == /\ peers = [c \in Contacts |-> 0] /\ meta = [c \in Contacts |-> 0]
        /\ pins = [c \in Contacts |-> NoPin] /\ alerts = [c \in Contacts |-> NoAlert]
        /\ task = [t \in Tasks |-> NoTask]
        /\ dialog = NoDialog /\ accepting = Group
        /\ overtaken = {}

Members(convo) == IF convo = Group THEN Contacts ELSE {convo}

\* isVerified
IsVerified(c) == pins[c].verified /\ alerts[c] = NoAlert

\* alertedIn
AlertedIn(convo) == {c \in Members(convo) : alerts[c] # NoAlert}

\* recipientsFor
KeyFor(convo, c, members) == IF convo = Group THEN members[c] ELSE peers[c]

-----------------------------------------------------------------------------
(* adoptPeerKeys, and what getPeerKeys and ensureGroupLoaded do with it.   *)

\* Mutant of Pinned: a code that was verified gives way like any other.
MutantPinnedAlways(c, fp) ==
    IF pins[c] = NoPin \/ pins[c].fp # fp
    THEN [pins EXCEPT ![c] = [fp |-> fp, verified |-> FALSE]] ELSE pins

\* Mutant of Pinned: the first code is pinned and stays.
MutantPinnedOnce(c, fp) ==
    IF pins[c] = NoPin THEN [pins EXCEPT ![c] = [fp |-> fp, verified |-> FALSE]] ELSE pins

\* Mutant of Pinned: only a code that replaces another is pinned.
MutantPinnedLater(c, fp) ==
    IF pins[c] # NoPin /\ pins[c].fp # fp /\ ~pins[c].verified
    THEN [pins EXCEPT ![c] = [fp |-> fp, verified |-> FALSE]] ELSE pins

\* The first code is pinned; so is a new one in place of one never verified.
Pinned(c, fp) ==
    IF pins[c] = NoPin \/ (pins[c].fp # fp /\ ~pins[c].verified)
    THEN [pins EXCEPT ![c] = [fp |-> fp, verified |-> FALSE]] ELSE pins

\* Mutant of Alerted: an alert is raised once and then left alone.
MutantAlertedOnce(c, fp) ==
    IF pins[c].verified /\ pins[c].fp # fp
    THEN IF alerts[c] # NoAlert THEN alerts
         ELSE [alerts EXCEPT ![c] = [old |-> pins[c].fp, new |-> fp, reason |-> "changed"]]
    ELSE IF pins[c].fp = fp /\ alerts[c].reason = "changed"
    THEN [alerts EXCEPT ![c] = NoAlert] ELSE alerts

\* A new code in place of a verified one is an alert; the old code ends it,
\* unless a share link raised it.
Alerted(c, fp) ==
    IF pins[c].verified /\ pins[c].fp # fp
    THEN IF alerts[c].new = fp THEN alerts
         ELSE [alerts EXCEPT ![c] = [old |-> pins[c].fp, new |-> fp, reason |-> "changed"]]
    ELSE IF pins[c].fp = fp /\ alerts[c].reason = "changed"
    THEN [alerts EXCEPT ![c] = NoAlert] ELSE alerts

\* Whether task t still needs an answer: getPeerKeys uses the cache, but for a
\* refresh; a group is always loaded.
Fresh(t, convo) == t \in {"open", "review"} \/ convo = Group \/ peers[convo] = 0

\* A task starts, and the relay answers it.  The members of a group, as the
\* relay tells them, are stored at once.
Fetch(t, convo, fp, served) ==
    /\ task[t] = NoTask
    /\ Cardinality({s \in Tasks : task[s] # NoTask}) < MaxBusy
    /\ t = "review" => convo # Group /\ dialog = NoDialog
    /\ IF t = "link" THEN convo # Group /\ fp # 0 ELSE fp = 0
    /\ task' = [task EXCEPT ![t] =
          [st |-> "loading", convo |-> convo, fp |-> fp,
           got |-> [c \in Contacts |-> IF Fresh(t, convo) /\ c \in Members(convo)
                                      THEN served[c] ELSE 0]]]
    /\ meta' = IF convo = Group THEN served ELSE meta
    /\ UNCHANGED <<peers, pins, alerts, dialog, accepting, overtaken>>

\* The code of one record has been computed.
Adopt(t, c) ==
    /\ task[t].st = "loading" /\ task[t].got[c] # 0
    /\ LET fp == task[t].got[c] IN
       /\ pins' = Pinned(c, fp)
       /\ alerts' = Alerted(c, fp)
       /\ peers' = [peers EXCEPT ![c] = fp]
    /\ overtaken' = overtaken \ {c}
    /\ task' = [task EXCEPT ![t].got[c] = 0]
    /\ UNCHANGED <<meta, dialog, accepting>>

\* The code of a record cannot be computed, and the task fails.
AdoptFails(t) ==
    /\ task[t].st = "loading" /\ task[t].got # NoTask.got
    /\ task' = [task EXCEPT ![t] = NoTask]
    /\ UNCHANGED <<peers, meta, pins, alerts, dialog, accepting, overtaken>>

Ready(t) == task[t].st = "loading" /\ task[t].got = NoTask.got

\* ensureGroupLoaded ends by giving the members the keys in use.
Merged(t) == IF task[t].convo = Group THEN peers ELSE meta

-----------------------------------------------------------------------------
(* The screen and its dialogs.                                             *)

\* selectConversation, openGroupInfo, onGroupEvent
ShowLoaded ==
    /\ Ready("open")
    /\ meta' = Merged("open")
    /\ task' = [task EXCEPT !["open"] = NoTask]
    /\ UNCHANGED <<peers, pins, alerts, dialog, accepting, overtaken>>

\* openFingerprint shows the code it has just fetched.
ShowCode ==
    /\ Ready("review")
    /\ LET c == task["review"].convo IN
       dialog' = [user |-> c, fp |-> peers[c], was |-> IsVerified(c)]
    /\ task' = [task EXCEPT !["review"] = NoTask]
    /\ UNCHANGED <<peers, meta, pins, alerts, accepting, overtaken>>

\* pinKey, and the end of the alert: the user has settled code fp for c.
Settle(c, fp, verified) ==
    /\ pins' = [pins EXCEPT ![c] = [fp |-> fp, verified |-> verified]]
    /\ alerts' = [alerts EXCEPT ![c] = NoAlert]
    /\ overtaken' = IF peers[c] \in {0, fp} THEN overtaken \ {c} ELSE overtaken \cup {c}

\* The button of the dialog: setVerified with the code and the state shown.
Toggle ==
    /\ dialog # NoDialog
    /\ Settle(dialog.user, dialog.fp, ~dialog.was)
    /\ dialog' = NoDialog
    /\ UNCHANGED <<peers, meta, task, accepting>>

CloseDialog ==
    /\ dialog # NoDialog
    /\ dialog' = NoDialog
    /\ UNCHANGED <<peers, meta, pins, alerts, task, accepting, overtaken>>

\* The banner of refreshKeyBanner, unless a dialog covers it, asks before it
\* calls acceptNewKey, which takes the alert as it is then.
AskAccept(c) ==
    /\ alerts[c] # NoAlert
    /\ accepting = Group /\ dialog = NoDialog
    /\ accepting' = c
    /\ UNCHANGED <<peers, meta, pins, alerts, task, dialog, overtaken>>

AnswerAccept(ok) ==
    /\ accepting # Group
    /\ accepting' = Group
    /\ IF ok /\ alerts[accepting] # NoAlert
       THEN Settle(accepting, alerts[accepting].new, FALSE)
       ELSE UNCHANGED <<pins, alerts, overtaken>>
    /\ UNCHANGED <<peers, meta, task, dialog>>

\* processDeepLink: the code in the link against the keys in use.
CheckLink ==
    /\ Ready("link")
    /\ LET c == task["link"].convo
           fp == task["link"].fp
       IN  IF peers[c] = fp THEN Settle(c, fp, TRUE)
           ELSE /\ alerts' = [alerts EXCEPT ![c] =
                                 [old |-> fp, new |-> peers[c], reason |-> "link"]]
                /\ UNCHANGED <<pins, overtaken>>
    /\ task' = [task EXCEPT !["link"] = NoTask]
    /\ UNCHANGED <<peers, meta, dialog, accepting>>

-----------------------------------------------------------------------------
(* Sending.                                                                *)

\* Mutant of SendText: nothing is held back.
MutantSendTextUnchecked ==
    /\ Ready("text")
    /\ meta' = Merged("text")
    /\ task' = [task EXCEPT !["text"] = NoTask]
    /\ UNCHANGED <<peers, pins, alerts, dialog, accepting, overtaken>>

\* sendCurrent: assertSendable, and encryptMessage for recipientsFor.
SendText ==
    /\ Ready("text") /\ AlertedIn(task["text"].convo) = {}
    /\ meta' = Merged("text")
    /\ task' = [task EXCEPT !["text"] = NoTask]
    /\ UNCHANGED <<peers, pins, alerts, dialog, accepting, overtaken>>

\* assertSendable throws.
HoldText ==
    /\ Ready("text") /\ AlertedIn(task["text"].convo) # {}
    /\ meta' = Merged("text")
    /\ task' = [task EXCEPT !["text"] = NoTask]
    /\ UNCHANGED <<peers, pins, alerts, dialog, accepting, overtaken>>

\* sendFile: assertSendable, and the file is read.
CheckFile ==
    /\ Ready("file")
    /\ meta' = Merged("file")
    /\ task' = [task EXCEPT !["file"] =
                   IF AlertedIn(@.convo) = {} THEN [@ EXCEPT !.st = "reading"] ELSE NoTask]
    /\ UNCHANGED <<peers, pins, alerts, dialog, accepting, overtaken>>

\* encryptFile for recipientsFor.
SendFile ==
    /\ task["file"].st = "reading"
    /\ task' = [task EXCEPT !["file"] = NoTask]
    /\ UNCHANGED <<peers, meta, pins, alerts, dialog, accepting, overtaken>>

-----------------------------------------------------------------------------
\* The page is loaded again: loadPins.
Reload ==
    /\ peers' = [c \in Contacts |-> 0] /\ meta' = [c \in Contacts |-> 0]
    /\ alerts' = [c \in Contacts |-> NoAlert]
    /\ task' = [t \in Tasks |-> NoTask]
    /\ dialog' = NoDialog /\ accepting' = Group /\ overtaken' = {}
    /\ UNCHANGED pins

Next ==
    \/ \E t \in Tasks, convo \in Contacts \cup {Group}, fp \in 0..MaxKey,
          served \in [Contacts -> Keys] : Fetch(t, convo, fp, served)
    \/ \E t \in Tasks, c \in Contacts : Adopt(t, c)
    \/ \E t \in Tasks : AdoptFails(t)
    \/ ShowLoaded
    \/ ShowCode
    \/ Toggle
    \/ CloseDialog
    \/ \E c \in Contacts : AskAccept(c)
    \/ \E ok \in BOOLEAN : AnswerAccept(ok)
    \/ CheckLink
    \/ SendText
    \/ HoldText
    \/ CheckFile
    \/ SendFile
    \/ Reload

Spec == Init /\ [][Next]_vars

-----------------------------------------------------------------------------
\* The variables have their types; a key in use has been pinned.
TypeOK ==
    /\ peers \in [Contacts -> Keys \cup {0}] /\ meta \in [Contacts -> Keys \cup {0}]
    /\ pins \in [Contacts -> [fp : Keys \cup {0}, verified : BOOLEAN]]
    /\ alerts \in [Contacts -> [old : Keys \cup {0}, new : Keys \cup {0},
                                reason : {"none", "changed", "link"}]]
    /\ task \in [Tasks -> [st : {"idle", "loading", "reading"}, convo : Contacts \cup {Group},
                           got : [Contacts -> Keys \cup {0}], fp : Keys \cup {0}]]
    /\ dialog \in [user : Contacts \cup {Group}, fp : Keys \cup {0}, was : BOOLEAN]
    /\ accepting \in Contacts \cup {Group} /\ overtaken \subseteq Contacts
    /\ \A c \in Contacts : peers[c] # 0 => pins[c].fp # 0

(* However answers, dialogs and links interleave, a key in use is the pinned *)
(* one or the user is warned - but for the user who settled a code that the  *)
(* relay had meanwhile replaced: it is pinned, and ends the warning, though  *)
(* another key is in use (setVerified and acceptNewKey do not look again).   *)
KeysInUseAreKnown ==
    \A c \in Contacts : peers[c] # 0 =>
        peers[c] = pins[c].fp \/ alerts[c] # NoAlert \/ c \in overtaken

(* The banner tells the truth at every moment: a "changed" alert stands for  *)
(* a verified code and names it, and the new code it offers to accept is     *)
(* that of the key in use, however often the relay changed it.               *)
BannerTells ==
    \A c \in Contacts : alerts[c].reason = "changed" =>
        /\ pins[c].verified /\ alerts[c].old = pins[c].fp
        /\ alerts[c].new = peers[c] /\ peers[c] # pins[c].fp

(* A text is encrypted for keys the user has no reason to doubt, though     *)
(* assertSendable looks only at the alerts: whatever other tasks adopted, or *)
(* stored in the group without looking, the keys taken for the recipients    *)
(* are the pinned ones (but for a code settled as above).                    *)
TextsAreHeld ==
    [][SendText =>
          \A c \in Members(task["text"].convo) :
              /\ alerts[c] = NoAlert
              /\ KeyFor(task["text"].convo, c, meta') = pins[c].fp \/ c \in overtaken]_vars

(* What a comment at assertSendable says of every sending: "Refuse to        *)
(* encrypt to a key the user has been warned about."                         *)
FilesAreHeld == [][SendFile => AlertedIn(task["file"].convo) = {}]_vars

(* Only the user takes a verified code away or replaces it: by a button, by  *)
(* the banner, or by opening a link.  Nothing the relay serves does.         *)
OnlyTheUserUnverifies ==
    [][\A c \in Contacts : pins[c].verified /\ pins'[c] # pins[c] =>
          dialog' # dialog \/ accepting' # accepting \/ task'["link"] # task["link"]]_vars
=============================================================================
