------------------------------ MODULE Composer ------------------------------
(***************************************************************************)
(* The composer of one tab (client/js/app.js): one text box shared by all  *)
(* conversations, the drafts kept for each of them in localStorage, texts  *)
(* and files on their way to the relay, and the send button.               *)
(*                                                                         *)
(* What the user types is a set of texts: their order in the box is left   *)
(* out.  A send ends some time after it began, however it ends, and the    *)
(* user goes on meanwhile.                                                 *)
(***************************************************************************)
EXTENDS FiniteSets

CONSTANTS
    Friends,  \* contacts, each with a conversation
    Groups,   \* groups, each with a conversation
    None,     \* no conversation
    Texts,    \* what the user may type
    Files     \* files the user may send

Convos == Friends \cup Groups

ASSUME ComposerAssumption ==
    Friends \cap Groups = {} /\ None \notin Friends \cup Groups

VARIABLES
    current,  \* state.current
    rows,     \* conversations in state.convos
    blocked,  \* state.blocked
    box,      \* #msg-input
    button,   \* the send button is enabled
    timer,    \* the draft debounce is running
    draft,    \* lattix.draft.*
    sends,    \* texts being sent, and where to
    file,     \* files: "none", "checking", "sending"
    busy,     \* _composerBusy
    home,     \* history: the conversation each text was typed in, None before
              \* and when it has been sent, cleared, or dropped with its group
    late      \* history: a send ended after its conversation had been left, or
              \* a conversation was closed under the user

vars == <<current, rows, blocked, box, button, timer, draft, sends, file, busy, home, late>>
fileVars == <<file, busy>>
listVars == <<rows, blocked>>

-----------------------------------------------------------------------------
\* bootApp has listed a conversation with everybody.
Init == /\ current = None
        /\ rows = Convos /\ blocked = {}
        /\ box = {} /\ button = FALSE /\ timer = FALSE
        /\ draft = [c \in Convos |-> {}]
        /\ sends = {}
        /\ file = [f \in Files |-> "none"] /\ busy = FALSE
        /\ home = [t \in Texts |-> None]
        /\ late = FALSE

\* The texts are done with; they may be typed anew.
Without(texts) == [t \in Texts |-> IF t \in texts THEN None ELSE home[t]]

\* setDraft, which does nothing without a conversation
WithDraft(c, texts) == IF c = None THEN draft ELSE [draft EXCEPT ![c] = texts]

-----------------------------------------------------------------------------
(* Typing, and going from one conversation to another.                     *)

\* Nothing is left of an earlier text t.
Unused(t) == /\ home[t] = None /\ t \notin box
             /\ \A c \in Convos : t \notin draft[c]
             /\ \A s \in sends : t \notin s.text

\* The input event; "quote" sets the box without one, and no timer.
Type(t, quoted) ==
    /\ current # None /\ Unused(t)
    /\ box' = box \cup {t}
    /\ home' = [home EXCEPT ![t] = current]
    /\ timer' = (timer \/ ~quoted)
    /\ button' = (quoted \/ ~busy)
    /\ UNCHANGED <<current, listVars, draft, sends, fileVars, late>>

Clear ==
    /\ current # None /\ box # {}
    /\ box' = {} /\ home' = Without(box)
    /\ timer' = TRUE /\ button' = FALSE
    /\ UNCHANGED <<current, listVars, draft, sends, fileVars, late>>

\* The debounced handler writes to the conversation current by then.
SaveDraft ==
    /\ timer
    /\ timer' = FALSE
    /\ draft' = WithDraft(current, box)
    /\ UNCHANGED <<current, listVars, box, button, sends, fileVars, home, late>>

\* Mutant of Select: the box is loaded only when it is empty.
MutantSelectKeepsBox(c) ==
    /\ c \in rows \cup Friends /\ c # current
    /\ current' = c /\ rows' = rows \cup {c}
    /\ draft' = WithDraft(current, box)
    /\ box' = IF box = {} THEN draft[c] ELSE box
    /\ button' = (box' # {})
    /\ UNCHANGED <<blocked, timer, sends, fileVars, home, late>>

\* selectConversation, from the list, a search or a link
Select(c) ==
    /\ c \in rows \cup Friends /\ c # current
    /\ current' = c /\ rows' = rows \cup {c}
    /\ draft' = WithDraft(current, box)
    /\ box' = draft[c]
    /\ button' = (box' # {})
    /\ UNCHANGED <<blocked, timer, sends, fileVars, home, late>>

\* #back-btn
Back ==
    /\ current # None
    /\ current' = None
    /\ draft' = WithDraft(current, box)
    /\ UNCHANGED <<listVars, box, button, timer, sends, fileVars, home, late>>

\* The conversation disappears while it may be open; the box is only hidden.
Closes(c) ==
    /\ late' = TRUE
    /\ current' = IF current = c THEN None ELSE current
    /\ UNCHANGED <<box, button, timer, draft, sends, fileVars, home>>

\* blockUser
Block(c) == /\ c \in Friends \ blocked /\ blocked' = blocked \cup {c}
            /\ UNCHANGED rows
            /\ Closes(c)

\* unblockUser
Unblock(c) ==
    /\ c \in blocked /\ blocked' = blocked \ {c}
    /\ UNCHANGED <<current, rows, box, button, timer, draft, sends, fileVars, home, late>>

\* onGroupEvent for a group the user is no longer in, or gi-leave
Leave(c) == /\ c \in Groups \cap rows /\ rows' = rows \ {c}
            /\ UNCHANGED blocked
            /\ Closes(c)

\* onGroupEvent for a group the user is back in
Rejoin(c) ==
    /\ c \in Groups \ rows /\ rows' = rows \cup {c}
    /\ UNCHANGED <<current, blocked, box, button, timer, draft, sends, fileVars, home, late>>

\* Mutant of Restored: rows come from the relay only.
MutantRestoredFromRelay(known) == known

\* restoreDraftedConvos: known are the friends with messages.
Restored(known) == known \cup {c \in Friends \ blocked : draft'[c] # {}}

\* The page is loaded again: beforeunload, then bootApp.  Drafts of groups that
\* are gone are removed.
Reload(known) ==
    /\ current' = None
    /\ LET saved == WithDraft(current, box)
           gone == Groups \ rows
       IN  /\ draft' = [c \in Convos |-> IF c \in gone THEN {} ELSE saved[c]]
           /\ home' = Without(UNION {saved[c] : c \in gone})
    /\ rows' = (Groups \cap rows) \cup Restored(known)
    /\ box' = {} /\ button' = FALSE /\ timer' = FALSE
    /\ sends' = {}
    /\ file' = [f \in Files |-> "none"] /\ busy' = FALSE
    /\ UNCHANGED <<blocked, late>>

-----------------------------------------------------------------------------
(* Sending texts: sendCurrent.                                             *)

\* The box is cleared before anything is awaited.
Send ==
    /\ current # None /\ box # {}
    /\ sends' = sends \cup {[convo |-> current, text |-> box]}
    /\ box' = {} /\ button' = FALSE
    /\ UNCHANGED <<current, listVars, timer, draft, fileVars, home, late>>

Ends(s) == /\ s \in sends
           /\ sends' = sends \ {s}
           /\ late' = (late \/ s.convo # current)

Sent(s) ==
    /\ Ends(s)
    /\ draft' = [draft EXCEPT ![s.convo] = {}]
    /\ home' = Without(s.text)
    /\ button' = (box # {})
    /\ UNCHANGED <<current, listVars, box, timer, fileVars>>

\* Mutant of NotSent: setting the box enables nothing.
MutantNotSentDisables(s) ==
    /\ Ends(s)
    /\ box' = box \cup s.text
    /\ draft' = [draft EXCEPT ![s.convo] = box']
    /\ UNCHANGED <<current, listVars, button, timer, fileVars, home>>

\* The text goes back into the box, and the box into the draft.
NotSent(s) ==
    /\ Ends(s)
    /\ box' = box \cup s.text
    /\ draft' = [draft EXCEPT ![s.convo] = box']
    /\ button' = (box' # {})
    /\ UNCHANGED <<current, listVars, timer, fileVars, home>>

-----------------------------------------------------------------------------
(* Sending files: sendFile.                                                *)

RestVars == UNCHANGED <<current, listVars, box, timer, draft, sends, home, late>>

SetBusy(b) == busy' = b /\ button' = (~b /\ box # {})

Attach(f) == /\ current # None /\ ~busy /\ file[f] = "none"
             /\ file' = [file EXCEPT ![f] = "checking"]
             /\ UNCHANGED <<busy, button>> /\ RestVars

\* The keys are there, or have been; each stage of sending locks again.
Stage(f) == /\ file[f] \in {"checking", "sending"}
            /\ file' = [file EXCEPT ![f] = "sending"]
            /\ SetBusy(TRUE) /\ RestVars

\* Mutant of FileEnds: only a file that was sent ends the lock.
MutantFileEndsLocked(f, ok) ==
    /\ file[f] = "sending" \/ (file[f] = "checking" /\ ~ok)
    /\ file' = [file EXCEPT ![f] = "none"]
    /\ IF ok THEN SetBusy(FALSE) ELSE UNCHANGED <<busy, button>>
    /\ RestVars

\* The finally block, after success or an error at any stage
FileEnds(f, ok) ==
    /\ file[f] = "sending" \/ (file[f] = "checking" /\ ~ok)
    /\ file' = [file EXCEPT ![f] = "none"]
    /\ SetBusy(FALSE) /\ RestVars

-----------------------------------------------------------------------------
Next ==
    \/ \E t \in Texts, quoted \in BOOLEAN : Type(t, quoted)
    \/ Clear \/ SaveDraft \/ Send \/ Back
    \/ \E c \in Convos : Select(c) \/ Block(c) \/ Unblock(c) \/ Leave(c) \/ Rejoin(c)
    \/ \E known \in SUBSET Friends : Reload(known)
    \/ \E s \in sends : Sent(s) \/ NotSent(s)
    \/ \E f \in Files : Attach(f) \/ Stage(f) \/ (\E ok \in BOOLEAN : FileEnds(f, ok))

Spec == Init /\ [][Next]_vars

-----------------------------------------------------------------------------
\* The variables have their types; the lock is held by a file being sent.
TypeOK ==
    /\ current \in Convos \cup {None} /\ (current # None => current \in rows)
    /\ rows \subseteq Convos /\ blocked \subseteq Friends
    /\ box \subseteq Texts /\ button \in BOOLEAN /\ timer \in BOOLEAN
    /\ draft \in [Convos -> SUBSET Texts]
    /\ sends \subseteq [convo : Convos, text : (SUBSET Texts) \ {{}}]
    /\ file \in [Files -> {"none", "checking", "sending"}]
    /\ busy \in BOOLEAN /\ (busy => \E f \in Files : file[f] = "sending")
    /\ home \in [Texts -> Convos \cup {None}]
    /\ late \in BOOLEAN

(* What the user sees of the button is true: whenever no file locks the      *)
(* composer, it can be pressed exactly if there is something to send - after *)
(* sends that end in any order, failures that fill the box again, files that *)
(* end while another goes on, and changes of conversation.                   *)
CanSend == ~busy => (button <=> box # {})

(* As long as every send ends where it began and no conversation is closed   *)
(* under the user, a draft is where it was typed, so is what is in the box,  *)
(* and nothing on its way to the relay is offered for sending again.         *)
EachInItsPlace ==
    ~late => /\ \A c \in Convos : \A t \in draft[c] : home[t] \in {c, None}
             /\ current # None => \A t \in box : home[t] = current
             /\ \A s \in sends : s.text \cap box = {} /\ \A t \in s.text : home[t] = s.convo

\* The user can still get at what was typed, or it is being sent.
Kept(t) == \/ current # None /\ t \in box
           \/ \E c \in rows \cup blocked : t \in draft[c]
           \/ \E s \in sends : t \in s.text

(* A text is never lost - on going elsewhere and back, on a failed send, on  *)
(* reload - but in three ways the code does not close: a send that ends      *)
(* after its conversation was left rewrites the draft stashed there, a       *)
(* reload abandons what is being sent, and a conversation that is blocked or *)
(* left takes along what was typed since the last debounce.                  *)
KeepsTexts ==
    [][\A t \in Texts : Kept(t) /\ ~Kept(t)' =>
          \/ home'[t] = None
          \/ \E s \in sends \ sends' : s.convo # current \/ (t \in s.text /\ sends' = {})
          \/ Groups \cap (rows \ rows') # {} \/ blocked' # blocked]_vars
=============================================================================
