--------------------------- MODULE ComposerProofs ---------------------------
(***************************************************************************)
(* Proofs about Composer, for any contacts, groups, texts and files: what  *)
(* the button shows, that every text stays where it belongs, and that none *)
(* is lost but in the three ways that KeepsTexts names.                    *)
(***************************************************************************)
EXTENDS Composer, TLAPS

\* While every send ends where it began and no conversation closes under the
\* user: drafts of the conversations that are not open hold what was typed
\* there, nothing that is on its way, and no text is in two sends.
ApartWhileInTime ==
    ~late => /\ \A c \in Convos : c # current =>
                   /\ \A t \in draft[c] : home[t] = c
                   /\ \A s \in sends : draft[c] \cap s.text = {}
             /\ \A s \in sends, r \in sends : s = r \/ s.text \cap r.text = {}

\* What the open conversation's draft holds beyond the box is done with, or on
\* its way: the next debounce may drop it.
DraftShown ==
    current # None => \A t \in draft[current] :
        t \in box \/ home[t] = None \/ \E s \in sends : t \in s.text

IndInv == TypeOK /\ CanSend /\ EachInItsPlace /\ ApartWhileInTime /\ DraftShown

LEMMA InitInd == Init => IndInv
  <1> SUFFICES ASSUME Init PROVE IndInv
    OBVIOUS
  <1>1. TypeOK
    BY DEF Init, TypeOK, Convos
  <1> QED
    BY <1>1, ComposerAssumption
       DEF Init, IndInv, CanSend, EachInItsPlace, ApartWhileInTime, DraftShown, Convos

\* Steps that leave the texts and what they are in alone.
Still == UNCHANGED <<current, box, draft, sends, home, late>>

\* A step of Next, with its parameters; those of the list and of files together.
LEMMA StepIsOne ==
    ASSUME Next
    PROVE  \/ \E t \in Texts, quoted \in BOOLEAN : Type(t, quoted)
           \/ Clear \/ SaveDraft \/ Send \/ Back
           \/ \E c \in Convos : Select(c) \/ Block(c) \/ Leave(c)
           \/ \E known \in SUBSET Friends : Reload(known)
           \/ \E s \in sends : Sent(s) \/ NotSent(s)
           \/ Still /\ \/ \E c \in Convos : Unblock(c) \/ Rejoin(c)
                       \/ \E f \in Files : Attach(f) \/ Stage(f)
                       \/ \E f \in Files, ok \in BOOLEAN : FileEnds(f, ok)
  <1>1. \A c \in Convos : Unblock(c) \/ Rejoin(c) => Still
    BY DEF Unblock, Rejoin, Still
  <1>2. \A f \in Files : Attach(f) \/ Stage(f) => Still
    BY DEF Attach, Stage, RestVars, Still
  <1>3. \A f \in Files, ok \in BOOLEAN : FileEnds(f, ok) => Still
    BY DEF FileEnds, RestVars, Still
  <1> QED
    BY <1>1, <1>2, <1>3 DEF Next

-----------------------------------------------------------------------------
(* Types.                                                                  *)

\* A draft may be stored for the open conversation, if there is one.
LEMMA WithDraftIs ==
    ASSUME TypeOK, NEW texts \in SUBSET Texts
    PROVE  /\ WithDraft(current, texts) \in [Convos -> SUBSET Texts]
           /\ \A c \in Convos : WithDraft(current, texts)[c] = IF c = current THEN texts ELSE draft[c]
  <1>1. draft \in [Convos -> SUBSET Texts] /\ current \in Convos \cup {None} /\ None \notin Convos
    BY ComposerAssumption DEF TypeOK, Convos
  <1> QED
    BY <1>1 DEF WithDraft

LEMMA WithoutIs ==
    ASSUME TypeOK, NEW texts
    PROVE  /\ Without(texts) \in [Texts -> Convos \cup {None}]
           /\ \A t \in Texts : Without(texts)[t] = IF t \in texts THEN None ELSE home[t]
  BY DEF Without, TypeOK

LEMMA FileTypes ==
    ASSUME TypeOK, NEW f \in Files, NEW b \in BOOLEAN,
           Attach(f) \/ Stage(f) \/ FileEnds(f, b)
    PROVE  TypeOK'
  <1>1. file \in [Files -> {"none", "checking", "sending"}]
    BY DEF TypeOK
  <1>2. CASE Attach(f)
    <2>1. /\ file' = [file EXCEPT ![f] = "checking"] /\ file[f] = "none"
          /\ UNCHANGED <<busy, button>> /\ RestVars
      BY <1>2 DEF Attach
    <2>2. \A g \in Files : file[g] = "sending" => file'[g] = "sending"
      BY <1>1, <2>1
    <2>3. file' \in [Files -> {"none", "checking", "sending"}]
      BY <1>1, <2>1
    <2> QED
      BY <2>1, <2>2, <2>3 DEF RestVars, listVars, TypeOK
  <1>3. CASE Stage(f)
    <2>1. file' = [file EXCEPT ![f] = "sending"] /\ SetBusy(TRUE) /\ RestVars
      BY <1>3 DEF Stage
    <2>2. file' \in [Files -> {"none", "checking", "sending"}] /\ file'[f] = "sending"
      BY <1>1, <2>1
    <2> QED
      BY <2>1, <2>2 DEF SetBusy, RestVars, listVars, TypeOK
  <1>4. CASE FileEnds(f, b)
    <2>1. file' = [file EXCEPT ![f] = "none"] /\ SetBusy(FALSE) /\ RestVars
      BY <1>4 DEF FileEnds
    <2>2. file' \in [Files -> {"none", "checking", "sending"}]
      BY <1>1, <2>1
    <2> QED
      BY <2>1, <2>2 DEF SetBusy, RestVars, listVars, TypeOK
  <1> QED
    BY <1>2, <1>3, <1>4

LEMMA TypeStep == ASSUME TypeOK, [Next]_vars PROVE TypeOK'
  <1>1. ASSUME NEW t \in Texts, NEW quoted \in BOOLEAN, Type(t, quoted) PROVE TypeOK'
    <2>1. home' \in [Texts -> Convos \cup {None}]
      BY <1>1 DEF Type, TypeOK
    <2> QED
      BY <1>1, <2>1 DEF Type, TypeOK, listVars, fileVars
  <1>2. CASE Clear
    BY <1>2, WithoutIs DEF Clear, TypeOK, listVars, fileVars
  <1>3. CASE SaveDraft
    BY <1>3, WithDraftIs DEF SaveDraft, TypeOK, listVars, fileVars
  <1>4. CASE Send
    <2>1. [convo |-> current, text |-> box] \in [convo : Convos, text : (SUBSET Texts) \ {{}}]
      BY <1>4 DEF Send, TypeOK
    <2> QED
      BY <1>4, <2>1 DEF Send, TypeOK, listVars, fileVars
  <1>5. CASE Back
    BY <1>5, WithDraftIs DEF Back, TypeOK, listVars, fileVars
  <1>6. ASSUME NEW c \in Convos, Select(c) PROVE TypeOK'
    <2>1. draft' \in [Convos -> SUBSET Texts] /\ box' \subseteq Texts
      BY <1>6, WithDraftIs DEF Select, TypeOK
    <2> QED
      BY <1>6, <2>1 DEF Select, TypeOK, fileVars
  <1>7. ASSUME NEW c \in Convos, Block(c) PROVE TypeOK'
    BY <1>7 DEF Block, Closes, TypeOK, fileVars
  <1>8. ASSUME NEW c \in Convos, Leave(c) PROVE TypeOK'
    BY <1>8 DEF Leave, Closes, TypeOK, fileVars
  <1>9. ASSUME NEW c \in Convos, Unblock(c) PROVE TypeOK'
    BY <1>9 DEF Unblock, TypeOK, fileVars
  <1>10. ASSUME NEW c \in Convos, Rejoin(c) PROVE TypeOK'
    BY <1>10 DEF Rejoin, TypeOK, fileVars
  <1>11. ASSUME NEW known \in SUBSET Friends, Reload(known) PROVE TypeOK'
    <2> DEFINE saved == WithDraft(current, box)
               gone == Groups \ rows
    <2>1. /\ current' = None /\ box' = {} /\ button' = FALSE /\ timer' = FALSE /\ sends' = {}
          /\ draft' = [c \in Convos |-> IF c \in gone THEN {} ELSE saved[c]]
          /\ home' = Without(UNION {saved[c] : c \in gone})
          /\ rows' = (Groups \cap rows) \cup Restored(known)
          /\ file' = [f \in Files |-> "none"] /\ busy' = FALSE
          /\ UNCHANGED <<blocked, late>>
      BY <1>11 DEF Reload
    <2>2. saved \in [Convos -> SUBSET Texts]
      BY WithDraftIs DEF TypeOK
    <2> HIDE DEF saved, gone
    <2>3. draft' \in [Convos -> SUBSET Texts]
      BY <2>1, <2>2
    <2>4. home' \in [Texts -> Convos \cup {None}]
      BY <2>1, WithoutIs
    <2>5. rows' \subseteq Convos
      BY <2>1 DEF Restored, Convos
    <2>6. file' \in [Files -> {"none", "checking", "sending"}]
      BY <2>1
    <2> QED
      BY <2>1, <2>3, <2>4, <2>5, <2>6 DEF TypeOK
  <1>12. ASSUME NEW s \in sends, Sent(s) \/ NotSent(s) PROVE TypeOK'
    <2>1. s.convo \in Convos /\ s.text \subseteq Texts
      BY DEF TypeOK
    <2>2. late' \in BOOLEAN /\ sends' \subseteq sends
      BY <1>12 DEF Sent, NotSent, Ends, TypeOK
    <2>3. box' \subseteq Texts
      BY <1>12, <2>1 DEF Sent, NotSent, TypeOK
    <2>4. draft' \in [Convos -> SUBSET Texts]
      BY <1>12, <2>1, <2>3 DEF Sent, NotSent, TypeOK
    <2>5. button' \in BOOLEAN
      BY <1>12 DEF Sent, NotSent
    <2>6. home' \in [Texts -> Convos \cup {None}]
      <3>1. home' = Without(s.text) \/ home' = home
        BY <1>12 DEF Sent, NotSent
      <3> QED
        BY <3>1, WithoutIs DEF TypeOK
    <2> QED
      BY <1>12, <2>2, <2>3, <2>4, <2>5, <2>6 DEF Sent, NotSent, TypeOK, listVars, fileVars
  <1>13. ASSUME NEW f \in Files, NEW b \in BOOLEAN, Attach(f) \/ Stage(f) \/ FileEnds(f, b)
         PROVE  TypeOK'
    BY <1>13, FileTypes
  <1>14. CASE UNCHANGED vars
    BY <1>14 DEF vars, TypeOK
  <1> QED
    BY <1>1, <1>2, <1>3, <1>4, <1>5, <1>6, <1>7, <1>8, <1>9, <1>10, <1>11, <1>12, <1>13,
       <1>14 DEF Next

-----------------------------------------------------------------------------
(* The button.                                                             *)

LEMMA ButtonStep == ASSUME TypeOK, CanSend, [Next]_vars PROVE CanSend'
  <1>1. ASSUME NEW t \in Texts, NEW quoted \in BOOLEAN, Type(t, quoted) PROVE CanSend'
    BY <1>1 DEF Type, CanSend, fileVars
  <1>2. CASE Clear \/ SaveDraft \/ Send \/ Back
    BY <1>2 DEF Clear, SaveDraft, Send, Back, CanSend, fileVars
  <1>3. ASSUME NEW c \in Convos,
               Select(c) \/ Block(c) \/ Unblock(c) \/ Leave(c) \/ Rejoin(c)
        PROVE  CanSend'
    BY <1>3 DEF Select, Block, Unblock, Leave, Rejoin, Closes, CanSend, fileVars
  <1>4. ASSUME NEW known \in SUBSET Friends, Reload(known) PROVE CanSend'
    BY <1>4 DEF Reload, CanSend
  <1>5. ASSUME NEW s \in sends, Sent(s) \/ NotSent(s) PROVE CanSend'
    BY <1>5 DEF Sent, NotSent, CanSend, fileVars
  <1>6. ASSUME NEW f \in Files, NEW b \in BOOLEAN, Attach(f) \/ Stage(f) \/ FileEnds(f, b)
        PROVE  CanSend'
    BY <1>6 DEF Attach, Stage, FileEnds, SetBusy, RestVars, CanSend
  <1>7. CASE UNCHANGED vars
    BY <1>7 DEF vars, CanSend
  <1> QED
    BY <1>1, <1>2, <1>3, <1>4, <1>5, <1>6, <1>7 DEF Next

-----------------------------------------------------------------------------
(* Where texts are.                                                        *)

Placed == EachInItsPlace /\ ApartWhileInTime

LEMMA InTimeSoFar == ASSUME TypeOK, [Next]_vars, ~late' PROVE ~late
  <1>1. CASE Next
    BY <1>1, StepIsOne DEF Type, Clear, SaveDraft, Send, Back, Select, Block, Leave, Closes,
       Reload, Sent, NotSent, Ends, Still
  <1>2. CASE UNCHANGED vars
    BY <1>2 DEF vars
  <1> QED
    BY <1>1, <1>2

LEMMA TypePlaced ==
    ASSUME TypeOK, Placed, ~late, NEW t \in Texts, NEW quoted \in BOOLEAN, Type(t, quoted)
    PROVE  Placed'
  <1>1. /\ current # None /\ Unused(t) /\ box' = box \cup {t}
        /\ home' = [home EXCEPT ![t] = current]
        /\ UNCHANGED <<current, draft, sends, late>>
    BY DEF Type
  <1>2. /\ home'[t] = current /\ \A x \in Texts \ {t} : home'[x] = home[x]
        /\ \A c \in Convos : t \notin draft[c] /\ draft[c] \subseteq Texts
        /\ \A s \in sends : t \notin s.text /\ s.text \subseteq Texts
        /\ box \subseteq Texts
    BY <1>1 DEF TypeOK, Unused
  <1>3. EachInItsPlace'
    BY <1>1, <1>2 DEF Placed, EachInItsPlace
  <1>4. ApartWhileInTime'
    BY <1>1, <1>2 DEF Placed, ApartWhileInTime
  <1> QED
    BY <1>3, <1>4 DEF Placed

LEMMA ClearPlaced == ASSUME TypeOK, Placed, ~late, Clear PROVE Placed'
  <1>1. /\ current # None /\ box' = {} /\ home' = Without(box)
        /\ UNCHANGED <<current, draft, sends, late>>
    BY DEF Clear
  <1>2. /\ \A x \in Texts : home'[x] = IF x \in box THEN None ELSE home[x]
        /\ \A c \in Convos : draft[c] \subseteq Texts
        /\ \A s \in sends : s.text \subseteq Texts
        /\ current \in Convos
    BY <1>1, WithoutIs DEF TypeOK
  <1>3. EachInItsPlace'
    BY <1>1, <1>2 DEF Placed, EachInItsPlace
  <1>4. \A c \in Convos : c # current => \A t \in draft[c] : t \notin box
    BY <1>1, <1>2 DEF Placed, EachInItsPlace, ApartWhileInTime
  <1>5. ApartWhileInTime'
    BY <1>1, <1>2, <1>4 DEF Placed, ApartWhileInTime
  <1> QED
    BY <1>3, <1>5 DEF Placed

\* SaveDraft, Back and Select store what is in the box; Select loads another draft.
LEMMA StorePlaced ==
    ASSUME TypeOK, Placed, ~late, draft' = WithDraft(current, box), UNCHANGED <<sends, home, late>>,
           \/ UNCHANGED <<current, box>>
           \/ current' = None /\ UNCHANGED box
           \/ current' \in Convos \ {current} /\ box' = draft[current']
    PROVE  Placed'
  <1>1. \A c \in Convos : draft'[c] = IF c = current THEN box ELSE draft[c]
    BY WithDraftIs DEF TypeOK
  <1>2. \A c \in Convos : c # None
    BY ComposerAssumption DEF Convos
  <1>3. \A c \in Convos : \A t \in draft'[c] : home[t] \in {c, None}
    BY <1>1, <1>2 DEF Placed, EachInItsPlace
  <1>4. current' # None => \A t \in box' : home[t] = current'
    BY DEF Placed, EachInItsPlace, ApartWhileInTime
  <1>5. \A s \in sends : s.text \cap box' = {} /\ \A t \in s.text : home[t] = s.convo
    BY DEF Placed, EachInItsPlace, ApartWhileInTime
  <1>6. EachInItsPlace'
    BY <1>3, <1>4, <1>5 DEF EachInItsPlace
  <1>7. ASSUME NEW c \in Convos, c # current' PROVE \A t \in draft'[c] : home[t] = c
    BY <1>1, <1>2, <1>7 DEF Placed, EachInItsPlace, ApartWhileInTime
  <1>8. ASSUME NEW c \in Convos, c # current', NEW s \in sends PROVE draft'[c] \cap s.text = {}
    BY <1>1, <1>8 DEF Placed, EachInItsPlace, ApartWhileInTime
  <1>9. ApartWhileInTime'
    BY <1>7, <1>8 DEF Placed, ApartWhileInTime
  <1> QED
    BY <1>6, <1>9 DEF Placed

LEMMA SendPlaced == ASSUME TypeOK, Placed, ~late, Send PROVE Placed'
  <1> DEFINE new == [convo |-> current, text |-> box]
  <1>1. /\ current # None /\ box' = {} /\ sends' = sends \cup {new}
        /\ UNCHANGED <<current, draft, home, late>>
    BY DEF Send
  <1>2. new.convo = current /\ new.text = box
    OBVIOUS
  <1> HIDE DEF new
  <1>3. EachInItsPlace'
    BY <1>1, <1>2 DEF Placed, EachInItsPlace
  <1>4. ASSUME NEW c \in Convos, c # current
        PROVE  /\ \A t \in draft[c] : home[t] = c
               /\ \A s \in sends' : draft[c] \cap s.text = {}
    BY <1>1, <1>2, <1>4 DEF Placed, EachInItsPlace, ApartWhileInTime
  <1>5. \A s \in sends', r \in sends' : s = r \/ s.text \cap r.text = {}
    BY <1>1, <1>2 DEF Placed, EachInItsPlace, ApartWhileInTime
  <1>6. ApartWhileInTime'
    BY <1>1, <1>4, <1>5 DEF ApartWhileInTime
  <1> QED
    BY <1>3, <1>6 DEF Placed

LEMMA ReloadPlaced ==
    ASSUME TypeOK, Placed, ~late, NEW known \in SUBSET Friends, Reload(known)
    PROVE  Placed'
  <1> DEFINE saved == WithDraft(current, box)
             gone == Groups \ rows
             dropped == UNION {saved[c] : c \in gone}
  <1>1. /\ current' = None /\ box' = {} /\ sends' = {}
        /\ draft' = [c \in Convos |-> IF c \in gone THEN {} ELSE saved[c]]
        /\ home' = Without(dropped)
    BY DEF Reload
  <1>2. \A c \in Convos : saved[c] = (IF c = current THEN box ELSE draft[c]) /\ saved[c] \subseteq Texts
    BY WithDraftIs DEF TypeOK
  <1>3. \A c \in Convos : c # None /\ gone \subseteq Convos
    BY ComposerAssumption DEF Convos
  <1>4. \A c \in Convos : \A t \in saved[c] : home[t] = c
    BY <1>2, <1>3 DEF Placed, EachInItsPlace, ApartWhileInTime
  <1> HIDE DEF saved, gone
  <1>5. ASSUME NEW c \in Convos, NEW t \in draft'[c] PROVE home'[t] = c
    <2>1. c \notin gone /\ t \in saved[c] /\ t \in Texts
      BY <1>1, <1>2, <1>5
    <2>2. t \notin dropped
      BY <1>3, <1>4, <2>1
    <2> HIDE DEF dropped
    <2> QED
      BY <1>1, <1>4, <2>1, <2>2, WithoutIs
  <1>6. EachInItsPlace'
    BY <1>1, <1>5 DEF EachInItsPlace
  <1>7. ApartWhileInTime'
    BY <1>1, <1>5 DEF ApartWhileInTime
  <1> QED
    BY <1>6, <1>7 DEF Placed

LEMMA SentPlaced == ASSUME TypeOK, Placed, ~late, ~late', NEW s \in sends, Sent(s) PROVE Placed'
  <1>1. /\ s.convo = current /\ sends' = sends \ {s}
        /\ draft' = [draft EXCEPT ![s.convo] = {}] /\ home' = Without(s.text)
        /\ UNCHANGED <<current, box>>
    BY DEF Sent, Ends
  <1>2. /\ s.convo \in Convos /\ s.text \subseteq Texts /\ box \subseteq Texts
        /\ \A r \in sends : r.text \subseteq Texts
    BY DEF TypeOK
  <1>3. \A c \in Convos : draft'[c] = (IF c = current THEN {} ELSE draft[c]) /\ draft[c] \subseteq Texts
    BY <1>1, <1>2 DEF TypeOK
  <1>4. \A t \in Texts : home'[t] = IF t \in s.text THEN None ELSE home[t]
    BY <1>1, WithoutIs
  <1>5. \A r \in sends' : r.text \cap s.text = {} /\ r \in sends
    BY <1>1 DEF Placed, ApartWhileInTime
  <1>6. ASSUME NEW c \in Convos, NEW t \in draft'[c] PROVE c # current /\ t \notin s.text /\ home'[t] = c
    BY <1>3, <1>4, <1>6 DEF Placed, ApartWhileInTime
  <1>7. \A t \in box : home'[t] = home[t]
    BY <1>2, <1>4 DEF Placed, EachInItsPlace
  <1>8. \A r \in sends' : \A t \in r.text : home'[t] = home[t]
    BY <1>2, <1>4, <1>5
  <1>9. EachInItsPlace'
    BY <1>1, <1>5, <1>6, <1>7, <1>8 DEF Placed, EachInItsPlace
  <1>10. ASSUME NEW c \in Convos, c # current
         PROVE  /\ \A t \in draft'[c] : home'[t] = c
                /\ \A r \in sends' : draft'[c] \cap r.text = {}
    BY <1>3, <1>5, <1>6, <1>10 DEF Placed, ApartWhileInTime
  <1>11. ApartWhileInTime'
    BY <1>1, <1>5, <1>10 DEF Placed, ApartWhileInTime
  <1> QED
    BY <1>9, <1>11 DEF Placed

LEMMA NotSentPlaced ==
    ASSUME TypeOK, Placed, ~late, ~late', NEW s \in sends, NotSent(s)
    PROVE  Placed'
  <1>1. /\ s.convo = current /\ sends' = sends \ {s} /\ box' = box \cup s.text
        /\ draft' = [draft EXCEPT ![s.convo] = box']
        /\ UNCHANGED <<current, home>>
    BY DEF NotSent, Ends
  <1>2. current \in Convos /\ current # None
    BY <1>1, ComposerAssumption DEF TypeOK, Convos
  <1>3. \A c \in Convos : draft'[c] = IF c = current THEN box' ELSE draft[c]
    BY <1>1, <1>2 DEF TypeOK
  <1>4. \A r \in sends' : r.text \cap s.text = {} /\ r \in sends
    BY <1>1 DEF Placed, ApartWhileInTime
  <1>5. \A t \in box' : home[t] = current
    BY <1>1, <1>2 DEF Placed, EachInItsPlace
  <1>6. EachInItsPlace'
    BY <1>1, <1>2, <1>3, <1>4, <1>5 DEF Placed, EachInItsPlace
  <1>7. ApartWhileInTime'
    BY <1>1, <1>3, <1>4 DEF Placed, ApartWhileInTime
  <1> QED
    BY <1>6, <1>7 DEF Placed

LEMMA PlacedStep == ASSUME TypeOK, Placed, [Next]_vars PROVE Placed'
  <1>1. CASE late'
    BY <1>1 DEF Placed, EachInItsPlace, ApartWhileInTime
  <1>2. CASE ~late'
    <2>0. ~late
      BY <1>2, InTimeSoFar
    <2>1. ASSUME NEW t \in Texts, NEW quoted \in BOOLEAN, Type(t, quoted) PROVE Placed'
      BY <2>0, <2>1, TypePlaced
    <2>2. CASE Clear
      BY <2>0, <2>2, ClearPlaced
    <2>3. CASE SaveDraft
      BY <2>0, <2>3, StorePlaced DEF SaveDraft
    <2>4. CASE Send
      BY <2>0, <2>4, SendPlaced
    <2>5. CASE Back
      BY <2>0, <2>5, StorePlaced DEF Back
    <2>6. ASSUME NEW c \in Convos, Select(c) PROVE Placed'
      <3>1. current' \in Convos \ {current} /\ box' = draft[current'] /\ draft' = WithDraft(current, box)
            /\ UNCHANGED <<sends, home, late>>
        BY <2>6 DEF Select
      <3> QED
        BY <2>0, <3>1, StorePlaced
    <2>7. ASSUME NEW c \in Convos, Block(c) \/ Leave(c) PROVE FALSE
      BY <1>2, <2>7 DEF Block, Leave, Closes
    <2>8. ASSUME NEW known \in SUBSET Friends, Reload(known) PROVE Placed'
      BY <2>0, <2>8, ReloadPlaced
    <2>9. ASSUME NEW s \in sends, Sent(s) \/ NotSent(s) PROVE Placed'
      BY <1>2, <2>0, <2>9, SentPlaced, NotSentPlaced
    <2>10. CASE Still
      BY <2>10 DEF Still, Placed, EachInItsPlace, ApartWhileInTime
    <2>11. CASE UNCHANGED vars
      BY <2>10, <2>11 DEF vars, Still
    <2> QED
      BY <2>1, <2>2, <2>3, <2>4, <2>5, <2>6, <2>7, <2>8, <2>9, <2>10, <2>11, StepIsOne
  <1> QED
    BY <1>1, <1>2

-----------------------------------------------------------------------------
(* The open conversation's draft, with ends of sends in any order.         *)

LEMMA ShownStep == ASSUME TypeOK, DraftShown, [Next]_vars PROVE DraftShown'
  <1>0. /\ \A c \in Convos : draft[c] \subseteq Texts
        /\ current # None => current \in Convos
    BY DEF TypeOK
  <1>1. ASSUME NEW t \in Texts, NEW quoted \in BOOLEAN, Type(t, quoted) PROVE DraftShown'
    <2>1. /\ box' = box \cup {t} /\ home' = [home EXCEPT ![t] = current]
          /\ UNCHANGED <<current, draft, sends>> /\ \A c \in Convos : t \notin draft[c]
      BY <1>1 DEF Type, Unused
    <2>2. \A x \in Texts \ {t} : home'[x] = home[x]
      BY <2>1 DEF TypeOK
    <2> QED
      BY <1>0, <2>1, <2>2 DEF DraftShown
  <1>2. CASE Clear
    <2>1. \A x \in Texts : x \in box \/ home[x] = None => home'[x] = None
      BY <1>2, WithoutIs DEF Clear
    <2> QED
      BY <1>0, <1>2, <2>1 DEF Clear, DraftShown
  <1>3. CASE SaveDraft \/ Back
    <2>1. /\ current' # None => current' = current /\ draft'[current] = box
          /\ UNCHANGED box
      BY <1>0, <1>3, WithDraftIs DEF SaveDraft, Back, TypeOK
    <2> QED
      BY <2>1 DEF DraftShown
  <1>4. CASE Send
    <2>1. /\ sends \subseteq sends' /\ UNCHANGED <<current, draft, home>>
          /\ [convo |-> current, text |-> box] \in sends'
      BY <1>4 DEF Send
    <2>2. \A t \in box : \E s \in sends' : t \in s.text
      BY <2>1
    <2> QED
      BY <2>1, <2>2 DEF DraftShown
  <1>5. ASSUME NEW c \in Convos, Select(c) PROVE DraftShown'
    <2>1. current' = c /\ draft'[c] = draft[c] /\ box' = draft[c]
      BY <1>5, WithDraftIs DEF Select, TypeOK
    <2> QED
      BY <2>1 DEF DraftShown
  <1>6. ASSUME NEW c \in Convos, Block(c) \/ Leave(c) PROVE DraftShown'
    BY <1>6 DEF Block, Leave, Closes, DraftShown
  <1>7. ASSUME NEW known \in SUBSET Friends, Reload(known) PROVE DraftShown'
    BY <1>7 DEF Reload, DraftShown
  <1>8. ASSUME NEW s \in sends, Sent(s) PROVE DraftShown'
    <2>1. /\ sends' = sends \ {s} /\ draft' = [draft EXCEPT ![s.convo] = {}]
          /\ home' = Without(s.text) /\ UNCHANGED <<current, box>>
      BY <1>8 DEF Sent, Ends
    <2>2. \A x \in Texts : x \in s.text \/ home[x] = None => home'[x] = None
      BY <2>1, WithoutIs
    <2>3. current # None => draft'[current] \subseteq draft[current]
      BY <1>0, <2>1 DEF TypeOK
    <2> QED
      BY <1>0, <2>1, <2>2, <2>3 DEF DraftShown
  <1>9. ASSUME NEW s \in sends, NotSent(s) PROVE DraftShown'
    <2>1. /\ sends' = sends \ {s} /\ draft' = [draft EXCEPT ![s.convo] = box']
          /\ box' = box \cup s.text /\ UNCHANGED <<current, home>>
      BY <1>9 DEF NotSent, Ends
    <2>2. current # None => draft'[current] \subseteq draft[current] \cup box'
      BY <1>0, <2>1 DEF TypeOK
    <2> QED
      BY <2>1, <2>2 DEF DraftShown
  <1>10. CASE Still
    BY <1>10 DEF Still, DraftShown
  <1>11. CASE UNCHANGED vars
    BY <1>11 DEF vars, DraftShown
  <1> QED
    BY <1>1, <1>2, <1>3, <1>4, <1>5, <1>6, <1>7, <1>8, <1>9, <1>10, <1>11, StepIsOne

-----------------------------------------------------------------------------
(* The theorems.                                                           *)

LEMMA StepInd == IndInv /\ [Next]_vars => IndInv'
  <1> SUFFICES ASSUME IndInv, [Next]_vars PROVE IndInv'
    OBVIOUS
  <1>1. TypeOK' /\ CanSend' /\ DraftShown'
    BY TypeStep, ButtonStep, ShownStep DEF IndInv
  <1>2. Placed'
    BY PlacedStep DEF IndInv, Placed
  <1> QED
    BY <1>1, <1>2 DEF IndInv, Placed

(* The invariant, from which the rest follows.                             *)
THEOREM Invariance == Spec => []IndInv
  BY InitInd, StepInd, PTL DEF Spec

(* Types; only a file that is being sent locks the composer.               *)
THEOREM TypeCorrect == Spec => []TypeOK
  <1>1. IndInv => TypeOK
    BY DEF IndInv
  <1> QED
    BY <1>1, Invariance, PTL

(* updateSendEnabled, and the places that set the button themselves: it is *)
(* enabled exactly if there is something to send, unless a file locks it.  *)
THEOREM ButtonTells == Spec => []CanSend
  <1>1. IndInv => CanSend
    BY DEF IndInv
  <1> QED
    BY <1>1, Invariance, PTL

(* setDraft, selectConversation, sendCurrent: while sends end where they   *)
(* began, each text is in its own conversation's box or draft, or on its   *)
(* way there and nowhere else.                                             *)
THEOREM TextsStayInTheirPlace == Spec => []EachInItsPlace
  <1>1. IndInv => EachInItsPlace
    BY DEF IndInv
  <1> QED
    BY <1>1, Invariance, PTL

\* What a step may do to a text that the user can get at.
Excused(t) ==
    \/ home'[t] = None
    \/ \E s \in sends \ sends' : s.convo # current \/ (t \in s.text /\ sends' = {})
    \/ Groups \cap (rows \ rows') # {} \/ blocked' # blocked

\* A text in the open conversation's draft is in the box too, or done with, or
\* on its way.
LEMMA OpenDraft ==
    ASSUME IndInv, NEW t \in Texts, current # None, t \in draft[current]
    PROVE  t \in box \/ home[t] = None \/ \E s \in sends : t \in s.text
  BY DEF IndInv, DraftShown

LEMMA StoreKeeps ==
    ASSUME IndInv, NEW t \in Texts, Kept(t), draft' = WithDraft(current, box),
           UNCHANGED <<sends, home, blocked>>, rows \subseteq rows',
           \/ UNCHANGED <<current, box>>
           \/ current' = None /\ UNCHANGED box
           \/ current' \in Convos \ {current} /\ box' = draft[current']
    PROVE  Kept(t)' \/ Excused(t)
  <1>1. /\ \A c \in Convos : draft'[c] = IF c = current THEN box ELSE draft[c]
        /\ rows \cup blocked \subseteq Convos
        /\ current # None => current \in rows
    BY WithDraftIs DEF IndInv, TypeOK, Convos
  <1>2. CASE \E s \in sends : t \in s.text
    BY <1>2 DEF Kept
  <1>3. CASE current # None /\ t \in box
    BY <1>1, <1>3 DEF Kept
  <1>4. ASSUME NEW c \in rows \cup blocked, t \in draft[c] PROVE Kept(t)' \/ Excused(t)
    <2>1. CASE c # current
      BY <1>1, <1>4, <2>1 DEF Kept
    <2>2. CASE c = current
      <3>1. current # None
        BY <1>1, <2>2, ComposerAssumption DEF Convos
      <3> QED
        BY <1>2, <1>3, <1>4, <2>2, <3>1, OpenDraft DEF Excused
    <2> QED
      BY <2>1, <2>2
  <1> QED
    BY <1>2, <1>3, <1>4 DEF Kept

LEMMA ReloadKeeps ==
    ASSUME IndInv, NEW t \in Texts, Kept(t), NEW known \in SUBSET Friends, Reload(known)
    PROVE  Kept(t)' \/ Excused(t)
  <1> DEFINE saved == WithDraft(current, box)
             gone == Groups \ rows
             dropped == UNION {saved[c] : c \in gone}
  <1>1. /\ current' = None /\ sends' = {} /\ UNCHANGED blocked
        /\ draft' = [c \in Convos |-> IF c \in gone THEN {} ELSE saved[c]]
        /\ home' = Without(dropped)
        /\ rows' = (Groups \cap rows) \cup Restored(known)
    BY DEF Reload
  <1>2. /\ \A c \in Convos : saved[c] = (IF c = current THEN box ELSE draft[c])
        /\ rows \subseteq Convos /\ blocked \subseteq Friends
        /\ current # None => current \in rows
    BY WithDraftIs DEF IndInv, TypeOK
  <1> HIDE DEF saved, dropped
  <1>3. CASE \E s \in sends : t \in s.text
    BY <1>1, <1>3 DEF Excused
  <1>4. ASSUME NEW c \in rows \cup blocked, t \in saved[c] PROVE Kept(t)'
    <2>1. c \in Convos /\ c \notin gone
      BY <1>2, <1>4, ComposerAssumption DEF Convos
    <2> HIDE DEF gone
    <2>2. draft'[c] = saved[c]
      BY <1>1, <2>1
    <2>3. c \in rows' \cup blocked'
      <3>1. CASE c \in blocked
        BY <1>1, <3>1
      <3>2. CASE c \notin blocked /\ c \in Groups
        BY <1>1, <1>4, <3>2
      <3>3. CASE c \notin blocked /\ c \in Friends
        BY <1>1, <1>4, <2>2, <3>3 DEF Restored
      <3> QED
        BY <2>1, <3>1, <3>2, <3>3 DEF Convos
    <2> QED
      BY <1>4, <2>2, <2>3 DEF Kept
  <1>5. CASE current # None /\ t \in box
    BY <1>2, <1>4, <1>5
  <1>6. home[t] = None => home'[t] = None
    BY <1>1, WithoutIs DEF IndInv
  <1>7. ASSUME NEW c \in rows \cup blocked, t \in draft[c] PROVE Kept(t)' \/ Excused(t)
    <2>1. c \in Convos /\ c # None
      BY <1>2, ComposerAssumption DEF Convos
    <2>2. CASE c # current
      BY <1>2, <1>4, <1>7, <2>1, <2>2
    <2>3. CASE c = current
      BY <1>3, <1>5, <1>6, <1>7, <2>1, <2>3, OpenDraft DEF Excused
    <2> QED
      BY <2>2, <2>3
  <1> QED
    BY <1>3, <1>5, <1>7 DEF Kept

LEMMA EndKeeps ==
    ASSUME IndInv, NEW t \in Texts, Kept(t), NEW s \in sends, Sent(s) \/ NotSent(s)
    PROVE  Kept(t)' \/ Excused(t)
  <1>1. /\ sends' = sends \ {s} /\ UNCHANGED <<current, rows, blocked>>
        /\ draft' = [draft EXCEPT ![s.convo] = IF Sent(s) THEN {} ELSE box']
        /\ box \subseteq box'
    BY DEF Sent, NotSent, Ends, listVars
  <1>2. CASE s.convo # current
    BY <1>1, <1>2 DEF Excused
  <1>3. CASE s.convo = current
    <2>1. current \in Convos /\ current # None
      BY <1>3, ComposerAssumption DEF IndInv, TypeOK, Convos
    <2>2. \A c \in Convos \ {current} : draft'[c] = draft[c]
      BY <1>1, <1>3 DEF IndInv, TypeOK
    <2>3. home[t] = None => home'[t] = None
      BY WithoutIs DEF Sent, NotSent, IndInv
    <2>4. CASE t \in s.text
      <3>1. CASE Sent(s)
        BY <2>4, <3>1, WithoutIs DEF Sent, Excused, IndInv
      <3>2. CASE NotSent(s)
        BY <1>1, <2>1, <2>4, <3>2 DEF NotSent, Kept
      <3> QED
        BY <3>1, <3>2
    <2>5. CASE t \in box
      BY <1>1, <2>1, <2>5 DEF Kept
    <2>6. CASE \E r \in sends : r # s /\ t \in r.text
      BY <1>1, <2>6 DEF Kept
    <2>7. ASSUME NEW c \in rows \cup blocked, t \in draft[c] PROVE Kept(t)' \/ Excused(t)
      <3>1. CASE c = current
        BY <2>1, <2>3, <2>4, <2>5, <2>6, <2>7, <3>1, OpenDraft DEF Excused
      <3>2. CASE c # current
        <4>1. c \in Convos
          BY DEF IndInv, TypeOK, Convos
        <4> QED
          BY <1>1, <2>2, <2>7, <3>2, <4>1 DEF Kept
      <3> QED
        BY <3>1, <3>2
    <2> QED
      BY <2>4, <2>5, <2>6, <2>7 DEF Kept
  <1> QED
    BY <1>2, <1>3

LEMMA StepKeeps ==
    ASSUME IndInv, [Next]_vars, NEW t \in Texts, Kept(t)
    PROVE  Kept(t)' \/ Excused(t)
  <1>1. ASSUME NEW x \in Texts, NEW quoted \in BOOLEAN, Type(x, quoted) PROVE Kept(t)'
    BY <1>1 DEF Type, listVars, Kept
  <1>2. CASE Clear
    <2>1. t \in box => home'[t] = None
      BY <1>2, WithoutIs DEF Clear, IndInv
    <2> QED
      BY <1>2, <2>1 DEF Clear, listVars, Kept, Excused
  <1>3. CASE SaveDraft
    BY <1>3, StoreKeeps DEF SaveDraft, listVars
  <1>4. CASE Back
    BY <1>4, StoreKeeps DEF Back, listVars
  <1>5. ASSUME NEW c \in Convos, Select(c) PROVE Kept(t)' \/ Excused(t)
    <2>1. /\ current' \in Convos \ {current} /\ box' = draft[current']
          /\ draft' = WithDraft(current, box) /\ rows \subseteq rows'
          /\ UNCHANGED <<sends, home, blocked>>
      BY <1>5 DEF Select
    <2> QED
      BY <2>1, StoreKeeps
  <1>6. CASE Send
    <2> DEFINE new == [convo |-> current, text |-> box]
    <2>1. sends' = sends \cup {new} /\ UNCHANGED <<rows, blocked, draft>> /\ new.text = box
      BY <1>6 DEF Send, listVars
    <2> HIDE DEF new
    <2> QED
      BY <2>1 DEF Kept
  <1>7. ASSUME NEW c \in Convos, Block(c) \/ Leave(c) PROVE Excused(t)
    BY <1>7 DEF Block, Leave, Excused
  <1>8. ASSUME NEW known \in SUBSET Friends, Reload(known) PROVE Kept(t)' \/ Excused(t)
    BY <1>8, ReloadKeeps
  <1>9. ASSUME NEW s \in sends, Sent(s) \/ NotSent(s) PROVE Kept(t)' \/ Excused(t)
    BY <1>9, EndKeeps
  <1>10. ASSUME NEW c \in Convos, Unblock(c) \/ Rejoin(c) PROVE Kept(t)' \/ Excused(t)
    <2>1. CASE Unblock(c)
      BY <2>1 DEF Unblock, Excused
    <2>2. CASE Rejoin(c)
      BY <2>2 DEF Rejoin, Kept
    <2> QED
      BY <1>10, <2>1, <2>2
  <1>11. ASSUME NEW f \in Files, NEW b \in BOOLEAN, Attach(f) \/ Stage(f) \/ FileEnds(f, b)
         PROVE  Kept(t)'
    BY <1>11 DEF Attach, Stage, FileEnds, RestVars, listVars, Kept
  <1>12. CASE UNCHANGED vars
    BY <1>12 DEF vars, Kept
  <1> QED
    BY <1>1, <1>2, <1>3, <1>4, <1>5, <1>6, <1>7, <1>8, <1>9, <1>10, <1>11, <1>12 DEF Next

(* What was typed stays where the user gets at it, through drafts, failed  *)
(* sends and reloads, but for a late end of a send, a reload while sending *)
(* and a conversation that is closed under the user.                       *)
THEOREM TextsAreKept == Spec => KeepsTexts
  <1> DEFINE Keep == \A t \in Texts : Kept(t) /\ ~Kept(t)' =>
                \/ home'[t] = None
                \/ \E s \in sends \ sends' : s.convo # current \/ (t \in s.text /\ sends' = {})
                \/ Groups \cap (rows \ rows') # {} \/ blocked' # blocked
  <1>1. IndInv /\ [Next]_vars => [Keep]_vars
    BY StepKeeps DEF Excused
  <1>2. Spec => [][Keep]_vars
    BY <1>1, Invariance, PTL DEF Spec
  <1> QED
    BY <1>2 DEF KeepsTexts
=============================================================================
