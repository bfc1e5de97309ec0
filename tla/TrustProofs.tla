----------------------------- MODULE TrustProofs ----------------------------
(***************************************************************************)
(* Proofs about whose keys are trusted, KeyTrust, and about what is sealed *)
(* and signed with keys, Codecs with Envelope and RelayUrl. They hold for  *)
(* all sets of contacts, any number of keys in turn and of tasks at a time,*)
(* and all payloads and addresses. The two modules share no variable. What *)
(* the properties of KeyTrust say of keys in use is inductive once it is   *)
(* known that a task that has adopted all it fetched finds a key in use for*)
(* everybody it is about, and that no code that is pinned, shown or offered*)
(* is missing; Codecs takes one step, so the work is in lemmas about the   *)
(* operators.                                                              *)
(***************************************************************************)
EXTENDS KeyTrust, Codecs, FiniteSetTheorems, WellFoundedInduction, TLAPS

-----------------------------------------------------------------------------
(* KeyTrust.                                                               *)

\* No code, no confirmation.
PinsWhole == \A c \in Contacts : pins[c].verified => pins[c].fp # 0

\* What the banner offers to accept is a code.
AlertsWhole == \A c \in Contacts : alerts[c] # NoAlert => alerts[c].new # 0

\* A task under way is still to adopt a key of everybody it is about, or there
\* is one in use; reviews and links are about one contact.
TasksCover ==
    /\ \A t \in Tasks : task[t].st = "loading" =>
          \A c \in Members(task[t].convo) : task[t].got[c] # 0 \/ peers[c] # 0
    /\ \A t \in {"review", "link"} : task[t].st = "loading" => task[t].convo \in Contacts
    /\ task["link"].st = "loading" => task["link"].fp \in Keys

DialogKnown == dialog # NoDialog => dialog.user \in Contacts /\ dialog.fp \in Keys

Trust == KeysInUseAreKnown /\ BannerTells /\ PinsWhole /\ AlertsWhole

IndInv == TypeOK /\ Trust /\ TasksCover /\ DialogKnown

TaskFrames == [st : {"idle", "loading", "reading"}, convo : Contacts \cup {Group},
               got : [Contacts -> Keys \cup {0}], fp : Keys \cup {0}]

LEMMA InitInd == Init => IndInv
  <1> SUFFICES ASSUME Init PROVE IndInv
    OBVIOUS
  <1>1. TypeOK
    BY TrustAssumption
    DEF Init, TypeOK, NoPin, NoAlert, NoTask, NoDialog
  <1>2. Trust
    BY DEF Init, Trust, KeysInUseAreKnown, BannerTells, PinsWhole, AlertsWhole, NoPin, NoAlert
  <1>3. TasksCover /\ DialogKnown
    BY DEF Init, TasksCover, DialogKnown, NoTask, Tasks
  <1> QED
    BY <1>1, <1>2, <1>3 DEF IndInv

-----------------------------------------------------------------------------
(* Steps that leave the keys in use, the pins and the alerts alone.        *)

LEMMA TrustKept ==
    ASSUME Trust, UNCHANGED <<peers, pins, alerts, overtaken>>
    PROVE  Trust'
  BY DEF Trust, KeysInUseAreKnown, BannerTells, PinsWhole, AlertsWhole

\* A task is over.
LEMMA TaskEnds ==
    ASSUME TypeOK, TasksCover, NEW t \in Tasks,
           task' = [task EXCEPT ![t] = NoTask], UNCHANGED peers
    PROVE  task' \in [Tasks -> TaskFrames] /\ TasksCover'
  <1>1. task \in [Tasks -> TaskFrames] /\ NoTask \in TaskFrames /\ NoTask.st = "idle"
    BY DEF TypeOK, TaskFrames, NoTask
  <1>2. \A s \in Tasks : task'[s] = IF s = t THEN NoTask ELSE task[s]
    BY <1>1
  <1>3. "link" \in Tasks /\ "review" \in Tasks
    BY DEF Tasks
  <1>4. \A s \in Tasks : task'[s].st = "loading" => task'[s] = task[s] /\ task[s].st = "loading"
    BY <1>1, <1>2
  <1> QED
    BY <1>1, <1>2, <1>3, <1>4 DEF TasksCover

\* The user settles a code for a contact.
LEMMA SettleTrust ==
    ASSUME TypeOK, Trust, NEW c \in Contacts, NEW fp \in Keys, NEW verified \in BOOLEAN,
           Settle(c, fp, verified), UNCHANGED peers
    PROVE  /\ Trust'
           /\ pins' \in [Contacts -> [fp : Keys \cup {0}, verified : BOOLEAN]]
           /\ alerts' \in [Contacts -> [old : Keys \cup {0}, new : Keys \cup {0},
                                        reason : {"none", "changed", "link"}]]
           /\ overtaken' \subseteq Contacts
           /\ \A d \in Contacts : peers'[d] # 0 => pins'[d].fp # 0
  <1>1. /\ pins \in [Contacts -> [fp : Keys \cup {0}, verified : BOOLEAN]]
        /\ alerts \in [Contacts -> [old : Keys \cup {0}, new : Keys \cup {0},
                                    reason : {"none", "changed", "link"}]]
        /\ overtaken \subseteq Contacts
        /\ \A d \in Contacts : peers[d] # 0 => pins[d].fp # 0
    BY DEF TypeOK
  <1>2. fp \in Nat \ {0} /\ NoAlert.reason = "none"
    BY TrustAssumption DEF Keys, NoAlert
  <1>3. /\ pins'[c] = [fp |-> fp, verified |-> verified] /\ alerts'[c] = NoAlert
        /\ \A d \in Contacts \ {c} : pins'[d] = pins[d] /\ alerts'[d] = alerts[d]
    BY <1>1 DEF Settle
  <1>4. /\ pins' \in [Contacts -> [fp : Keys \cup {0}, verified : BOOLEAN]]
        /\ alerts' \in [Contacts -> [old : Keys \cup {0}, new : Keys \cup {0},
                                     reason : {"none", "changed", "link"}]]
        /\ overtaken' \subseteq Contacts
    BY <1>1 DEF Settle, NoAlert
  <1>5. \A d \in Contacts \ {c} : d \in overtaken => d \in overtaken'
    BY DEF Settle
  <1>6. peers[c] \in {0, fp} \/ c \in overtaken'
    BY DEF Settle
  <1>7. KeysInUseAreKnown'
    BY <1>3, <1>5, <1>6 DEF Trust, KeysInUseAreKnown
  <1>8. BannerTells'
    BY <1>2, <1>3 DEF Trust, BannerTells
  <1>9. PinsWhole' /\ AlertsWhole'
    BY <1>2, <1>3 DEF Trust, PinsWhole, AlertsWhole
  <1>10. \A d \in Contacts : peers'[d] # 0 => pins'[d].fp # 0
    BY <1>1, <1>2, <1>3
  <1> QED
    BY <1>4, <1>7, <1>8, <1>9, <1>10 DEF Trust

-----------------------------------------------------------------------------
(* Fetching and adopting.                                                  *)

LEMMA FetchInd ==
    ASSUME IndInv, NEW t \in Tasks, NEW convo \in Contacts \cup {Group}, NEW fp \in 0..MaxKey,
           NEW served \in [Contacts -> Keys], Fetch(t, convo, fp, served)
    PROVE  IndInv'
  <1> DEFINE new == [st |-> "loading", convo |-> convo, fp |-> fp,
                     got |-> [c \in Contacts |-> IF Fresh(t, convo) /\ c \in Members(convo)
                                                 THEN served[c] ELSE 0]]
  <1>1. /\ task' = [task EXCEPT ![t] = new]
        /\ meta' = IF convo = Group THEN served ELSE meta
        /\ UNCHANGED <<peers, pins, alerts, dialog, accepting, overtaken>>
        /\ t = "review" => convo # Group
        /\ IF t = "link" THEN convo # Group /\ fp # 0 ELSE fp = 0
    BY DEF Fetch
  <1>2. new.got \in [Contacts -> Keys \cup {0}] /\ fp \in Keys \cup {0}
    BY TrustAssumption DEF Keys
  <1>3. new \in TaskFrames
    BY <1>2 DEF TaskFrames
  <1>4. task \in [Tasks -> TaskFrames] /\ "link" \in Tasks /\ "review" \in Tasks
    BY DEF IndInv, TypeOK, TaskFrames, Tasks
  <1>5. task' \in [Tasks -> TaskFrames] /\ (\A s \in Tasks : task'[s] = IF s = t THEN new ELSE task[s])
    BY <1>1, <1>3, <1>4
  <1>6. \A c \in Members(convo) : new.got[c] # 0 \/ peers[c] # 0
    <2> SUFFICES ASSUME NEW c \in Members(convo), ~(new.got[c] # 0) PROVE peers[c] # 0
      OBVIOUS
    <2>1. c \in Contacts /\ served[c] # 0
      <3>1. c \in Contacts
        BY DEF Members
      <3>2. 0 \notin Keys
        BY TrustAssumption DEF Keys
      <3> QED
        BY <3>1, <3>2
    <2>2. ~Fresh(t, convo)
      BY <2>1
    <2> QED
      BY <2>2 DEF Fresh, Members
  <1>7. TasksCover'
    <2>1. new.st = "loading" /\ new.convo = convo /\ new.fp = fp
      OBVIOUS
    <2>2. \A s \in Tasks : task'[s].st = "loading" =>
             \A c \in Members(task'[s].convo) : task'[s].got[c] # 0 \/ peers'[c] # 0
      <3> SUFFICES ASSUME NEW s \in Tasks, task'[s].st = "loading",
                          NEW c \in Members(task'[s].convo)
                   PROVE  task'[s].got[c] # 0 \/ peers'[c] # 0
        OBVIOUS
      <3> HIDE DEF new
      <3>1. CASE s = t
        BY <3>1, <1>1, <1>5, <1>6, <2>1
      <3>2. CASE s # t
        BY <3>2, <1>1, <1>5 DEF IndInv, TasksCover
      <3> QED
        BY <3>1, <3>2
    <2> HIDE DEF new
    <2>3. \A s \in {"review", "link"} : task'[s].st = "loading" => task'[s].convo \in Contacts
      BY <1>1, <1>4, <1>5, <2>1 DEF IndInv, TasksCover
    <2>4. task'["link"].st = "loading" => task'["link"].fp \in Keys
      BY <1>1, <1>2, <1>4, <1>5, <2>1 DEF IndInv, TasksCover
    <2> QED
      BY <2>2, <2>3, <2>4 DEF TasksCover
  <1> HIDE DEF new
  <1>8. TypeOK'
    BY <1>1, <1>5 DEF IndInv, TypeOK, TaskFrames
  <1>9. Trust' /\ DialogKnown'
    BY <1>1, TrustKept DEF IndInv, DialogKnown
  <1> QED
    BY <1>7, <1>8, <1>9 DEF IndInv

LEMMA AdoptInd ==
    ASSUME IndInv, NEW t \in Tasks, NEW c \in Contacts, Adopt(t, c)
    PROVE  IndInv'
  <1> DEFINE fp == task[t].got[c]
  <1>1. /\ task \in [Tasks -> TaskFrames]
        /\ pins \in [Contacts -> [fp : Keys \cup {0}, verified : BOOLEAN]]
        /\ alerts \in [Contacts -> [old : Keys \cup {0}, new : Keys \cup {0},
                                    reason : {"none", "changed", "link"}]]
        /\ peers \in [Contacts -> Keys \cup {0}]
        /\ \A d \in Contacts : peers[d] # 0 => pins[d].fp # 0
    BY DEF IndInv, TypeOK, TaskFrames
  <1>2. fp \in Keys /\ fp # 0 /\ fp \in Nat /\ task[t].st = "loading" /\ task[t] \in TaskFrames
    BY <1>1, TrustAssumption DEF Adopt, TaskFrames, Keys
  <1>3. /\ pins' = Pinned(c, fp) /\ alerts' = Alerted(c, fp)
        /\ peers' = [peers EXCEPT ![c] = fp] /\ overtaken' = overtaken \ {c}
        /\ task' = [task EXCEPT ![t].got[c] = 0]
        /\ UNCHANGED <<meta, dialog, accepting>>
    BY DEF Adopt
  <1>4. TasksCover' /\ task' \in [Tasks -> TaskFrames]
    <2> DEFINE new == [task[t] EXCEPT !.got = [task[t].got EXCEPT ![c] = 0]]
    <2>1. task' = [task EXCEPT ![t] = new]
      BY <1>3
    <2>2. new \in TaskFrames /\ new.st = task[t].st /\ new.convo = task[t].convo
          /\ new.fp = task[t].fp /\ new.got = [task[t].got EXCEPT ![c] = 0]
      BY <1>2 DEF TaskFrames
    <2> HIDE DEF new
    <2>3. \A s \in Tasks : task'[s] = IF s = t THEN new ELSE task[s]
      BY <1>1, <2>1
    <2>4. \A s \in Tasks : /\ task'[s].st = task[s].st /\ task'[s].convo = task[s].convo
                           /\ task'[s].fp = task[s].fp
                           /\ \A d \in Contacts \ {c} : task'[s].got[d] = task[s].got[d]
      BY <2>2, <2>3, <1>2 DEF TaskFrames
    <2>5. peers'[c] # 0 /\ \A d \in Contacts \ {c} : peers'[d] = peers[d]
      BY <1>1, <1>2, <1>3
    <2>6. \A s \in Tasks : Members(task[s].convo) \subseteq Contacts
      BY <1>1 DEF Members, TaskFrames
    <2>7. \A s \in Tasks : task'[s].st = "loading" =>
             \A d \in Members(task'[s].convo) : task'[s].got[d] # 0 \/ peers'[d] # 0
      BY <2>4, <2>5, <2>6 DEF IndInv, TasksCover
    <2>8. /\ \A s \in {"review", "link"} : task'[s].st = "loading" => task'[s].convo \in Contacts
          /\ task'["link"].st = "loading" => task'["link"].fp \in Keys
      BY <2>4 DEF IndInv, TasksCover, Tasks
    <2>9. task' \in [Tasks -> TaskFrames]
      BY <1>1, <2>1, <2>2
    <2> QED
      BY <2>7, <2>8, <2>9 DEF TasksCover
  <1> HIDE DEF fp
  <1>5. /\ peers'[c] = fp /\ \A d \in Contacts \ {c} : peers'[d] = peers[d]
        /\ peers' \in [Contacts -> Keys \cup {0}]
    BY <1>1, <1>2, <1>3
  <1>6. /\ \A d \in Contacts \ {c} : pins'[d] = pins[d]
        /\ IF pins[c] = NoPin \/ (pins[c].fp # fp /\ ~pins[c].verified)
           THEN pins'[c] = [fp |-> fp, verified |-> FALSE] ELSE pins'[c] = pins[c]
        /\ pins' \in [Contacts -> [fp : Keys \cup {0}, verified : BOOLEAN]]
    BY <1>1, <1>2, <1>3 DEF Pinned
  <1>7. /\ \A d \in Contacts \ {c} : alerts'[d] = alerts[d]
        /\ IF pins[c].verified /\ pins[c].fp # fp
           THEN alerts'[c] = IF alerts[c].new = fp THEN alerts[c]
                             ELSE [old |-> pins[c].fp, new |-> fp, reason |-> "changed"]
           ELSE alerts'[c] = IF pins[c].fp = fp /\ alerts[c].reason = "changed"
                             THEN NoAlert ELSE alerts[c]
        /\ alerts' \in [Contacts -> [old : Keys \cup {0}, new : Keys \cup {0},
                                     reason : {"none", "changed", "link"}]]
    BY <1>1, <1>2, <1>3 DEF Alerted, NoAlert
  <1>8. NoPin.fp = 0 /\ NoPin.verified = FALSE /\ NoAlert.new = 0 /\ NoAlert.reason = "none"
    BY DEF NoPin, NoAlert
  <1>9. pins[c] \in [fp : Keys \cup {0}, verified : BOOLEAN]
    BY <1>1
  <1>10. /\ pins[c].verified => pins[c].fp # 0
         /\ alerts[c].reason = "changed" =>
               pins[c].verified /\ alerts[c].old = pins[c].fp
    BY DEF IndInv, Trust, PinsWhole, BannerTells
  <1>11. KeysInUseAreKnown'
    <2>1. fp = pins'[c].fp \/ alerts'[c] # NoAlert
      BY <1>2, <1>6, <1>7, <1>8
    <2> QED
      BY <1>3, <1>5, <1>6, <1>7, <2>1 DEF IndInv, Trust, KeysInUseAreKnown
  <1>12. BannerTells'
    <2>1. alerts'[c].reason = "changed" =>
             /\ pins'[c].verified /\ alerts'[c].old = pins'[c].fp
             /\ alerts'[c].new = fp /\ fp # pins'[c].fp
      BY <1>6, <1>7, <1>8, <1>10
    <2> QED
      BY <1>5, <1>6, <1>7, <2>1 DEF IndInv, Trust, BannerTells
  <1>13. PinsWhole'
    BY <1>2, <1>6 DEF IndInv, Trust, PinsWhole
  <1>14. AlertsWhole'
    <2>1. alerts'[c] # NoAlert => alerts'[c].new # 0
      BY <1>2, <1>7 DEF IndInv, Trust, AlertsWhole
    <2> QED
      BY <1>7, <2>1 DEF IndInv, Trust, AlertsWhole
  <1>15. \A d \in Contacts : peers'[d] # 0 => pins'[d].fp # 0
    <2>1. pins'[c].fp # 0
      BY <1>2, <1>6, <1>10
    <2> QED
      BY <1>1, <1>5, <1>6, <2>1
  <1>16. TypeOK'
    BY <1>3, <1>4, <1>5, <1>6, <1>7, <1>15 DEF IndInv, TypeOK, TaskFrames
  <1>17. DialogKnown'
    BY <1>3 DEF IndInv, DialogKnown
  <1> QED
    BY <1>4, <1>11, <1>12, <1>13, <1>14, <1>16, <1>17 DEF IndInv, Trust

LEMMA AdoptFailsInd ==
    ASSUME IndInv, NEW t \in Tasks, AdoptFails(t)
    PROVE  IndInv'
  <1>1. task' \in [Tasks -> TaskFrames] /\ TasksCover'
    BY TaskEnds DEF IndInv, AdoptFails
  <1>2. Trust'
    BY TrustKept DEF IndInv, AdoptFails
  <1> QED
    BY <1>1, <1>2 DEF IndInv, TypeOK, DialogKnown, AdoptFails, TaskFrames

-----------------------------------------------------------------------------
(* The screen and its dialogs.                                             *)

\* What a finished task knows.
LEMMA ReadyKnows ==
    ASSUME TypeOK, TasksCover, NEW t \in Tasks, Ready(t)
    PROVE  /\ task[t].st = "loading"
           /\ \A c \in Members(task[t].convo) : c \in Contacts /\ peers[c] \in Keys
  <1>1. task[t].st = "loading" /\ task[t].got = [c \in Contacts |-> 0]
    BY DEF Ready, NoTask
  <1>2. task[t].convo \in Contacts \cup {Group} /\ peers \in [Contacts -> Keys \cup {0}]
    BY DEF TypeOK
  <1>3. \A c \in Members(task[t].convo) : c \in Contacts
    BY <1>2 DEF Members
  <1>4. \A c \in Members(task[t].convo) : task[t].got[c] # 0 \/ peers[c] # 0
    BY <1>1 DEF TasksCover
  <1> QED
    BY <1>1, <1>2, <1>3, <1>4

LEMMA MergedTyped ==
    ASSUME TypeOK, NEW t \in Tasks
    PROVE  Merged(t) \in [Contacts -> Keys \cup {0}]
  BY DEF TypeOK, Merged

LEMMA ShowLoadedInd ==
    ASSUME IndInv, ShowLoaded
    PROVE  IndInv'
  <1>1. "open" \in Tasks
    BY DEF Tasks
  <1>2. task' \in [Tasks -> TaskFrames] /\ TasksCover'
    BY <1>1, TaskEnds DEF IndInv, ShowLoaded
  <1>3. Trust'
    BY TrustKept DEF IndInv, ShowLoaded
  <1>4. meta' \in [Contacts -> Keys \cup {0}]
    BY <1>1, MergedTyped DEF IndInv, ShowLoaded
  <1> QED
    BY <1>2, <1>3, <1>4 DEF IndInv, TypeOK, DialogKnown, ShowLoaded, TaskFrames

LEMMA ShowCodeInd ==
    ASSUME IndInv, ShowCode
    PROVE  IndInv'
  <1> DEFINE c == task["review"].convo
             shown == [user |-> c, fp |-> peers[c], was |-> IsVerified(c)]
  <1>1. "review" \in Tasks
    BY DEF Tasks
  <1>2. task' \in [Tasks -> TaskFrames] /\ TasksCover'
    BY <1>1, TaskEnds DEF IndInv, ShowCode
  <1>3. Trust'
    BY TrustKept DEF IndInv, ShowCode
  <1>4. c \in Contacts /\ peers[c] \in Keys
    <2>1. task["review"].st = "loading"
          /\ \A d \in Members(c) : d \in Contacts /\ peers[d] \in Keys
      BY <1>1, ReadyKnows DEF IndInv, ShowCode
    <2>2. c \in Contacts
      BY <2>1 DEF IndInv, TasksCover
    <2>3. c \in Members(c)
      BY <2>2, TrustAssumption DEF Members
    <2> QED
      BY <2>1, <2>2, <2>3
  <1>5. IsVerified(c) \in BOOLEAN
    BY <1>4 DEF IndInv, TypeOK, IsVerified
  <1>6. dialog' = shown
    BY DEF ShowCode
  <1>7. /\ dialog' \in [user : Contacts \cup {Group}, fp : Keys \cup {0}, was : BOOLEAN]
        /\ dialog'.user \in Contacts /\ dialog'.fp \in Keys
    BY <1>4, <1>5, <1>6
  <1> QED
    BY <1>2, <1>3, <1>7 DEF IndInv, TypeOK, DialogKnown, ShowCode, TaskFrames

LEMMA CloseDialogInd ==
    ASSUME IndInv, CloseDialog
    PROVE  IndInv'
  <1>1. Trust'
    BY TrustKept DEF IndInv, CloseDialog
  <1>2. dialog' = NoDialog /\ NoDialog \in [user : Contacts \cup {Group}, fp : Keys \cup {0}, was : BOOLEAN]
    BY DEF CloseDialog, NoDialog
  <1> QED
    BY <1>1, <1>2 DEF IndInv, TypeOK, TasksCover, DialogKnown, CloseDialog

LEMMA ToggleInd ==
    ASSUME IndInv, Toggle
    PROVE  IndInv'
  <1>1. dialog.user \in Contacts /\ dialog.fp \in Keys /\ (~dialog.was) \in BOOLEAN
    BY DEF IndInv, TypeOK, DialogKnown, Toggle
  <1>2. Settle(dialog.user, dialog.fp, ~dialog.was) /\ UNCHANGED peers
    BY DEF Toggle
  <1>3. /\ Trust'
        /\ pins' \in [Contacts -> [fp : Keys \cup {0}, verified : BOOLEAN]]
        /\ alerts' \in [Contacts -> [old : Keys \cup {0}, new : Keys \cup {0},
                                     reason : {"none", "changed", "link"}]]
        /\ overtaken' \subseteq Contacts
        /\ \A d \in Contacts : peers'[d] # 0 => pins'[d].fp # 0
    BY <1>1, <1>2, SettleTrust DEF IndInv
  <1>4. dialog' = NoDialog /\ NoDialog \in [user : Contacts \cup {Group}, fp : Keys \cup {0}, was : BOOLEAN]
    BY DEF Toggle, NoDialog
  <1> QED
    BY <1>3, <1>4 DEF IndInv, TypeOK, TasksCover, DialogKnown, Toggle

LEMMA AskAcceptInd ==
    ASSUME IndInv, NEW c \in Contacts, AskAccept(c)
    PROVE  IndInv'
  <1>1. Trust'
    BY TrustKept DEF IndInv, AskAccept
  <1> QED
    BY <1>1 DEF IndInv, TypeOK, TasksCover, DialogKnown, AskAccept

LEMMA AnswerAcceptInd ==
    ASSUME IndInv, NEW ok \in BOOLEAN, AnswerAccept(ok)
    PROVE  IndInv'
  <1>1. CASE ok /\ alerts[accepting] # NoAlert
    <2> DEFINE c == accepting
               fp == alerts[accepting].new
    <2>1. c \in Contacts
      BY DEF IndInv, TypeOK, AnswerAccept
    <2>2. fp \in Keys
      BY <1>1, <2>1 DEF IndInv, TypeOK, Trust, AlertsWhole
    <2>3. Settle(c, fp, FALSE) /\ UNCHANGED peers
      BY <1>1 DEF AnswerAccept
    <2> HIDE DEF c, fp
    <2>4. /\ Trust'
          /\ pins' \in [Contacts -> [fp : Keys \cup {0}, verified : BOOLEAN]]
          /\ alerts' \in [Contacts -> [old : Keys \cup {0}, new : Keys \cup {0},
                                       reason : {"none", "changed", "link"}]]
          /\ overtaken' \subseteq Contacts
          /\ \A d \in Contacts : peers'[d] # 0 => pins'[d].fp # 0
      BY <2>1, <2>2, <2>3, SettleTrust DEF IndInv
    <2> QED
      BY <2>4 DEF IndInv, TypeOK, TasksCover, DialogKnown, AnswerAccept
  <1>2. CASE ~(ok /\ alerts[accepting] # NoAlert)
    <2>1. Trust'
      BY <1>2, TrustKept DEF IndInv, AnswerAccept
    <2> QED
      BY <1>2, <2>1 DEF IndInv, TypeOK, TasksCover, DialogKnown, AnswerAccept
  <1> QED
    BY <1>1, <1>2

LEMMA CheckLinkInd ==
    ASSUME IndInv, CheckLink
    PROVE  IndInv'
  <1> DEFINE c == task["link"].convo
             fp == task["link"].fp
  <1>1. "link" \in Tasks
    BY DEF Tasks
  <1>2. task' \in [Tasks -> TaskFrames] /\ TasksCover'
    BY <1>1, TaskEnds DEF IndInv, CheckLink
  <1>3. c \in Contacts /\ peers[c] \in Keys /\ fp \in Keys
    <2>1. task["link"].st = "loading"
          /\ \A d \in Members(c) : d \in Contacts /\ peers[d] \in Keys
      BY <1>1, ReadyKnows DEF IndInv, CheckLink
    <2>2. c \in Contacts /\ fp \in Keys
      BY <2>1 DEF IndInv, TasksCover
    <2>3. c \in Members(c)
      BY <2>2, TrustAssumption DEF Members
    <2> QED
      BY <2>1, <2>2, <2>3
  <1>4. UNCHANGED <<peers, meta, dialog, accepting>>
    BY DEF CheckLink
  <1>5. /\ Trust'
        /\ pins' \in [Contacts -> [fp : Keys \cup {0}, verified : BOOLEAN]]
        /\ alerts' \in [Contacts -> [old : Keys \cup {0}, new : Keys \cup {0},
                                     reason : {"none", "changed", "link"}]]
        /\ overtaken' \subseteq Contacts
        /\ \A d \in Contacts : peers'[d] # 0 => pins'[d].fp # 0
    <2>1. CASE peers[c] = fp
      <3>1. Settle(c, fp, TRUE)
        BY <2>1 DEF CheckLink
      <3> QED
        BY <1>3, <1>4, <3>1, SettleTrust DEF IndInv
    <2>2. CASE peers[c] # fp
      <3> DEFINE alert == [old |-> fp, new |-> peers[c], reason |-> "link"]
      <3>1. alerts' = [alerts EXCEPT ![c] = alert] /\ UNCHANGED <<pins, overtaken>>
        BY <2>2 DEF CheckLink
      <3>2. /\ alert \in [old : Keys \cup {0}, new : Keys \cup {0},
                          reason : {"none", "changed", "link"}]
            /\ alert.new # 0 /\ alert.reason = "link" /\ alert # NoAlert
        <4>1. 0 \notin Keys
          BY TrustAssumption DEF Keys
        <4> QED
          BY <1>3, <4>1 DEF NoAlert
      <3> HIDE DEF alert
      <3>3. /\ alerts \in [Contacts -> [old : Keys \cup {0}, new : Keys \cup {0},
                                        reason : {"none", "changed", "link"}]]
            /\ \A d \in Contacts : alerts'[d] = IF d = c THEN alert ELSE alerts[d]
        BY <1>3, <3>1 DEF IndInv, TypeOK
      <3>4. KeysInUseAreKnown'
        BY <1>4, <3>1, <3>2, <3>3 DEF IndInv, Trust, KeysInUseAreKnown
      <3>5. BannerTells'
        BY <1>4, <3>1, <3>2, <3>3 DEF IndInv, Trust, BannerTells
      <3>6. PinsWhole' /\ AlertsWhole'
        BY <3>1, <3>2, <3>3 DEF IndInv, Trust, PinsWhole, AlertsWhole
      <3> QED
        BY <1>4, <3>1, <3>2, <3>3, <3>4, <3>5, <3>6 DEF IndInv, TypeOK, Trust
    <2> QED
      BY <2>1, <2>2
  <1> QED
    BY <1>2, <1>4, <1>5 DEF IndInv, TypeOK, DialogKnown, TaskFrames

-----------------------------------------------------------------------------
(* Sending, and loading the page again.                                    *)

LEMMA TextInd ==
    ASSUME IndInv, SendText \/ HoldText
    PROVE  IndInv'
  <1>1. /\ "text" \in Tasks /\ meta' = Merged("text")
        /\ task' = [task EXCEPT !["text"] = NoTask]
        /\ UNCHANGED <<peers, pins, alerts, dialog, accepting, overtaken>>
    BY DEF Tasks, SendText, HoldText
  <1>2. task' \in [Tasks -> TaskFrames] /\ TasksCover'
    BY <1>1, TaskEnds DEF IndInv
  <1>3. Trust' /\ meta' \in [Contacts -> Keys \cup {0}]
    BY <1>1, TrustKept, MergedTyped DEF IndInv
  <1> QED
    BY <1>1, <1>2, <1>3 DEF IndInv, TypeOK, DialogKnown, TaskFrames

LEMMA CheckFileInd ==
    ASSUME IndInv, CheckFile
    PROVE  IndInv'
  <1>1. /\ "file" \in Tasks /\ "review" \in Tasks /\ "link" \in Tasks
        /\ meta' = Merged("file")
        /\ UNCHANGED <<peers, pins, alerts, dialog, accepting, overtaken>>
    BY DEF Tasks, CheckFile
  <1>2. task' \in [Tasks -> TaskFrames] /\ TasksCover'
    <2>1. CASE AlertedIn(task["file"].convo) = {}
      <3> DEFINE new == [task["file"] EXCEPT !.st = "reading"]
      <3>1. task \in [Tasks -> TaskFrames]
        BY DEF IndInv, TypeOK, TaskFrames
      <3>2. task' = [task EXCEPT !["file"] = new]
        BY <2>1 DEF CheckFile
      <3>3. new \in TaskFrames /\ new.st = "reading"
        BY <1>1, <3>1 DEF TaskFrames
      <3> HIDE DEF new
      <3>4. \A s \in Tasks : task'[s] = IF s = "file" THEN new ELSE task[s]
        BY <3>1, <3>2
      <3> QED
        BY <1>1, <3>1, <3>2, <3>3, <3>4 DEF IndInv, TasksCover
    <2>2. CASE AlertedIn(task["file"].convo) # {}
      <3>1. task' = [task EXCEPT !["file"] = NoTask]
        BY <2>2 DEF CheckFile
      <3> QED
        BY <1>1, <3>1, TaskEnds DEF IndInv
    <2> QED
      BY <2>1, <2>2
  <1>3. Trust' /\ meta' \in [Contacts -> Keys \cup {0}]
    BY <1>1, TrustKept, MergedTyped DEF IndInv
  <1> QED
    BY <1>1, <1>2, <1>3 DEF IndInv, TypeOK, DialogKnown, TaskFrames

LEMMA SendFileInd ==
    ASSUME IndInv, SendFile
    PROVE  IndInv'
  <1>1. "file" \in Tasks
    BY DEF Tasks
  <1>2. task' \in [Tasks -> TaskFrames] /\ TasksCover'
    BY <1>1, TaskEnds DEF IndInv, SendFile
  <1>3. Trust'
    BY TrustKept DEF IndInv, SendFile
  <1> QED
    BY <1>2, <1>3 DEF IndInv, TypeOK, DialogKnown, SendFile, TaskFrames

LEMMA ReloadInd ==
    ASSUME IndInv, Reload
    PROVE  IndInv'
  <1>1. TypeOK'
    BY TrustAssumption DEF IndInv, Reload, TypeOK, NoAlert, NoTask, NoDialog
  <1>2. Trust'
    BY DEF IndInv, Reload, Trust, KeysInUseAreKnown, BannerTells, PinsWhole, AlertsWhole, NoAlert
  <1>3. TasksCover' /\ DialogKnown'
    BY DEF Reload, TasksCover, DialogKnown, NoTask, Tasks
  <1> QED
    BY <1>1, <1>2, <1>3 DEF IndInv

LEMMA StutterInd == IndInv /\ UNCHANGED vars => IndInv'
  <1> SUFFICES ASSUME IndInv, UNCHANGED vars PROVE IndInv'
    OBVIOUS
  <1> USE DEF vars
  <1>1. Trust'
    BY TrustKept DEF IndInv
  <1> QED
    BY <1>1 DEF IndInv, TypeOK, TasksCover, DialogKnown

LEMMA StepInd == IndInv /\ [Next]_vars => IndInv'
  <1> SUFFICES ASSUME IndInv, [Next]_vars PROVE IndInv'
    OBVIOUS
  <1>1. ASSUME NEW t \in Tasks, NEW convo \in Contacts \cup {Group}, NEW fp \in 0..MaxKey,
               NEW served \in [Contacts -> Keys], Fetch(t, convo, fp, served)
        PROVE  IndInv'
    BY <1>1, FetchInd
  <1>2. ASSUME NEW t \in Tasks, NEW c \in Contacts, Adopt(t, c) PROVE IndInv'
    BY <1>2, AdoptInd
  <1>3. ASSUME NEW t \in Tasks, AdoptFails(t) PROVE IndInv'
    BY <1>3, AdoptFailsInd
  <1>4. CASE ShowLoaded
    BY <1>4, ShowLoadedInd
  <1>5. CASE ShowCode
    BY <1>5, ShowCodeInd
  <1>6. CASE Toggle
    BY <1>6, ToggleInd
  <1>7. CASE CloseDialog
    BY <1>7, CloseDialogInd
  <1>8. ASSUME NEW c \in Contacts, AskAccept(c) PROVE IndInv'
    BY <1>8, AskAcceptInd
  <1>9. ASSUME NEW ok \in BOOLEAN, AnswerAccept(ok) PROVE IndInv'
    BY <1>9, AnswerAcceptInd
  <1>10. CASE CheckLink
    BY <1>10, CheckLinkInd
  <1>11. CASE SendText \/ HoldText
    BY <1>11, TextInd
  <1>12. CASE CheckFile
    BY <1>12, CheckFileInd
  <1>13. CASE SendFile
    BY <1>13, SendFileInd
  <1>14. CASE Reload
    BY <1>14, ReloadInd
  <1>15. CASE UNCHANGED vars
    BY <1>15, StutterInd
  <1> QED
    BY <1>1, <1>2, <1>3, <1>4, <1>5, <1>6, <1>7, <1>8, <1>9, <1>10, <1>11, <1>12, <1>13,
       <1>14, <1>15 DEF Next

(* Every state of KeyTrust satisfies the inductive invariant: keys in use,   *)
(* pins, alerts, tasks and the dialog fit together as said above.            *)
THEOREM Invariance == Spec => []IndInv
  BY InitInd, StepInd, PTL DEF Spec

-----------------------------------------------------------------------------
(* The properties.                                                         *)

(* Every variable of the tab stays in its domain, and a key in use has been  *)
(* pinned (adoptPeerKeys).                                                   *)
THEOREM TypeCorrect == Spec => []TypeOK
  <1>1. IndInv => TypeOK
    BY DEF IndInv
  <1> QED
    BY <1>1, Invariance, PTL

(* Whatever the relay serves, a key that adoptPeerKeys put in use is pinned  *)
(* or questioned, unless the user settled a code that was not in use.        *)
THEOREM UsedKeysAreKnown == Spec => []KeysInUseAreKnown
  <1>1. IndInv => KeysInUseAreKnown
    BY DEF IndInv, Trust
  <1> QED
    BY <1>1, Invariance, PTL

(* What the banner of a changed key says, and what it offers to accept, is   *)
(* so at every moment (refreshKeyBanner, acceptNewKey).                      *)
THEOREM BannersTell == Spec => []BannerTells
  <1>1. IndInv => BannerTells
    BY DEF IndInv, Trust
  <1> QED
    BY <1>1, Invariance, PTL

(* sendCurrent encrypts a text only for keys that are pinned and not in      *)
(* question, though it looks at the alerts alone.                            *)
THEOREM TextsAreForKnownKeys == Spec => TextsAreHeld
  <1>1. ASSUME IndInv, SendText, NEW c \in Members(task["text"].convo)
        PROVE  /\ alerts[c] = NoAlert
               /\ KeyFor(task["text"].convo, c, meta') = pins[c].fp \/ c \in overtaken
    <2> DEFINE convo == task["text"].convo
    <2>1. "text" \in Tasks /\ Ready("text") /\ meta' = Merged("text")
      BY <1>1 DEF Tasks, SendText
    <2>2. c \in Contacts /\ peers[c] \in Keys
      BY <1>1, <2>1, ReadyKnows DEF IndInv
    <2>3. 0 \notin Keys
      BY TrustAssumption DEF Keys
    <2>4. alerts[c] = NoAlert
      BY <1>1 DEF SendText, AlertedIn
    <2>5. peers[c] = pins[c].fp \/ c \in overtaken
      BY <1>1, <2>2, <2>3, <2>4 DEF IndInv, Trust, KeysInUseAreKnown
    <2>6. KeyFor(convo, c, meta') = peers[c]
      BY <2>1 DEF KeyFor, Merged
    <2> QED
      BY <2>4, <2>5, <2>6
  <1>2. IndInv /\ [Next]_vars =>
          [SendText => \A c \in Members(task["text"].convo) :
              /\ alerts[c] = NoAlert
              /\ KeyFor(task["text"].convo, c, meta') = pins[c].fp \/ c \in overtaken]_vars
    BY <1>1
  <1> QED
    BY <1>2, Invariance, PTL DEF Spec, TextsAreHeld

(* No step but the button of the safety-code dialog, the banner's, or a link *)
(* changes a code that the user has verified (setVerified, acceptNewKey,     *)
(* processDeepLink).                                                         *)
THEOREM OnlyTheUserDoes == Spec => OnlyTheUserUnverifies
  <1>1. ASSUME IndInv, Next, NEW c \in Contacts, pins[c].verified, pins'[c] # pins[c]
        PROVE  dialog' # dialog \/ accepting' # accepting \/ task'["link"] # task["link"]
    <2>1. ASSUME NEW t \in Tasks, NEW d \in Contacts, Adopt(t, d) PROVE FALSE
      <3>1. pins' = Pinned(d, task[t].got[d]) /\ NoPin.verified = FALSE
        BY <2>1 DEF Adopt, NoPin
      <3>2. pins \in [Contacts -> [fp : Keys \cup {0}, verified : BOOLEAN]]
        BY <1>1 DEF IndInv, TypeOK
      <3> QED
        BY <1>1, <3>1, <3>2 DEF Pinned
    <2>2. CASE Toggle
      BY <2>2 DEF Toggle
    <2>3. ASSUME NEW ok \in BOOLEAN, AnswerAccept(ok) PROVE accepting' # accepting
      BY <2>3 DEF AnswerAccept
    <2>4. ASSUME CheckLink PROVE task'["link"] # task["link"]
      <3>1. /\ task["link"].st = "loading" /\ task' = [task EXCEPT !["link"] = NoTask]
            /\ NoTask.st = "idle" /\ "link" \in Tasks
        BY <2>4 DEF CheckLink, Ready, NoTask, Tasks
      <3>2. task \in [Tasks -> TaskFrames]
        BY <1>1 DEF IndInv, TypeOK, TaskFrames
      <3> QED
        BY <3>1, <3>2
    <2>5. CASE UNCHANGED pins
      BY <1>1, <2>5
    <2> QED
      BY <1>1, <2>1, <2>2, <2>3, <2>4, <2>5
      DEF Next, Fetch, AdoptFails, ShowLoaded, ShowCode, CloseDialog, AskAccept,
          SendText, HoldText, CheckFile, SendFile, Reload
  <1>2. IndInv /\ [Next]_vars =>
          [\A c \in Contacts : pins[c].verified /\ pins'[c] # pins[c] =>
              dialog' # dialog \/ accepting' # accepting \/ task'["link"] # task["link"]]_vars
    BY <1>1
  <1> QED
    BY <1>2, Invariance, PTL DEF Spec, OnlyTheUserUnverifies

-----------------------------------------------------------------------------
(* Codecs.                                                                 *)

-----------------------------------------------------------------------------
(* Transcripts.                                                            *)

\* A transcript tells its fields, who the keys are for, and each key's parts.
LEMMA TranscriptsDiffer ==
    ASSUME NEW a, NEW b, NEW k, NEW l, Transcript(a, k) = Transcript(b, l)
    PROVE  /\ a = b /\ DOMAIN k = DOMAIN l
           /\ \A u \in DOMAIN l : /\ k[u].kem_ct = l[u].kem_ct /\ k[u].iv = l[u].iv
                                  /\ k[u].wrapped = l[u].wrapped
  <1> DEFINE Rows(m) == [u \in DOMAIN m |-> <<m[u].kem_ct, m[u].iv, m[u].wrapped>>]
  <1>1. a = b /\ Rows(k) = Rows(l)
    BY DEF Transcript
  <1>2. DOMAIN k = DOMAIN Rows(k) /\ DOMAIN l = DOMAIN Rows(l)
    OBVIOUS
  <1>3. DOMAIN k = DOMAIN l
    BY <1>1, <1>2
  <1>4. ASSUME NEW u \in DOMAIN l
        PROVE  <<k[u].kem_ct, k[u].iv, k[u].wrapped>> = <<l[u].kem_ct, l[u].iv, l[u].wrapped>>
    <2>1. Rows(k)[u] = Rows(l)[u]
      BY <1>1
    <2>2. Rows(k)[u] = <<k[u].kem_ct, k[u].iv, k[u].wrapped>>
      BY <1>3
    <2> QED
      BY <2>1, <2>2
  <1> QED
    BY <1>1, <1>3, <1>4

LEMMA SignedOnce ==
    ASSUME NEW a, NEW b, NEW x, NEW y, Signed(a, x) = Signed(b, y)
    PROVE  a = b /\ x = y
  BY DEF Signed

\* What wrapCekForParties makes for a recipient gives that recipient the key.
LEMMA WrapsOpen ==
    ASSUME NEW cek, NEW R, NEW r \in R
    PROVE  /\ DOMAIN WrapCek(cek, R) = R
           /\ Unwraps(WrapCek(cek, R)[r], r) /\ WrapCek(cek, R)[r].wrapped.body = cek
  BY DEF WrapCek, Unwraps, Opens, Sealed, Secret

\* An entry that agrees with one of wrapCekForParties in the parts that a
\* transcript tells opens as that one does.
LEMMA OpensAlike ==
    ASSUME NEW p, NEW me, NEW iv, NEW ct, NEW cek, NEW R,
           DOMAIN p.keys = R,
           \A u \in R : /\ p.keys[u].kem_ct = WrapCek(cek, R)[u].kem_ct
                        /\ p.keys[u].iv = WrapCek(cek, R)[u].iv
                        /\ p.keys[u].wrapped = WrapCek(cek, R)[u].wrapped
    PROVE  /\ me \in R /\ Opens(cek, iv, ct) => OpenFor(me, p, iv, ct) = Success(ct.body)
           /\ ~(me \in R /\ Opens(cek, iv, ct)) => ~OpenFor(me, p, iv, ct).ok
  <1>1. CASE me \in R
    <2> DEFINE w == WrapCek(cek, R)[me]
    <2>1. p.keys[me].kem_ct = w.kem_ct /\ p.keys[me].iv = w.iv /\ p.keys[me].wrapped = w.wrapped
      BY <1>1
    <2>2. Unwraps(w, me) /\ w.wrapped.body = cek
      BY <1>1, WrapsOpen
    <2> HIDE DEF w
    <2>3. Unwraps(p.keys[me], me)
      BY <2>1, <2>2 DEF Unwraps
    <2>4. /\ Opens(cek, iv, ct) => OpenFor(me, p, iv, ct) = Success(ct.body)
          /\ ~Opens(cek, iv, ct) => OpenFor(me, p, iv, ct) = Failure("does not open")
      BY <1>1, <2>1, <2>2, <2>3 DEF OpenFor, Opens
    <2>5. ~Failure("does not open").ok
      BY DEF Failure
    <2>6. CASE Opens(cek, iv, ct)
      BY <1>1, <2>4, <2>6
    <2>7. CASE ~Opens(cek, iv, ct)
      BY <1>1, <2>4, <2>5, <2>7, Zenon
    <2> QED
      BY <2>6, <2>7
  <1>2. CASE me \notin R
    BY <1>2 DEF OpenFor, Failure
  <1> QED
    BY <1>1, <1>2

(* decryptMessage: whatever the payload, if it opens as by a sender in a     *)
(* context, and its signature is one that encryptMessage made, then it was   *)
(* made by that sender, for that context, to the one who opens it among      *)
(* others, and shows the text that was encrypted.                            *)
THEOREM MessagesAreAuthentic ==
    ASSUME NEW p, NEW me, NEW sender, NEW context,
           NEW seed, NEW text, NEW recipients, NEW by, NEW at,
           p.signature = EncryptMessage(seed, text, recipients, by, at).signature,
           DecryptMessage(p, me, sender, context).ok
    PROVE  /\ by = sender /\ at = context /\ me \in recipients
           /\ DecryptMessage(p, me, sender, context) = Success(text)
  <1> DEFINE iv == <<seed, "iv">>
             ct == Sealed(seed, iv, text)
             keys == WrapCek(seed, recipients)
  <1>1. p.signature = Signed(by, Transcript(<<"msg", at, iv, ct>>, keys))
    BY DEF EncryptMessage, MessageTranscript
  <1>2. Verifies(sender, MessageTranscript(p, context), p.signature)
    BY DEF DecryptMessage, Failure
  <1>3. p.signature = Signed(sender, Transcript(<<"msg", context, p.iv, p.ciphertext>>, p.keys))
    BY <1>2 DEF Verifies, MessageTranscript
  <1> HIDE DEF iv, ct, keys
  <1>4. /\ by = sender
        /\ Transcript(<<"msg", context, p.iv, p.ciphertext>>, p.keys) = Transcript(<<"msg", at, iv, ct>>, keys)
    BY <1>1, <1>3, SignedOnce
  <1>5. /\ <<"msg", context, p.iv, p.ciphertext>> = <<"msg", at, iv, ct>>
        /\ DOMAIN p.keys = DOMAIN keys
        /\ \A u \in DOMAIN keys : /\ p.keys[u].kem_ct = keys[u].kem_ct /\ p.keys[u].iv = keys[u].iv
                                  /\ p.keys[u].wrapped = keys[u].wrapped
    BY <1>4, TranscriptsDiffer
  <1>6. at = context /\ p.iv = iv /\ p.ciphertext = ct
    BY <1>5
  <1>7. DOMAIN keys = recipients
    BY DEF keys, WrapCek
  <1>8. /\ me \in recipients /\ Opens(seed, p.iv, p.ciphertext)
             => OpenFor(me, p, p.iv, p.ciphertext) = Success(p.ciphertext.body)
        /\ ~(me \in recipients /\ Opens(seed, p.iv, p.ciphertext))
             => ~OpenFor(me, p, p.iv, p.ciphertext).ok
    <2>1. DOMAIN p.keys = recipients
      BY <1>5, <1>7
    <2>2. \A u \in recipients : /\ p.keys[u].kem_ct = WrapCek(seed, recipients)[u].kem_ct
                                /\ p.keys[u].iv = WrapCek(seed, recipients)[u].iv
                                /\ p.keys[u].wrapped = WrapCek(seed, recipients)[u].wrapped
      BY <1>5, <1>7 DEF keys
    <2> QED
      BY <2>1, <2>2, OpensAlike
  <1>9. DecryptMessage(p, me, sender, context) = OpenFor(me, p, p.iv, p.ciphertext)
    BY <1>2 DEF DecryptMessage
  <1>10. me \in recipients /\ Opens(seed, p.iv, p.ciphertext)
    BY <1>8, <1>9
  <1>11. p.ciphertext.body = text
    BY <1>6 DEF ct, Sealed
  <1> QED
    BY <1>4, <1>6, <1>8, <1>9, <1>10, <1>11

(* decryptFile: whatever the payload of the second format, and whatever the  *)
(* relay returns for it, if the download opens as by a sender in a context,  *)
(* and the payload's signature is one that encryptFile made, then it was     *)
(* made by that sender, for that context, to the one who opens it among      *)
(* others, and the bytes are those that were encrypted.                      *)
THEOREM DownloadsAreAuthentic ==
    ASSUME NEW cipher, NEW p, NEW me, NEW sender, NEW context,
           NEW seed, NEW bytes, NEW about, NEW recipients, NEW by, NEW at,
           IsFileV2(p),
           p.signature = EncryptFile(seed, bytes, about, recipients, by, at).payload.signature,
           DecryptFile(cipher, p, me, sender, context).ok
    PROVE  /\ by = sender /\ at = context /\ me \in recipients
           /\ DecryptFile(cipher, p, me, sender, context) = Success(bytes)
  <1> DEFINE ct == Sealed(seed, <<seed, "iv">>, bytes)
             fields == <<"lattix-file-v2", at, <<seed, "iv">>, <<seed, "meta">>, Digest(ct),
                         Sealed(seed, <<seed, "meta">>, about)>>
             keys == WrapCek(seed, recipients)
             found == <<"lattix-file-v2", context, p.iv, p.meta_iv, p.ct_sha256, p.meta_ct>>
  <1>1. p.signature = Signed(by, Transcript(fields, keys))
    BY DEF EncryptFile, FileTranscript
  <1>2. VerifyFilePayload(p, sender, context) /\ p.ct_sha256 = Digest(cipher)
    BY DEF DecryptFile, Failure
  <1>3. DecryptFile(cipher, p, me, sender, context) = OpenFor(me, p, p.iv, cipher)
    BY <1>2 DEF DecryptFile
  <1>4. p.signature = Signed(sender, Transcript(found, p.keys))
    BY <1>2 DEF VerifyFilePayload, Verifies, FileTranscript
  <1> HIDE DEF fields, keys, found
  <1>5. by = sender /\ Transcript(found, p.keys) = Transcript(fields, keys)
    BY <1>1, <1>4 DEF Signed
  <1>6. /\ found = fields
        /\ DOMAIN p.keys = DOMAIN keys
        /\ \A u \in DOMAIN keys : /\ p.keys[u].kem_ct = keys[u].kem_ct /\ p.keys[u].iv = keys[u].iv
                                  /\ p.keys[u].wrapped = keys[u].wrapped
    BY <1>5, TranscriptsDiffer
  <1>7. context = at /\ p.iv = <<seed, "iv">> /\ p.ct_sha256 = Digest(ct)
    BY <1>6 DEF fields, found
  <1>8. cipher = ct
    BY <1>2, <1>7 DEF Digest
  <1>9. DOMAIN p.keys = recipients /\ DOMAIN keys = recipients
    BY <1>6 DEF keys, WrapCek
  <1>10. \A u \in recipients : /\ p.keys[u].kem_ct = WrapCek(seed, recipients)[u].kem_ct
                               /\ p.keys[u].iv = WrapCek(seed, recipients)[u].iv
                               /\ p.keys[u].wrapped = WrapCek(seed, recipients)[u].wrapped
    BY <1>6, <1>9 DEF keys
  <1>11. /\ me \in recipients /\ Opens(seed, p.iv, cipher)
               => OpenFor(me, p, p.iv, cipher) = Success(cipher.body)
         /\ ~(me \in recipients /\ Opens(seed, p.iv, cipher)) => ~OpenFor(me, p, p.iv, cipher).ok
    BY <1>9, <1>10, OpensAlike
  <1>12. me \in recipients /\ OpenFor(me, p, p.iv, cipher) = Success(cipher.body)
    BY <1>3, <1>11
  <1>13. cipher.body = bytes
    BY <1>8 DEF Sealed
  <1> QED
    BY <1>3, <1>5, <1>7, <1>12, <1>13

(* openFilePayload: the same of the metadata, before there is a download.    *)
THEOREM MetadataIsAuthentic ==
    ASSUME NEW p, NEW me, NEW sender, NEW context,
           NEW seed, NEW bytes, NEW about, NEW recipients, NEW by, NEW at,
           IsFileV2(p),
           p.signature = EncryptFile(seed, bytes, about, recipients, by, at).payload.signature,
           OpenFilePayload(p, me, sender, context).ok
    PROVE  /\ by = sender /\ at = context /\ me \in recipients
           /\ OpenFilePayload(p, me, sender, context).value = [meta |-> about, verified |-> TRUE]
  <1> DEFINE ct == Sealed(seed, <<seed, "iv">>, bytes)
             fields == <<"lattix-file-v2", at, <<seed, "iv">>, <<seed, "meta">>, Digest(ct),
                         Sealed(seed, <<seed, "meta">>, about)>>
             keys == WrapCek(seed, recipients)
             found == <<"lattix-file-v2", context, p.iv, p.meta_iv, p.ct_sha256, p.meta_ct>>
             opened == OpenFor(me, p, p.meta_iv, p.meta_ct)
  <1>1. p.signature = Signed(by, Transcript(fields, keys))
    BY DEF EncryptFile, FileTranscript
  <1>2. VerifyFilePayload(p, sender, context)
    BY DEF OpenFilePayload, Failure
  <1>3. OpenFilePayload(p, me, sender, context) =
            IF opened.ok THEN Success([meta |-> opened.value, verified |-> TRUE]) ELSE opened
    BY <1>2 DEF OpenFilePayload
  <1>4. p.signature = Signed(sender, Transcript(found, p.keys))
    BY <1>2 DEF VerifyFilePayload, Verifies, FileTranscript
  <1> HIDE DEF fields, keys, found, opened
  <1>5. by = sender /\ Transcript(found, p.keys) = Transcript(fields, keys)
    BY <1>1, <1>4 DEF Signed
  <1>6. /\ found = fields
        /\ DOMAIN p.keys = DOMAIN keys
        /\ \A u \in DOMAIN keys : /\ p.keys[u].kem_ct = keys[u].kem_ct /\ p.keys[u].iv = keys[u].iv
                                  /\ p.keys[u].wrapped = keys[u].wrapped
    BY <1>5, TranscriptsDiffer
  <1>7. context = at /\ p.meta_ct = Sealed(seed, <<seed, "meta">>, about)
    BY <1>6 DEF fields, found
  <1>8. DOMAIN p.keys = recipients /\ DOMAIN keys = recipients
    BY <1>6 DEF keys, WrapCek
  <1>9. \A u \in recipients : /\ p.keys[u].kem_ct = WrapCek(seed, recipients)[u].kem_ct
                              /\ p.keys[u].iv = WrapCek(seed, recipients)[u].iv
                              /\ p.keys[u].wrapped = WrapCek(seed, recipients)[u].wrapped
    BY <1>6, <1>8 DEF keys
  <1>10. /\ me \in recipients /\ Opens(seed, p.meta_iv, p.meta_ct) => opened = Success(p.meta_ct.body)
         /\ ~(me \in recipients /\ Opens(seed, p.meta_iv, p.meta_ct)) => ~opened.ok
    BY <1>8, <1>9, OpensAlike DEF opened
  <1>11. opened.ok
    BY <1>3
  <1>12. me \in recipients /\ opened.value = p.meta_ct.body
    BY <1>10, <1>11 DEF Success
  <1>13. p.meta_ct.body = about
    BY <1>7 DEF Sealed
  <1>14. OpenFilePayload(p, me, sender, context).value = [meta |-> opened.value, verified |-> TRUE]
    BY <1>3, <1>11 DEF Success
  <1> QED
    BY <1>5, <1>7, <1>12, <1>13, <1>14

(* crypto.js promises that a file of the second format, made to look like    *)
(* one of the first, does not verify (lines 154-156); nor does a message's   *)
(* signature verify a file of the second format.                             *)
THEOREM FormatsAreApart ==
    ASSUME NEW p, NEW sender, NEW context,
           NEW seed, NEW content, NEW about, NEW recipients, NEW by, NEW at
    PROVE  /\ ~IsFileV2(p)
              /\ p.signature = EncryptFile(seed, content, about, recipients, by, at).payload.signature
                 => ~VerifyFilePayload(p, sender, context)
           /\ IsFileV2(p)
              /\ p.signature = EncryptMessage(seed, content, recipients, by, at).signature
                 => ~VerifyFilePayload(p, sender, context)
  <1>1. \A a, k : Transcript(<<context, p.meta, p.iv>>, p.keys) #
                     Transcript(<<"lattix-file-v2", at, a[1], a[2], a[3], a[4]>>, k)
    BY DEF Transcript
  <1>2. \A a, k : Transcript(<<"lattix-file-v2", context, p.iv, p.meta_iv, p.ct_sha256, p.meta_ct>>, p.keys)
                     # Transcript(<<"msg", at, a[1], a[2]>>, k)
    BY DEF Transcript
  <1>3. ASSUME ~IsFileV2(p), VerifyFilePayload(p, sender, context),
               p.signature = EncryptFile(seed, content, about, recipients, by, at).payload.signature
        PROVE  FALSE
    <2> DEFINE ct == Sealed(seed, <<seed, "iv">>, content)
               a == <<<<seed, "iv">>, <<seed, "meta">>, Digest(ct), Sealed(seed, <<seed, "meta">>, about)>>
               keys == WrapCek(seed, recipients)
    <2>1. p.signature = Signed(by, Transcript(<<"lattix-file-v2", at, a[1], a[2], a[3], a[4]>>, keys))
      BY <1>3 DEF EncryptFile, FileTranscript
    <2>2. p.signature = Signed(sender, Transcript(<<context, p.meta, p.iv>>, p.keys))
      BY <1>3 DEF VerifyFilePayload, Verifies, LegacyTranscript
    <2> HIDE DEF a, keys
    <2> QED
      BY <1>1, <2>1, <2>2 DEF Signed
  <1>4. ASSUME IsFileV2(p), VerifyFilePayload(p, sender, context),
               p.signature = EncryptMessage(seed, content, recipients, by, at).signature
        PROVE  FALSE
    <2> DEFINE a == <<<<seed, "iv">>, Sealed(seed, <<seed, "iv">>, content)>>
               keys == WrapCek(seed, recipients)
    <2>1. p.signature = Signed(by, Transcript(<<"msg", at, a[1], a[2]>>, keys))
      BY <1>4 DEF EncryptMessage, MessageTranscript
    <2>2. p.signature = Signed(sender, Transcript(<<"lattix-file-v2", context, p.iv, p.meta_iv,
                                                    p.ct_sha256, p.meta_ct>>, p.keys))
      BY <1>4 DEF VerifyFilePayload, Verifies, FileTranscript
    <2> HIDE DEF a, keys
    <2> QED
      BY <1>2, <2>1, <2>2 DEF Signed
  <1> QED
    BY <1>3, <1>4

\* What encryptMessage made opens for everyone it was made for, and shows the
\* text.
THEOREM MessagesOpen ==
    ASSUME NEW seed, NEW text, NEW recipients, NEW by, NEW at, NEW me \in recipients
    PROVE  DecryptMessage(EncryptMessage(seed, text, recipients, by, at), me, by, at) = Success(text)
  <1> DEFINE p == EncryptMessage(seed, text, recipients, by, at)
  <1>1. /\ p.iv = <<seed, "iv">> /\ p.ciphertext = Sealed(seed, <<seed, "iv">>, text)
        /\ p.keys = WrapCek(seed, recipients)
        /\ p.signature = Signed(by, Transcript(<<"msg", at, p.iv, p.ciphertext>>, p.keys))
    BY DEF EncryptMessage, MessageTranscript
  <1> HIDE DEF p
  <1>2. Verifies(by, MessageTranscript(p, at), p.signature)
    BY <1>1 DEF Verifies, MessageTranscript
  <1>3. DOMAIN p.keys = recipients
    BY <1>1, WrapsOpen
  <1>4. OpenFor(me, p, p.iv, p.ciphertext) = Success(p.ciphertext.body)
    BY <1>1, <1>3, OpensAlike DEF Opens, Sealed
  <1>5. p.ciphertext.body = text
    BY <1>1 DEF Sealed
  <1>6. DecryptMessage(p, me, by, at) = Success(text)
    BY <1>2, <1>4, <1>5 DEF DecryptMessage
  <1> QED
    BY <1>6 DEF p

LEMMA EncryptFileParts ==
    ASSUME NEW seed, NEW bytes, NEW about, NEW recipients, NEW by, NEW at,
           NEW p, p = EncryptFile(seed, bytes, about, recipients, by, at).payload
    PROVE  /\ p = [v |-> 2, iv |-> p.iv, meta_iv |-> p.meta_iv, meta_ct |-> p.meta_ct,
                   ct_sha256 |-> p.ct_sha256, keys |-> p.keys, signature |-> p.signature]
           /\ IsFileV2(p)
           /\ p.keys = WrapCek(seed, recipients)
           /\ p.signature = Signed(by, FileTranscript(p, at))
  BY DEF EncryptFile, IsFileV2, FileTranscript

\* The metadata that encryptFile sealed opens for everyone it was made for.
THEOREM MetadataOpens ==
    ASSUME NEW seed, NEW bytes, NEW about, NEW recipients, NEW by, NEW at, NEW me \in recipients,
           NEW sent, sent = EncryptFile(seed, bytes, about, recipients, by, at)
    PROVE  OpenFilePayload(sent.payload, me, by, at) = Success([meta |-> about, verified |-> TRUE])
  <1> DEFINE p == sent.payload
             cipher == sent.cipher
  <1>1. /\ IsFileV2(p) /\ p.keys = WrapCek(seed, recipients)
        /\ p.signature = Signed(by, FileTranscript(p, at))
    <2>1. p = EncryptFile(seed, bytes, about, recipients, by, at).payload
      OBVIOUS
    <2> HIDE DEF p
    <2> QED
      BY <2>1, EncryptFileParts
  <1>2. p.meta_iv = <<seed, "meta">> /\ p.meta_ct = Sealed(seed, <<seed, "meta">>, about)
    BY DEF EncryptFile
  <1> HIDE DEF p, cipher
  <1>3. VerifyFilePayload(p, by, at)
    BY <1>1 DEF VerifyFilePayload, Verifies
  <1>4. DOMAIN p.keys = recipients
    BY <1>1, WrapsOpen
  <1>5. OpenFor(me, p, p.meta_iv, p.meta_ct) = Success(p.meta_ct.body)
    BY <1>1, <1>2, <1>4, OpensAlike DEF Opens, Sealed
  <1>6. p.meta_ct.body = about
    BY <1>2 DEF Sealed
  <1>7. OpenFilePayload(p, me, by, at) = Success([meta |-> about, verified |-> TRUE])
    <2> DEFINE opened == OpenFor(me, p, p.meta_iv, p.meta_ct)
    <2>1. OpenFilePayload(p, me, by, at) =
             IF opened.ok THEN Success([meta |-> opened.value, verified |-> TRUE]) ELSE opened
      BY <1>1, <1>3 DEF OpenFilePayload
    <2>2. opened.ok /\ opened.value = about
      BY <1>5, <1>6 DEF Success
    <2> QED
      BY <2>1, <2>2
  <1> QED
    BY <1>7 DEF p

\* And so do the bytes, downloaded as they were uploaded.
THEOREM DownloadsOpen ==
    ASSUME NEW seed, NEW bytes, NEW about, NEW recipients, NEW by, NEW at, NEW me \in recipients,
           NEW sent, sent = EncryptFile(seed, bytes, about, recipients, by, at)
    PROVE  DecryptFile(sent.cipher, sent.payload, me, by, at) = Success(bytes)
  <1> DEFINE p == sent.payload
             cipher == sent.cipher
  <1>1. /\ IsFileV2(p) /\ p.keys = WrapCek(seed, recipients)
        /\ p.signature = Signed(by, FileTranscript(p, at))
    <2>1. p = EncryptFile(seed, bytes, about, recipients, by, at).payload
      OBVIOUS
    <2> HIDE DEF p
    <2> QED
      BY <2>1, EncryptFileParts
  <1>2. /\ p.iv = <<seed, "iv">> /\ p.ct_sha256 = Digest(cipher)
        /\ cipher = Sealed(seed, <<seed, "iv">>, bytes)
    BY DEF EncryptFile
  <1> HIDE DEF p, cipher
  <1>3. VerifyFilePayload(p, by, at)
    BY <1>1 DEF VerifyFilePayload, Verifies
  <1>4. DOMAIN p.keys = recipients
    BY <1>1, WrapsOpen
  <1>5. OpenFor(me, p, p.iv, cipher) = Success(cipher.body)
    BY <1>1, <1>2, <1>4, OpensAlike DEF Opens, Sealed
  <1>6. cipher.body = bytes
    BY <1>2 DEF Sealed
  <1>7. DecryptFile(cipher, p, me, by, at) = Success(bytes)
    BY <1>2, <1>3, <1>5, <1>6 DEF DecryptFile
  <1> QED
    BY <1>7 DEF p, cipher

-----------------------------------------------------------------------------
(* Envelopes put together from two.                                        *)

LEMMA MixedParts ==
    ASSUME NEW made, NEW p \in MixedOf(made)
    PROVE  \E a, b \in made : /\ p = [f \in DOMAIN a.payload |-> p[f]]
                             /\ \A f \in DOMAIN a.payload : p[f] \in {a.payload[f], b.payload[f]}
  BY DEF MixedOf, Mixed

LEMMA EncryptMessageParts ==
    ASSUME NEW seed, NEW text, NEW recipients, NEW by, NEW at,
           NEW p, p = EncryptMessage(seed, text, recipients, by, at)
    PROVE  /\ p = [iv |-> p.iv, ciphertext |-> p.ciphertext, keys |-> p.keys, signature |-> p.signature]
           /\ DOMAIN p = {"iv", "ciphertext", "keys", "signature"}
           /\ p.keys = WrapCek(seed, recipients)
           /\ p.signature = Signed(by, MessageTranscript(p, at))
  BY DEF EncryptMessage, MessageTranscript

LEMMA MessagesMadeParts ==
    ASSUME NEW m \in MessagesMade
    PROVE  \E seed, recipients :
              m.payload = EncryptMessage(seed, m.content, recipients, m.by, m.context)
  <1>1. PICK n \in Persons, c \in Contexts : m = MessageMade(n, c)
    BY DEF MessagesMade
  <1>2. m.payload = EncryptMessage(<<"m", n, c>>, m.content, Recipients(n, c), m.by, m.context)
    BY <1>1 DEF MessageMade
  <1> QED
    BY <1>2

LEMMA MessagesMadeFields ==
    ASSUME NEW m \in MessagesMade
    PROVE  LET p == m.payload
           IN  /\ p = [iv |-> p.iv, ciphertext |-> p.ciphertext, keys |-> p.keys, signature |-> p.signature]
               /\ DOMAIN p = {"iv", "ciphertext", "keys", "signature"}
               /\ \E seed, recipients : p.keys = WrapCek(seed, recipients)
               /\ p.signature = Signed(m.by, MessageTranscript(p, m.context))
  <1>1. PICK seed, recipients : m.payload = EncryptMessage(seed, m.content, recipients, m.by, m.context)
    BY MessagesMadeParts
  <1> DEFINE p == m.payload
  <1>2. p = EncryptMessage(seed, m.content, recipients, m.by, m.context)
    BY <1>1
  <1> HIDE DEF p
  <1>3. /\ p = [iv |-> p.iv, ciphertext |-> p.ciphertext, keys |-> p.keys, signature |-> p.signature]
        /\ DOMAIN p = {"iv", "ciphertext", "keys", "signature"}
        /\ p.keys = WrapCek(seed, recipients)
        /\ p.signature = Signed(m.by, MessageTranscript(p, m.context))
    BY <1>2, EncryptMessageParts
  <1> QED
    BY <1>3 DEF p

\* Keys that wrapCekForParties made are told apart by what a transcript tells.
LEMMA WrapsDiffer ==
    ASSUME NEW a, NEW b, NEW R, NEW S, NEW cek, NEW other,
           Transcript(a, WrapCek(cek, R)) = Transcript(b, WrapCek(other, S))
    PROVE  a = b /\ WrapCek(cek, R) = WrapCek(other, S)
  <1>1. /\ a = b /\ DOMAIN WrapCek(cek, R) = DOMAIN WrapCek(other, S)
        /\ \A u \in DOMAIN WrapCek(other, S) :
              /\ WrapCek(cek, R)[u].kem_ct = WrapCek(other, S)[u].kem_ct
              /\ WrapCek(cek, R)[u].iv = WrapCek(other, S)[u].iv
              /\ WrapCek(cek, R)[u].wrapped = WrapCek(other, S)[u].wrapped
    BY TranscriptsDiffer
  <1>2. R = S
    BY <1>1 DEF WrapCek
  <1>3. \A u \in R : WrapCek(cek, R)[u] = WrapCek(other, S)[u]
    BY <1>1, <1>2 DEF WrapCek
  <1> QED
    BY <1>1, <1>2, <1>3 DEF WrapCek

\* A message that opens is, whole, one of those that were made.
LEMMA OpenedIsMade ==
    ASSUME NEW p \in MixedOf(MessagesMade), NEW me, NEW sender, NEW context,
           DecryptMessage(p, me, sender, context).ok
    PROVE  \E m \in MessagesMade : m.by = sender /\ m.context = context /\ m.payload = p
  <1>1. PICK a \in MessagesMade, b \in MessagesMade :
           /\ p = [f \in DOMAIN a.payload |-> p[f]]
           /\ \A f \in DOMAIN a.payload : p[f] \in {a.payload[f], b.payload[f]}
    BY MixedParts
  <1>2. DOMAIN a.payload = {"iv", "ciphertext", "keys", "signature"}
    BY MessagesMadeFields
  <1>3. PICK m \in MessagesMade : p.signature = m.payload.signature
    BY <1>1, <1>2
  <1>4. PICK k \in MessagesMade : p.keys = k.payload.keys
    BY <1>1, <1>2
  <1>5. PICK seed, recipients : m.payload.keys = WrapCek(seed, recipients)
    BY MessagesMadeFields
  <1>6. PICK other, others : k.payload.keys = WrapCek(other, others)
    BY MessagesMadeFields
  <1>7. m.payload.signature = Signed(m.by, MessageTranscript(m.payload, m.context))
    BY MessagesMadeFields
  <1>8. p.signature = Signed(sender, MessageTranscript(p, context))
    BY DEF DecryptMessage, Failure, Verifies
  <1>9. sender = m.by /\ MessageTranscript(p, context) = MessageTranscript(m.payload, m.context)
    BY <1>3, <1>7, <1>8 DEF Signed
  <1>10. /\ <<"msg", context, p.iv, p.ciphertext>> = <<"msg", m.context, m.payload.iv, m.payload.ciphertext>>
         /\ p.keys = m.payload.keys
    BY <1>4, <1>5, <1>6, <1>9, WrapsDiffer DEF MessageTranscript
  <1>11. context = m.context /\ p.iv = m.payload.iv /\ p.ciphertext = m.payload.ciphertext
    BY <1>10
  <1>12. p = m.payload
    <2>1. p = [f \in {"iv", "ciphertext", "keys", "signature"} |-> p[f]]
      BY <1>1, <1>2
    <2>2. p = [iv |-> p.iv, ciphertext |-> p.ciphertext, keys |-> p.keys, signature |-> p.signature]
      BY <2>1
    <2>3. m.payload = [iv |-> m.payload.iv, ciphertext |-> m.payload.ciphertext,
                       keys |-> m.payload.keys, signature |-> m.payload.signature]
      BY MessagesMadeFields
    <2> QED
      BY <1>3, <1>10, <1>11, <2>2, <2>3
  <1> QED
    BY <1>9, <1>11, <1>12

(* What RowsAreAuthentic asks of an envelope, made being those that could be *)
(* it.                                                                       *)
AuthenticRow(env, me, alert, context, made) ==
    LET row == Row(env, me, alert, context)
        Shown(m) == IF env.kind = "message" THEN row.content = m.content
                    ELSE row.content.meta = m.content
    IN  /\ row.verified => made # {} /\ ~alert
        /\ \A m \in made : me \in DOMAIN m.payload.keys =>
              row.kind = env.kind /\ Shown(m) /\ row.verified = ~alert
        /\ row.kind # "error" /\ made = {} => env.kind = "file" /\ ~IsFileV2(env.payload)

Candidates(all, env, context) ==
    {m \in all : m.by = env.sender /\ m.context = context /\ m.payload = env.payload}

LEMMA MessageRows ==
    ASSUME NEW p \in MixedOf(MessagesMade), NEW n, NEW me, NEW context, NEW alert \in BOOLEAN,
           NEW env, env = [kind |-> "message", sender |-> n, payload |-> p]
    PROVE  AuthenticRow(env, me, alert, context, Candidates(MessagesMade, env, context))
  <1> DEFINE made == Candidates(MessagesMade, env, context)
             opened == DecryptMessage(p, me, n, context)
             row == Row(env, me, alert, context)
  <1>1. row = IF ~opened.ok THEN ErrorRow
              ELSE [kind |-> "message", content |-> opened.value, verified |-> ~alert]
    BY DEF Row
  <1>2. opened.ok => made # {}
    BY OpenedIsMade DEF Candidates
  <1>3. ASSUME NEW m \in made, me \in DOMAIN m.payload.keys
        PROVE  opened = Success(m.content)
    <2>1. m \in MessagesMade /\ m.by = n /\ m.context = context /\ m.payload = p
      BY DEF Candidates
    <2>2. PICK seed, recipients : m.payload = EncryptMessage(seed, m.content, recipients, m.by, m.context)
      BY <2>1, MessagesMadeParts
    <2>3. p.keys = WrapCek(seed, recipients)
      BY <2>1, <2>2, EncryptMessageParts
    <2>4. me \in recipients
      BY <1>3, <2>1, <2>3 DEF WrapCek
    <2> QED
      BY <2>1, <2>2, <2>4, MessagesOpen
  <1> HIDE DEF made, opened, row
  <1>4. /\ row.verified => made # {} /\ ~alert
        /\ row.kind # "error" => made # {}
    BY <1>1, <1>2 DEF ErrorRow
  <1>5. \A m \in made : me \in DOMAIN m.payload.keys =>
              row.kind = "message" /\ row.content = m.content /\ row.verified = ~alert
    BY <1>1, <1>3 DEF Success
  <1>6. env.kind = "message"
    OBVIOUS
  <1> QED
    BY <1>4, <1>5, <1>6 DEF AuthenticRow, row, made

\* The same for files of the second format.
LEMMA FilesMadeParts ==
    ASSUME NEW m \in FilesMade
    PROVE  \E seed, recipients :
              /\ m.payload = EncryptFile(seed, m.bytes, m.content, recipients, m.by, m.context).payload
              /\ m.cipher = EncryptFile(seed, m.bytes, m.content, recipients, m.by, m.context).cipher
  <1>1. PICK n \in Persons, c \in Contexts : m = FileMade(n, c)
    BY DEF FilesMade
  <1>2. /\ m.payload = EncryptFile(<<"f", n, c>>, m.bytes, m.content, Recipients(n, c), m.by, m.context).payload
        /\ m.cipher = EncryptFile(<<"f", n, c>>, m.bytes, m.content, Recipients(n, c), m.by, m.context).cipher
    BY <1>1 DEF FileMade
  <1> QED
    BY <1>2

FileFields == {"v", "iv", "meta_iv", "meta_ct", "ct_sha256", "keys", "signature"}

LEMMA FilesMadeFields ==
    ASSUME NEW m \in FilesMade
    PROVE  LET p == m.payload
           IN  /\ p = [v |-> 2, iv |-> p.iv, meta_iv |-> p.meta_iv, meta_ct |-> p.meta_ct,
                       ct_sha256 |-> p.ct_sha256, keys |-> p.keys, signature |-> p.signature]
               /\ DOMAIN p = FileFields
               /\ \E seed, recipients : p.keys = WrapCek(seed, recipients)
               /\ p.signature = Signed(m.by, FileTranscript(p, m.context))
  <1>1. PICK seed, recipients :
           m.payload = EncryptFile(seed, m.bytes, m.content, recipients, m.by, m.context).payload
    BY FilesMadeParts
  <1> DEFINE p == m.payload
  <1>2. p = EncryptFile(seed, m.bytes, m.content, recipients, m.by, m.context).payload
    BY <1>1
  <1> HIDE DEF p
  <1>3. /\ p = [v |-> 2, iv |-> p.iv, meta_iv |-> p.meta_iv, meta_ct |-> p.meta_ct,
                ct_sha256 |-> p.ct_sha256, keys |-> p.keys, signature |-> p.signature]
        /\ p.keys = WrapCek(seed, recipients)
        /\ p.signature = Signed(m.by, FileTranscript(p, m.context))
    BY <1>2, EncryptFileParts
  <1>4. DOMAIN p = FileFields
    BY <1>3 DEF FileFields
  <1> QED
    BY <1>3, <1>4 DEF p

LEMMA VerifiedFileIsMade ==
    ASSUME NEW p \in MixedOf(FilesMade), NEW sender, NEW context
    PROVE  /\ IsFileV2(p)
           /\ VerifyFilePayload(p, sender, context) =>
                 \E m \in FilesMade : m.by = sender /\ m.context = context /\ m.payload = p
  <1>1. PICK a \in FilesMade, b \in FilesMade :
           /\ p = [f \in DOMAIN a.payload |-> p[f]]
           /\ \A f \in DOMAIN a.payload : p[f] \in {a.payload[f], b.payload[f]}
    BY MixedParts
  <1>2. DOMAIN a.payload = FileFields
    BY FilesMadeFields
  <1>3. PICK m \in FilesMade : p.signature = m.payload.signature
    BY <1>1, <1>2 DEF FileFields
  <1>4. PICK k \in FilesMade : p.keys = k.payload.keys
    BY <1>1, <1>2 DEF FileFields
  <1>5. PICK seed, recipients : m.payload.keys = WrapCek(seed, recipients)
    BY FilesMadeFields
  <1>6. PICK other, others : k.payload.keys = WrapCek(other, others)
    BY FilesMadeFields
  <1>7. m.payload.signature = Signed(m.by, FileTranscript(m.payload, m.context))
    BY FilesMadeFields
  <1>8. a.payload.v = 2 /\ b.payload.v = 2 /\ m.payload.v = 2
    <2>1. \A q \in FilesMade : q.payload.v = 2
      <3> SUFFICES ASSUME NEW q \in FilesMade PROVE q.payload.v = 2
        OBVIOUS
      <3>1. q.payload = [v |-> 2, iv |-> q.payload.iv, meta_iv |-> q.payload.meta_iv,
                         meta_ct |-> q.payload.meta_ct, ct_sha256 |-> q.payload.ct_sha256,
                         keys |-> q.payload.keys, signature |-> q.payload.signature]
        BY FilesMadeFields
      <3> QED
        BY <3>1
    <2> QED
      BY <2>1
  <1>9. p.v = 2 /\ DOMAIN p = FileFields
    BY <1>1, <1>2, <1>8 DEF FileFields
  <1>10. IsFileV2(p)
    BY <1>9 DEF IsFileV2, FileFields
  <1>11. ASSUME VerifyFilePayload(p, sender, context)
         PROVE  m.by = sender /\ m.context = context /\ m.payload = p
    <2>1. p.signature = Signed(sender, FileTranscript(p, context))
      BY <1>10, <1>11 DEF VerifyFilePayload, Verifies
    <2>2. sender = m.by /\ FileTranscript(p, context) = FileTranscript(m.payload, m.context)
      BY <1>3, <1>7, <2>1 DEF Signed
    <2> DEFINE mine == <<"lattix-file-v2", context, p.iv, p.meta_iv, p.ct_sha256, p.meta_ct>>
               theirs == <<"lattix-file-v2", m.context, m.payload.iv, m.payload.meta_iv,
                           m.payload.ct_sha256, m.payload.meta_ct>>
    <2>3. Transcript(mine, WrapCek(other, others)) = Transcript(theirs, WrapCek(seed, recipients))
      BY <1>4, <1>5, <1>6, <2>2 DEF FileTranscript
    <2>4. mine = theirs /\ WrapCek(other, others) = WrapCek(seed, recipients)
      <3> HIDE DEF mine, theirs
      <3> QED
        BY <2>3, WrapsDiffer
    <2>5. /\ context = m.context /\ p.iv = m.payload.iv /\ p.meta_iv = m.payload.meta_iv
          /\ p.ct_sha256 = m.payload.ct_sha256 /\ p.meta_ct = m.payload.meta_ct
      BY <2>4
    <2>6. p.keys = m.payload.keys
      BY <1>4, <1>5, <1>6, <2>4
    <2> DEFINE Whole(q) == [v |-> q.v, iv |-> q.iv, meta_iv |-> q.meta_iv, meta_ct |-> q.meta_ct,
                            ct_sha256 |-> q.ct_sha256, keys |-> q.keys, signature |-> q.signature]
    <2>7. p = [f \in FileFields |-> p[f]]
      BY <1>1, <1>2
    <2>8. p = Whole(p)
      BY <2>7 DEF FileFields
    <2>9. m.payload = Whole(m.payload)
      BY <1>8, FilesMadeFields
    <2>10. Whole(p) = Whole(m.payload)
      BY <1>3, <1>8, <1>9, <2>5, <2>6
    <2> HIDE DEF Whole
    <2> QED
      BY <2>2, <2>5, <2>8, <2>9, <2>10
  <1> QED
    BY <1>10, <1>11

LEMMA FileRows ==
    ASSUME NEW p \in MixedOf(FilesMade), NEW n, NEW me, NEW context, NEW alert \in BOOLEAN,
           NEW env, env = [kind |-> "file", sender |-> n, payload |-> p]
    PROVE  AuthenticRow(env, me, alert, context, Candidates(FilesMade, env, context))
  <1> DEFINE made == Candidates(FilesMade, env, context)
             opened == OpenFilePayload(p, me, n, context)
             row == Row(env, me, alert, context)
  <1>1. row = IF ~opened.ok THEN ErrorRow
              ELSE [kind |-> "file", content |-> opened.value, verified |-> ~alert /\ opened.value.verified]
    BY DEF Row
  <1>2. IsFileV2(p) /\ (VerifyFilePayload(p, n, context) => made # {})
    BY VerifiedFileIsMade DEF Candidates
  <1>3. opened.ok => VerifyFilePayload(p, n, context)
    BY <1>2 DEF OpenFilePayload, Failure
  <1>4. ASSUME NEW m \in made, me \in DOMAIN m.payload.keys
        PROVE  opened = Success([meta |-> m.content, verified |-> TRUE])
    <2>1. m \in FilesMade /\ m.by = n /\ m.context = context /\ m.payload = p
      BY DEF Candidates
    <2>2. PICK seed, recipients :
             p = EncryptFile(seed, m.bytes, m.content, recipients, n, context).payload
      BY <2>1, FilesMadeParts
    <2>3. p.keys = WrapCek(seed, recipients)
      BY <2>2, EncryptFileParts
    <2>4. me \in recipients
      BY <1>4, <2>1, <2>3 DEF WrapCek
    <2> DEFINE e == EncryptFile(seed, m.bytes, m.content, recipients, n, context)
    <2>5. e = EncryptFile(seed, m.bytes, m.content, recipients, n, context) /\ p = e.payload
      BY <2>2
    <2> HIDE DEF e
    <2> QED
      BY <2>4, <2>5, MetadataOpens
  <1> HIDE DEF made, opened, row
  <1>5. /\ row.verified => made # {} /\ ~alert
        /\ row.kind # "error" => made # {}
    BY <1>1, <1>2, <1>3 DEF ErrorRow
  <1>6. \A m \in made : me \in DOMAIN m.payload.keys =>
              row.kind = "file" /\ row.content.meta = m.content /\ row.verified = ~alert
    BY <1>1, <1>4 DEF Success
  <1>7. env.kind = "file"
    OBVIOUS
  <1> QED
    BY <1>5, <1>6, <1>7 DEF AuthenticRow, row, made

\* The same for files of the first format, whose signature is over the metadata
\* and the keys only.
LegacyFields == {"v", "meta", "iv", "keys", "signature"}

LEMMA LegaciesMadeFields ==
    ASSUME NEW m \in LegaciesMade
    PROVE  LET p == m.payload
           IN  /\ p = [v |-> 1, meta |-> m.content, iv |-> p.iv, keys |-> p.keys, signature |-> p.signature]
               /\ \E seed, recipients : p.keys = WrapCek(seed, recipients)
               /\ p.signature = Signed(m.by, LegacyTranscript(p, m.context))
  <1>1. PICK n \in Persons, c \in Contexts : m = LegacyMade(n, c)
    BY DEF LegaciesMade
  <1> DEFINE p == m.payload
  <1>2. /\ m.by = n /\ m.context = c
        /\ p = [v |-> 1, meta |-> m.content, iv |-> p.iv, keys |-> p.keys, signature |-> p.signature]
        /\ p.keys = WrapCek(<<"l", n, c>>, Everyone)
    BY <1>1 DEF LegacyMade
  <1>3. p.signature = Signed(n, LegacyTranscript(p, c))
    BY <1>1 DEF LegacyMade, LegacyTranscript
  <1> QED
    BY <1>2, <1>3

LEMMA LegaciesMadeShape ==
    ASSUME NEW m \in LegaciesMade
    PROVE  DOMAIN m.payload = LegacyFields /\ m.payload.v = 1 /\ m.payload.meta = m.content
  <1>1. m.payload = [v |-> 1, meta |-> m.content, iv |-> m.payload.iv, keys |-> m.payload.keys,
                     signature |-> m.payload.signature]
    BY LegaciesMadeFields
  <1> QED
    BY <1>1 DEF LegacyFields

LEMMA VerifiedLegacyIsMade ==
    ASSUME NEW p \in MixedOf(LegaciesMade), NEW sender, NEW context
    PROVE  /\ ~IsFileV2(p)
           /\ VerifyFilePayload(p, sender, context) =>
                 \E m \in LegaciesMade : m.by = sender /\ m.context = context /\ m.payload = p
  <1>1. PICK a \in LegaciesMade, b \in LegaciesMade :
           /\ p = [f \in DOMAIN a.payload |-> p[f]]
           /\ \A f \in DOMAIN a.payload : p[f] \in {a.payload[f], b.payload[f]}
    BY MixedParts
  <1>2. DOMAIN a.payload = LegacyFields
    BY LegaciesMadeShape
  <1>3. PICK m \in LegaciesMade : p.signature = m.payload.signature
    BY <1>1, <1>2 DEF LegacyFields
  <1>4. PICK k \in LegaciesMade : p.keys = k.payload.keys
    BY <1>1, <1>2 DEF LegacyFields
  <1>5. PICK seed, recipients : m.payload.keys = WrapCek(seed, recipients)
    BY LegaciesMadeFields
  <1>6. PICK other, others : k.payload.keys = WrapCek(other, others)
    BY LegaciesMadeFields
  <1>7. m.payload.signature = Signed(m.by, LegacyTranscript(m.payload, m.context))
    BY LegaciesMadeFields
  <1>8. a.payload.v = 1 /\ b.payload.v = 1 /\ m.payload.v = 1
    BY LegaciesMadeShape
  <1>9. p.v = 1 /\ DOMAIN p = LegacyFields
    BY <1>1, <1>2, <1>8 DEF LegacyFields
  <1>10. ~IsFileV2(p)
    BY <1>9 DEF IsFileV2, LegacyFields
  <1>11. ASSUME VerifyFilePayload(p, sender, context)
         PROVE  m.by = sender /\ m.context = context /\ m.payload = p
    <2>1. p.signature = Signed(sender, LegacyTranscript(p, context))
      BY <1>10, <1>11 DEF VerifyFilePayload, Verifies
    <2>2. sender = m.by /\ LegacyTranscript(p, context) = LegacyTranscript(m.payload, m.context)
      BY <1>3, <1>7, <2>1 DEF Signed
    <2> DEFINE mine == <<context, p.meta, p.iv>>
               theirs == <<m.context, m.payload.meta, m.payload.iv>>
    <2>3. Transcript(mine, WrapCek(other, others)) = Transcript(theirs, WrapCek(seed, recipients))
      BY <1>4, <1>5, <1>6, <2>2 DEF LegacyTranscript
    <2>4. mine = theirs /\ WrapCek(other, others) = WrapCek(seed, recipients)
      <3> HIDE DEF mine, theirs
      <3> QED
        BY <2>3, WrapsDiffer
    <2>5. context = m.context /\ p.meta = m.payload.meta /\ p.iv = m.payload.iv
      BY <2>4
    <2>6. p.keys = m.payload.keys
      BY <1>4, <1>5, <1>6, <2>4
    <2> DEFINE Whole(q) == [v |-> q.v, meta |-> q.meta, iv |-> q.iv, keys |-> q.keys, signature |-> q.signature]
    <2>7. p = [f \in LegacyFields |-> p[f]]
      BY <1>1, <1>2
    <2>8. p = Whole(p)
      BY <2>7 DEF LegacyFields
    <2>9. m.payload = Whole(m.payload)
      <3>1. m.payload = [v |-> 1, meta |-> m.content, iv |-> m.payload.iv, keys |-> m.payload.keys,
                         signature |-> m.payload.signature]
        BY LegaciesMadeFields
      <3> QED
        BY <3>1
    <2>10. Whole(p) = Whole(m.payload)
      BY <1>3, <1>8, <1>9, <2>5, <2>6
    <2> HIDE DEF Whole
    <2> QED
      BY <2>2, <2>5, <2>8, <2>9, <2>10
  <1> QED
    BY <1>10, <1>11

\* A file of the second format, made to look like one of the first, does not
\* verify.
LEMMA StrippedFails ==
    ASSUME NEW f \in FilesMade, NEW sender, NEW context
    PROVE  ~IsFileV2(Stripped(f)) /\ ~VerifyFilePayload(Stripped(f), sender, context)
  <1> DEFINE p == Stripped(f)
  <1>1. ~IsFileV2(p) /\ p.signature = f.payload.signature
    BY DEF Stripped, IsFileV2
  <1>2. PICK seed, recipients :
           f.payload = EncryptFile(seed, f.bytes, f.content, recipients, f.by, f.context).payload
    BY FilesMadeParts
  <1> HIDE DEF p
  <1>3. p.signature = EncryptFile(seed, f.bytes, f.content, recipients, f.by, f.context).payload.signature
    BY <1>1, <1>2
  <1>4. ~VerifyFilePayload(p, sender, context)
    BY <1>1, <1>3, FormatsAreApart
  <1> QED
    BY <1>1, <1>4 DEF p

LEMMA LegacyRows ==
    ASSUME NEW p \in MixedOf(LegaciesMade) \cup {Stripped(f) : f \in FilesMade},
           NEW n, NEW me, NEW context, NEW alert \in BOOLEAN,
           NEW env, env = [kind |-> "file", sender |-> n, payload |-> p]
    PROVE  AuthenticRow(env, me, alert, context, Candidates(LegaciesMade, env, context))
  <1> DEFINE made == Candidates(LegaciesMade, env, context)
             opened == OpenFilePayload(p, me, n, context)
             row == Row(env, me, alert, context)
             sound == VerifyFilePayload(p, n, context)
  <1>1. ~IsFileV2(p) /\ (sound => made # {})
    <2>1. CASE p \in MixedOf(LegaciesMade)
      BY <2>1, VerifiedLegacyIsMade DEF Candidates
    <2>2. CASE p \in {Stripped(f) : f \in FilesMade}
      BY <2>2, StrippedFails
    <2> QED
      BY <2>1, <2>2
  <1>2. opened = Success([meta |-> p.meta, verified |-> sound])
    BY <1>1 DEF OpenFilePayload
  <1>3. row = [kind |-> "file", content |-> [meta |-> p.meta, verified |-> sound],
               verified |-> ~alert /\ sound]
    BY <1>2 DEF Row, Success
  <1>4. ASSUME NEW m \in made
        PROVE  sound /\ p.meta = m.content
    <2>1. m \in LegaciesMade /\ m.by = n /\ m.context = context /\ m.payload = p
      BY DEF Candidates
    <2>2. p.signature = Signed(n, LegacyTranscript(p, context)) /\ p.meta = m.content
      BY <2>1, LegaciesMadeFields, LegaciesMadeShape
    <2> QED
      BY <1>1, <2>2 DEF VerifyFilePayload, Verifies
  <1>5. sound \in BOOLEAN
    BY DEF VerifyFilePayload, Verifies
  <1> HIDE DEF made, opened, row, sound
  <1>6. /\ row.verified => made # {} /\ ~alert
        /\ row.kind = "file" /\ row.content.meta = p.meta
    BY <1>1, <1>3
  <1>7. \A m \in made : row.content.meta = m.content /\ row.verified = ~alert
    BY <1>3, <1>4, <1>5
  <1>8. env.kind = "file" /\ env.payload = p
    OBVIOUS
  <1> QED
    BY <1>1, <1>6, <1>7, <1>8 DEF AuthenticRow, row, made

-----------------------------------------------------------------------------
(* What Codecs chooses.                                                    *)

LEMMA EnvelopeChosen ==
    ASSUME NEW made, NEW payloads, NEW kind, ChooseEnvelope(made, payloads, kind),
           \A p \in payloads, n \in Persons, me \in Persons, c \in Contexts, alert \in BOOLEAN :
              AuthenticRow([kind |-> kind, sender |-> n, payload |-> p], me, alert, c,
                           Candidates(made, [kind |-> kind, sender |-> n, payload |-> p], c))
    PROVE  ContentIsAuthentic'
  <1>1. PICK p \in payloads, n \in Persons, me \in Persons, c \in Contexts, alert \in BOOLEAN :
           input' = [kind |-> "envelope", made |-> made, me |-> me, context |-> c, alert |-> alert,
                     env |-> [kind |-> kind, sender |-> n, payload |-> p]]
    BY DEF ChooseEnvelope
  <1> DEFINE env == [kind |-> kind, sender |-> n, payload |-> p]
  <1>2. AuthenticRow(env, me, alert, c, Candidates(made, env, c))
    OBVIOUS
  <1>3. /\ input'.kind = "envelope" /\ input'.made = made /\ input'.me = me
        /\ input'.context = c /\ input'.alert = alert /\ input'.env = env
    BY <1>1
  <1> HIDE DEF env
  <1>4. RowsAreAuthentic'
    BY <1>2, <1>3 DEF RowsAreAuthentic, AuthenticRow, Candidates
  <1>5. FilesAreAuthentic'
    BY <1>3 DEF FilesAreAuthentic
  <1> QED
    BY <1>4, <1>5 DEF ContentIsAuthentic

LEMMA DownloadChosen ==
    ASSUME ChooseDownload
    PROVE  ContentIsAuthentic'
  <1>0. PICK f \in FilesMade, me \in Persons :
           \E cipher : input' = [kind |-> "download", file |-> f, cipher |-> cipher, me |-> me]
    BY DEF ChooseDownload
  <1>1. PICK cipher : input' = [kind |-> "download", file |-> f, cipher |-> cipher, me |-> me]
    BY <1>0
  <1> DEFINE got == DecryptFile(cipher, f.payload, me, f.by, f.context)
  <1>2. PICK seed, recipients :
           /\ f.payload = EncryptFile(seed, f.bytes, f.content, recipients, f.by, f.context).payload
           /\ f.cipher = EncryptFile(seed, f.bytes, f.content, recipients, f.by, f.context).cipher
    BY FilesMadeParts
  <1>3. IsFileV2(f.payload) /\ DOMAIN f.payload.keys = recipients
    <2> DEFINE p == f.payload
    <2>1. p = EncryptFile(seed, f.bytes, f.content, recipients, f.by, f.context).payload
      BY <1>2
    <2> HIDE DEF p
    <2>2. IsFileV2(p) /\ p.keys = WrapCek(seed, recipients)
      BY <2>1, EncryptFileParts
    <2> QED
      BY <2>2 DEF p, WrapCek
  <1>4. got.ok => got.value = f.bytes /\ me \in DOMAIN f.payload.keys
    <2> SUFFICES ASSUME got.ok PROVE got.value = f.bytes /\ me \in DOMAIN f.payload.keys
      OBVIOUS
    <2>1. f.payload.signature =
             EncryptFile(seed, f.bytes, f.content, recipients, f.by, f.context).payload.signature
      BY <1>2
    <2>2. me \in recipients /\ got = Success(f.bytes)
      BY <1>3, <2>1, DownloadsAreAuthentic
    <2> QED
      BY <1>3, <2>2 DEF Success
  <1>5. cipher = f.cipher /\ me \in DOMAIN f.payload.keys => got.ok
    <2> SUFFICES ASSUME cipher = f.cipher, me \in recipients PROVE got.ok
      BY <1>3
    <2>0. me \in recipients
      OBVIOUS
    <2> HIDE DEF got
    <2> DEFINE e == EncryptFile(seed, f.bytes, f.content, recipients, f.by, f.context)
    <2>1. /\ e = EncryptFile(seed, f.bytes, f.content, recipients, f.by, f.context)
          /\ f.payload = e.payload /\ cipher = e.cipher
      BY <1>2
    <2> HIDE DEF e
    <2>2. got = Success(f.bytes)
      <3>1. DecryptFile(e.cipher, e.payload, me, f.by, f.context) = Success(f.bytes)
        BY <2>0, <2>1, DownloadsOpen
      <3> QED
        BY <2>1, <3>1 DEF got
    <2> QED
      BY <2>2 DEF Success
  <1>6. /\ input'.kind = "download" /\ input'.file = f /\ input'.cipher = cipher /\ input'.me = me
    BY <1>1
  <1>7. FilesAreAuthentic'
    BY <1>4, <1>5, <1>6 DEF FilesAreAuthentic
  <1>8. RowsAreAuthentic'
    BY <1>6 DEF RowsAreAuthentic
  <1> QED
    BY <1>7, <1>8 DEF ContentIsAuthentic

\* What kind of input each choice makes.
LEMMA Kinds ==
    /\ ChooseSize => input'.kind = "size"
    /\ ChooseLayout => input'.kind = "layout"
    /\ ChooseLine => input'.kind = "line"
    /\ ChooseText => input'.kind = "text"
    /\ ChooseMessage \/ ChooseFile \/ ChooseLegacy => input'.kind = "envelope"
    /\ ChooseDownload => input'.kind = "download"
    /\ ChooseVault => input'.kind = "vault"
    /\ ChooseAddress => input'.kind = "address"
    /\ ChooseLook => input'.kind = "look"
  <1>1. ChooseSize => input'.kind = "size"
    BY DEF ChooseSize
  <1>2. ChooseLayout => input'.kind = "layout"
    BY DEF ChooseLayout
  <1>3. ChooseLine => input'.kind = "line"
    BY DEF ChooseLine
  <1>4. ChooseText => input'.kind = "text"
    BY DEF ChooseText
  <1>5. ASSUME NEW made, NEW payloads, NEW kind, ChooseEnvelope(made, payloads, kind)
        PROVE  input'.kind = "envelope"
    BY <1>5 DEF ChooseEnvelope
  <1>6. ChooseMessage \/ ChooseFile \/ ChooseLegacy => input'.kind = "envelope"
    BY <1>5 DEF ChooseMessage, ChooseFile, ChooseLegacy
  <1>7. ChooseDownload => input'.kind = "download"
    <2> SUFFICES ASSUME ChooseDownload PROVE input'.kind = "download"
      OBVIOUS
    <2>1. PICK f, me, cipher : input' = [kind |-> "download", file |-> f, cipher |-> cipher, me |-> me]
      BY DEF ChooseDownload
    <2> QED
      BY <2>1
  <1>8. ChooseVault => input'.kind = "vault"
    BY DEF ChooseVault
  <1>9. ChooseAddress => input'.kind = "address"
    BY DEF ChooseAddress
  <1>10. ChooseLook => input'.kind = "look"
    BY DEF ChooseLook
  <1> QED
    BY <1>1, <1>2, <1>3, <1>4, <1>6, <1>7, <1>8, <1>9, <1>10

\* The other inputs are of other kinds.
LEMMA OtherChosen ==
    ASSUME \/ ChooseSize \/ ChooseLayout \/ ChooseLine \/ ChooseText
           \/ ChooseVault \/ ChooseAddress \/ ChooseLook
    PROVE  ContentIsAuthentic'
  <1>1. input'.kind \notin {"envelope", "download"}
    BY Kinds
  <1> QED
    BY <1>1 DEF ContentIsAuthentic, RowsAreAuthentic, FilesAreAuthentic

\* For any number of contacts, what is shown as verified and what is saved is
\* what its sender sent here, whatever two envelopes it was put together from
\* and whatever bytes the relay returned.
THEOREM ContentKept == InputSpec => []ContentIsAuthentic
  <1>1. InputInit => ContentIsAuthentic
    BY DEF InputInit, About, ContentIsAuthentic, RowsAreAuthentic, FilesAreAuthentic
  <1>2. ASSUME ContentIsAuthentic, [InputNext]_input
        PROVE  ContentIsAuthentic'
    <2>1. CASE ChooseMessage
      <3>1. \A p \in MixedOf(MessagesMade), n \in Persons, me \in Persons, c \in Contexts, alert \in BOOLEAN :
              AuthenticRow([kind |-> "message", sender |-> n, payload |-> p], me, alert, c,
                           Candidates(MessagesMade, [kind |-> "message", sender |-> n, payload |-> p], c))
        BY MessageRows
      <3> QED
        BY <2>1, <3>1, EnvelopeChosen DEF ChooseMessage
    <2>2. CASE ChooseFile
      <3>1. \A p \in MixedOf(FilesMade), n \in Persons, me \in Persons, c \in Contexts, alert \in BOOLEAN :
              AuthenticRow([kind |-> "file", sender |-> n, payload |-> p], me, alert, c,
                           Candidates(FilesMade, [kind |-> "file", sender |-> n, payload |-> p], c))
        BY FileRows
      <3> QED
        BY <2>2, <3>1, EnvelopeChosen DEF ChooseFile
    <2>3. CASE ChooseLegacy
      <3> DEFINE payloads == MixedOf(LegaciesMade) \cup {Stripped(f) : f \in FilesMade}
      <3>1. \A p \in payloads, n \in Persons, me \in Persons, c \in Contexts, alert \in BOOLEAN :
              AuthenticRow([kind |-> "file", sender |-> n, payload |-> p], me, alert, c,
                           Candidates(LegaciesMade, [kind |-> "file", sender |-> n, payload |-> p], c))
        BY LegacyRows
      <3>2. ChooseEnvelope(LegaciesMade, payloads, "file")
        BY <2>3 DEF ChooseLegacy
      <3> HIDE DEF payloads
      <3> QED
        BY <3>1, <3>2, EnvelopeChosen
    <2>4. CASE UNCHANGED input
      <3>1. RowsAreAuthentic <=> (input.kind = "envelope" =>
               AuthenticRow(input.env, input.me, input.alert, input.context,
                            Candidates(input.made, input.env, input.context)))
        BY DEF RowsAreAuthentic, AuthenticRow, Candidates
      <3>2. RowsAreAuthentic' <=> (input'.kind = "envelope" =>
               AuthenticRow(input'.env, input'.me, input'.alert, input'.context,
                            Candidates(input'.made, input'.env, input'.context)))
        BY DEF RowsAreAuthentic, AuthenticRow, Candidates
      <3>3. RowsAreAuthentic'
        BY <1>2, <2>4, <3>1, <3>2 DEF ContentIsAuthentic
      <3>4. FilesAreAuthentic'
        BY <1>2, <2>4 DEF ContentIsAuthentic, FilesAreAuthentic
      <3> QED
        BY <3>3, <3>4 DEF ContentIsAuthentic
    <2> QED
      BY <1>2, <2>1, <2>2, <2>3, <2>4, DownloadChosen, OtherChosen DEF InputNext
  <1> QED
    BY <1>1, <1>2, PTL DEF InputSpec

-----------------------------------------------------------------------------
(* Vaults.                                                                 *)

LEMMA WorkFactorsAllowed ==
    /\ WorkAllowed \subseteq Nat /\ 0 \notin WorkAllowed
    /\ VaultIterations \in WorkAllowed /\ LegacyIterations \in WorkAllowed
    /\ LegacyIterations < VaultIterations
    /\ WorkFactors \subseteq Nat
  <1>1. WorkAllowed \subseteq Nat /\ 0 \notin WorkAllowed
    BY SMT DEF WorkAllowed
  <1>2. VaultIterations \in WorkAllowed /\ LegacyIterations \in WorkAllowed
    BY SMT DEF WorkAllowed, VaultIterations, LegacyIterations
  <1>3. LegacyIterations < VaultIterations
    BY SMT DEF VaultIterations, LegacyIterations
  <1>4. WorkFactors \subseteq Nat
    BY SMT DEF WorkFactors
  <1> QED
    BY <1>1, <1>2, <1>3, <1>4

\* A vault sealed with a work factor that is allowed, or not named, opens with
\* its password and no other: openVault.
LEMMA OpensWithIts ==
    ASSUME NEW v, NEW password, NEW given, NEW identity, NEW work,
           Supported(v.iter), IterationsOf(v) = work,
           v.ciphertext = Sealed(<<password, v.salt, work>>, v.iv, identity)
    PROVE  /\ given = password => OpenVault(v, given) = Success(identity)
           /\ given # password => ~OpenVault(v, given).ok
  <1> DEFINE ct == v.ciphertext
             key == <<given, v.salt, IterationsOf(v)>>
  <1>1. ct.key = <<password, v.salt, work>> /\ ct.iv = v.iv /\ ct.body = identity
    BY DEF Sealed
  <1>2. key = ct.key <=> given = password
    BY <1>1
  <1>3. OpenVault(v, given) = IF ~(ct.key = key /\ ct.iv = v.iv)
                              THEN Failure("wrong password or corrupted") ELSE Success(ct.body)
    BY DEF OpenVault, Opens
  <1>4. CASE given = password
    BY <1>1, <1>2, <1>3, <1>4
  <1>5. CASE given # password
    <2>1. OpenVault(v, given) = Failure("wrong password or corrupted")
      BY <1>2, <1>3, <1>5
    <2>2. ~Failure("wrong password or corrupted").ok
      BY DEF Failure
    <2> QED
      BY <1>5, <2>1, <2>2
  <1> QED
    BY <1>4, <1>5

\* A vault of today opens with its password and no other, and is not sealed
\* anew: sealVault, openVault and vaultNeedsUpgrade.
THEOREM VaultSealsOnce ==
    ASSUME NEW seed, NEW identity, NEW password
    PROVE  /\ OpenVault(SealVault(seed, identity, password), password) = Success(identity)
           /\ \A other : other # password => ~OpenVault(SealVault(seed, identity, password), other).ok
           /\ ~VaultNeedsUpgrade(SealVault(seed, identity, password))
  <1> DEFINE v == SealVault(seed, identity, password)
  <1>1. /\ v.iter = VaultIterations /\ v.salt = seed /\ v.iv = seed
        /\ v.ciphertext = Sealed(<<password, seed, VaultIterations>>, seed, identity)
    BY DEF SealVault
  <1> HIDE DEF v
  <1>2. Supported(v.iter) /\ IterationsOf(v) = VaultIterations
    BY <1>1, WorkFactorsAllowed DEF Supported, IterationsOf
  <1>3. OpenVault(v, password) = Success(identity)
    BY <1>1, <1>2, OpensWithIts
  <1>4. \A other : other # password => ~OpenVault(v, other).ok
    BY <1>1, <1>2, OpensWithIts
  <1>5. ~VaultNeedsUpgrade(v)
    BY <1>2, WorkFactorsAllowed DEF VaultNeedsUpgrade
  <1> QED
    BY <1>3, <1>4, <1>5 DEF v

LEMMA VaultMadeParts ==
    ASSUME NEW i, NEW v, v = VaultMade(i), NEW work, work = IF i = 0 THEN LegacyIterations ELSE i
    PROVE  /\ v.iter = i /\ v.ciphertext = Sealed(<<"password", v.salt, work>>, v.iv, "identity")
           /\ v.ciphertext.key[3] = work
  BY DEF VaultMade, SealVault, Sealed

\* What becomes of the vaults that are tried.
LEMMA VaultChosen ==
    ASSUME ChooseVault
    PROVE  VaultsOpen'
  <1>1. PICK i \in WorkFactors, right \in BOOLEAN :
           input' = [kind |-> "vault", right |-> right, vault |-> VaultMade(i)]
    BY DEF ChooseVault
  <1> DEFINE v == VaultMade(i)
             work == IF i = 0 THEN LegacyIterations ELSE i
             given == IF right THEN "password" ELSE "other"
             got == OpenVault(v, given)
             again == SealVault(2, "identity", "password")
  <1>2. input'.right = right /\ input'.vault = v
    BY <1>1
  <1>3. /\ v.iter = i /\ v.ciphertext = Sealed(<<"password", v.salt, work>>, v.iv, "identity")
        /\ v.ciphertext.key[3] = work
    BY VaultMadeParts
  <1>4. i \in Nat /\ work \in Nat
    BY WorkFactorsAllowed
  <1>5. work = IF i = 0 THEN LegacyIterations ELSE i
    OBVIOUS
  <1>6. given = "password" <=> right
    OBVIOUS
  <1> HIDE DEF v, work, given
  <1>7. Supported(v.iter) <=> work \in WorkAllowed
    BY <1>3, <1>5, WorkFactorsAllowed DEF Supported
  <1>8. IterationsOf(v) = work
    BY <1>3, <1>5 DEF IterationsOf
  <1>9. ASSUME ~Supported(v.iter)
        PROVE  ~got.ok /\ work \notin WorkAllowed
    <2>1. ~got.ok
      BY <1>9 DEF OpenVault, Failure
    <2>2. work \notin WorkAllowed
      BY <1>7, <1>9
    <2> QED
      BY <2>1, <2>2
  <1>10. ASSUME Supported(v.iter)
         PROVE  /\ work \in WorkAllowed
                /\ got.ok <=> right
                /\ got.ok => got.value = "identity"
    <2>1. /\ given = "password" => got = Success("identity")
          /\ given # "password" => ~got.ok
      BY <1>3, <1>8, <1>10, OpensWithIts
    <2>2. work \in WorkAllowed
      BY <1>7, <1>10
    <2>3. Success("identity").ok /\ Success("identity").value = "identity"
      BY DEF Success
    <2> HIDE DEF got
    <2>4. (got.ok <=> right) /\ (got.ok => got.value = "identity")
      <3>1. CASE right
        BY <1>6, <2>1, <2>3, <3>1
      <3>2. CASE ~right
        BY <1>6, <2>1, <3>2
      <3> QED
        BY <3>1, <3>2
    <2> QED
      BY <2>2, <2>4
  <1>11. VaultNeedsUpgrade(v) <=> work \in WorkAllowed /\ work < VaultIterations
    BY <1>7, <1>8 DEF VaultNeedsUpgrade
  <1>12. OpenVault(again, "password").ok /\ ~VaultNeedsUpgrade(again)
    BY VaultSealsOnce DEF Success
  <1>13. (got.ok <=> right /\ work \in WorkAllowed) /\ (got.ok => got.value = "identity")
    <2> HIDE DEF got
    <2>1. CASE Supported(v.iter)
      BY <1>10, <2>1
    <2>2. CASE ~Supported(v.iter)
      BY <1>9, <2>2
    <2> QED
      BY <2>1, <2>2
  <1> HIDE DEF got, again
  <1>14. /\ got = OpenVault(input'.vault, IF input'.right THEN "password" ELSE "other")
         /\ work = input'.vault.ciphertext.key[3]
    BY <1>2, <1>3 DEF got, given
  <1> QED
    BY <1>2, <1>11, <1>12, <1>13, <1>14 DEF VaultsOpen, again

\* A vault sealed by any version of the client opens with its password only, is
\* sealed anew exactly if it is weaker than today's, and then never again.
THEOREM VaultsKeptOpen == InputSpec => []VaultsOpen
  <1>1. InputInit => VaultsOpen
    BY DEF InputInit, About, VaultsOpen
  <1>2. ASSUME VaultsOpen, [InputNext]_input PROVE VaultsOpen'
    <2>1. CASE UNCHANGED input
      BY <1>2, <2>1 DEF VaultsOpen
    <2>2. CASE ~ChooseVault /\ ~UNCHANGED input
      <3>1. input'.kind # "vault"
        BY <1>2, <2>2, Kinds DEF InputNext
      <3> QED
        BY <3>1 DEF VaultsOpen
    <2> QED
      BY <2>1, <2>2, VaultChosen
  <1> QED
    BY <1>1, <1>2, PTL DEF InputSpec

-----------------------------------------------------------------------------
(* What is painted.                                                        *)

\* Whatever strings are stored, known to the client or not: preload.js and
\* theme.js paint alike unless preload.js fails, the palette and what the browser
\* allows besides are the same even then, and applying what was stored changes
\* nothing.
THEOREM PaintsAlike ==
    ASSUME NEW themes, NEW colours, NEW b \in Browsers(themes, colours)
    PROVE  LET look  == Appearance(b)
               first == Painted(Preload(b), b)
               later == Painted(look.root, b)
           IN  /\ first = later \/ PreloadFails(b)
               /\ first.palette = later.palette
               /\ b.media => first.accent = later.accent
               /\ b.os = "dark" => first.scheme = later.scheme
               /\ Appearance(look.browser) = look
  <1> DEFINE theme  == Current(b, b.theme, "dark")
             chat   == Current(b, b.chat, "default")
             name   == IF theme \in Themes THEN theme ELSE "dark"
             colour == IF chat \in ChatColors THEN chat ELSE "default"
             seen   == ResolveTheme(name, b)
             kept   == IF b.store = "open" THEN [b EXCEPT !.theme = name, !.chat = colour] ELSE b
             look   == [root |-> Dressed(seen, colour), browser |-> kept]
             first  == Painted(Preload(b), b)
             later  == Painted(look.root, b)
  <1>1. Appearance(b) = look
    BY DEF Appearance
  <1>2. name \in Themes /\ colour \in ChatColors
    BY DEF Themes, Palettes, ChatColors
  <1>3. seen \in Palettes
    BY <1>2 DEF ResolveTheme, Themes, Palettes
  <1>4. /\ later.palette = seen
        /\ later.accent = colour
        /\ later.scheme = IF seen = "light" THEN "light" ELSE "dark"
    <2>1. /\ look.root.theme = seen
          /\ look.root.chat = colour
          /\ look.root.scheme = IF seen = "light" THEN "light" ELSE "dark"
      BY DEF Dressed
    <2>2. "light" # NoValue /\ "dark" # NoValue
      BY Zenon DEF NoValue
    <2> HIDE DEF look
    <2> QED
      BY <1>2, <1>3, <2>1, <2>2 DEF Painted
  <1>5. ASSUME ~PreloadFails(b) PROVE first = later
    <2>1. /\ theme = Or(b.theme, "dark")
          /\ chat = Or(b.chat, "default")
          /\ theme = "system" => b.media
      BY <1>5 DEF PreloadFails, Current
    <2> DEFINE named == IF theme = "system" THEN b.os ELSE theme
               shade == IF named \in Palettes THEN named ELSE "dark"
    <2>2. b.os \in {"dark", "light"}
      BY DEF Browsers
    <2>3. shade = seen
      BY <2>1, <2>2 DEF ResolveTheme, Themes, Palettes
    <2>4. Preload(b) = Dressed(shade, chat)
      BY <1>5, <2>1 DEF Preload
    <2>5. /\ Preload(b).theme = shade
          /\ Preload(b).chat = chat
          /\ Preload(b).scheme = IF shade = "light" THEN "light" ELSE "dark"
      BY <2>4 DEF Dressed
    <2>6. "light" # NoValue /\ "dark" # NoValue
      BY Zenon DEF NoValue
    <2>7. first = [palette |-> seen, accent |-> colour,
                   scheme |-> IF seen = "light" THEN "light" ELSE "dark"]
      <3> HIDE DEF theme, chat, shade, seen
      <3> QED
        BY <1>3, <2>3, <2>5, <2>6 DEF Painted
    <2>8. later = [palette |-> later.palette, accent |-> later.accent, scheme |-> later.scheme]
      BY DEF Painted
    <2> HIDE DEF theme, chat, seen, first, later
    <2> QED
      BY <1>4, <2>7, <2>8
  <1>6. ASSUME PreloadFails(b)
        PROVE  /\ first.palette = later.palette
               /\ b.media => first.accent = later.accent
               /\ b.os = "dark" => first.scheme = later.scheme
    <2>1. Preload(b) = Bare
      BY <1>6 DEF Preload
    <2>2. NoValue \notin Palettes /\ NoValue \notin ChatColors
      BY DEF NoValue, Palettes, ChatColors
    <2>3. first.palette = "dark" /\ first.accent = "default" /\ first.scheme = b.os
      BY <2>1, <2>2 DEF Bare, Painted
    <2>4. CASE b.store = "blocked"
      <3>1. theme = "dark" /\ chat = "default"
        BY <2>4 DEF Current
      <3>2. seen = "dark" /\ colour = "default"
        BY <3>1 DEF ResolveTheme, Themes, Palettes
      <3> HIDE DEF first, later, seen, colour
      <3> QED
        BY <1>4, <2>3, <3>2
    <2>5. CASE b.store # "blocked"
      <3>1. Or(b.theme, "dark") = "system" /\ ~b.media
        BY <1>6, <2>5 DEF PreloadFails
      <3>2. seen = "dark"
        BY <2>5, <3>1 DEF ResolveTheme, Current, Themes
      <3> HIDE DEF first, later, seen, colour
      <3> QED
        BY <1>4, <2>3, <3>1, <3>2
    <2> QED
      BY <2>4, <2>5
  <1>7. Appearance(kept) = look
    <2>1. CASE b.store # "open"
      BY <1>1, <2>1
    <2>2. CASE b.store = "open"
      <3>1. /\ kept.store = "open" /\ kept.os = b.os /\ kept.media = b.media
            /\ kept.theme = name /\ kept.chat = colour
            /\ [kept EXCEPT !.theme = name, !.chat = colour] = kept
        BY <2>2 DEF Browsers
      <3>2. name # NoValue /\ colour # NoValue
        <4> HIDE DEF name, colour
        <4> QED
          BY <1>2, Zenon DEF Themes, Palettes, ChatColors, NoValue
      <3>3. Current(kept, kept.theme, "dark") = name /\ Current(kept, kept.chat, "default") = colour
        <4> HIDE DEF name, colour, kept
        <4> QED
          BY <3>1, <3>2 DEF Current, Or
      <3>4. ResolveTheme(name, kept) = seen
        <4> HIDE DEF name, kept
        <4> QED
          BY <3>1 DEF ResolveTheme
      <3>5. look = [root |-> Dressed(seen, colour), browser |-> kept]
        OBVIOUS
      <3> HIDE DEF name, colour, kept, seen, look
      <3> QED
        BY <1>2, <3>1, <3>3, <3>4, <3>5 DEF Appearance
    <2> QED
      BY <2>1, <2>2
  <1>8. look.browser = kept
    OBVIOUS
  <1> HIDE DEF look, first, later, kept
  <1>9. /\ first = later \/ PreloadFails(b)
        /\ first.palette = later.palette
        /\ b.media => first.accent = later.accent
        /\ b.os = "dark" => first.scheme = later.scheme
        /\ Appearance(look.browser) = look
    BY <1>5, <1>6, <1>7, <1>8
  <1> QED
    BY <1>1, <1>9 DEF first, later

\* Whatever is stored and whether or not it can be read, the page is painted
\* once, but for what PaintsOnce allows where preload.js fails.
THEOREM PaintedOnce == InputSpec => []PaintsOnce
  <1>1. InputInit => PaintsOnce
    BY DEF InputInit, About, PaintsOnce
  <1>2. ASSUME PaintsOnce, [InputNext]_input PROVE PaintsOnce'
    <2>1. CASE UNCHANGED input
      BY <1>2, <2>1 DEF PaintsOnce
    <2>2. CASE ChooseLook
      <3>1. PICK b \in Browsers(Themes \cup {NoValue, "unknown"}, ChatColors \cup {NoValue, "unknown"}) :
               input' = [kind |-> "look", browser |-> b]
        BY <2>2 DEF ChooseLook
      <3>2. input'.browser = b
        BY <3>1
      <3> QED
        BY <3>2, PaintsAlike DEF PaintsOnce
    <2>3. CASE ~ChooseLook /\ ~UNCHANGED input
      <3>1. input'.kind # "look"
        BY <1>2, <2>3, Kinds DEF InputNext
      <3> QED
        BY <3>1 DEF PaintsOnce
    <2> QED
      BY <2>1, <2>2, <2>3
  <1> QED
    BY <1>1, <1>2, PTL DEF InputSpec
-----------------------------------------------------------------------------
(* Addresses: the least and the greatest of some numbers, then paths.      *)

LEMMA HasLargest ==
    ASSUME NEW n \in Nat, NEW S \in SUBSET (0..n), S # {}
    PROVE  \E g \in S : \A i \in S : i <= g
  <1> DEFINE Above(i) == {j \in S : j > i}
             U == {Above(i) : i \in S}
             R == StrictSubsetOrdering(S)
  <1>1. IsFiniteSet(S) /\ S \subseteq Nat
    <2>1. IsFiniteSet(0..n) /\ 0..n \subseteq Nat
      BY FS_Interval
    <2> QED
      BY <2>1, FS_Subset
  <1>2. U \subseteq FiniteSubsetsOf(S) /\ U # {}
    <2>1. \A i \in S : Above(i) \in SUBSET S /\ IsFiniteSet(Above(i))
      BY <1>1, FS_Subset
    <2> QED
      BY <2>1 DEF FiniteSubsetsOf
  <1>3. PICK X \in U : \A Y \in U : ~(<<Y, X>> \in R)
    <2>1. IsWellFoundedOn(R, FiniteSubsetsOf(S))
      BY FS_StrictSubsetOrderingWellFounded
    <2> HIDE DEF U, R
    <2> QED
      BY <1>2, <2>1, WFMin
  <1>4. PICK g \in S : X = Above(g)
    OBVIOUS
  <1>5. ASSUME NEW i \in S, ~(i <= g) PROVE FALSE
    <2>1. i \in Nat /\ g \in Nat /\ i > g
      BY <1>1, <1>5
    <2>2. \A j \in S : j > i => j > g
      BY <1>1, <2>1
    <2>3. Above(i) \subseteq Above(g)
      BY <2>2
    <2>4. i \in Above(g) /\ i \notin Above(i)
      BY <2>1
    <2>5. <<Above(i), X>> \in R
      BY <1>4, <2>3, <2>4 DEF StrictSubsetOrdering
    <2> QED
      BY <1>3, <2>5
  <1> QED
    BY <1>5

LEMMA LargestIs ==
    ASSUME NEW n \in Nat, NEW S \in SUBSET (0..n), S # {}
    PROVE  Max(S) \in S /\ \A i \in S : i <= Max(S)
  <1>1. PICK g \in S : \A i \in S : i <= g
    BY HasLargest
  <1>2. S \subseteq Nat
    OBVIOUS
  <1>3. \A y \in S : g >= y
    BY <1>1, <1>2
  <1>4. Max(S) \in S /\ \A y \in S : Max(S) >= y
    BY <1>3 DEF Max
  <1> QED
    BY <1>2, <1>4

LEMMA SmallestIs ==
    ASSUME NEW n \in Nat, NEW S \in SUBSET (0..n), S # {}
    PROVE  Min(S) \in S /\ \A i \in S : Min(S) <= i
  <1> DEFINE T == {n - i : i \in S}
  <1>1. T \in SUBSET (0..n) /\ T # {}
    <2>1. \A i \in S : n - i \in 0..n
      OBVIOUS
    <2>2. \A t \in T : t \in 0..n
      BY <2>1
    <2>3. PICK i \in S : TRUE
      OBVIOUS
    <2>4. n - i \in T
      OBVIOUS
    <2> QED
      BY <2>2, <2>4
  <1>2. PICK g \in T : \A i \in T : i <= g
    <2> HIDE DEF T
    <2> QED
      BY <1>1, HasLargest
  <1>3. PICK m \in S : g = n - m
    OBVIOUS
  <1>4. \A y \in S : m =< y
    BY <1>2, <1>3
  <1>5. Min(S) \in S /\ \A y \in S : Min(S) =< y
    BY <1>4 DEF Min
  <1> QED
    BY <1>5

-----------------------------------------------------------------------------
\* The provers do not know that a string is in STRING.
Words == STRING \cup {"ws", "api", "health"}

\* What a relay's own path looks like once stored
EndsPlain(p) == p = <<>> \/ p[Len(p)] # ""
NoApi(p) == \A i \in 1..Len(p) : p[i] # "api"

LEMMA TrimmedIs ==
    ASSUME NEW path \in Seq(Words)
    PROVE  \E n \in 0..Len(path) : /\ Trimmed(path) = SubSeq(path, 1, n)
                                   /\ n # 0 => path[n] # ""
                                   /\ Len(path) # 0 /\ path[Len(path)] # "" => n = Len(path)
  <1> DEFINE S == {0} \cup {i \in DOMAIN path : path[i] # ""}
  <1>1. DOMAIN path = 1..Len(path) /\ Len(path) \in Nat
    OBVIOUS
  <1>2. S \in SUBSET (0..Len(path)) /\ S # {}
    <2>1. \A i \in S : i = 0 \/ i \in 1..Len(path)
      BY <1>1
    <2>2. 0 \in S
      OBVIOUS
    <2> HIDE DEF S
    <2>3. \A i \in S : i \in 0..Len(path)
      BY <1>1, <2>1
    <2> QED
      BY <2>2, <2>3
  <1>3. \A i \in S : i = 0 \/ path[i] # ""
    BY <1>1
  <1>9. ASSUME Len(path) # 0, path[Len(path)] # ""
        PROVE  Len(path) \in S
    <2>1. \A n \in Nat : n # 0 => n \in 1..n
      OBVIOUS
    <2>2. Len(path) \in DOMAIN path
      BY <1>1, <1>9, <2>1
    <2> QED
      BY <1>9, <2>2
  <1>4. Trimmed(path) = SubSeq(path, 1, Max(S))
    BY DEF Trimmed
  <1> HIDE DEF S
  <1>5. Max(S) \in S /\ \A i \in S : i <= Max(S)
    BY <1>1, <1>2, LargestIs
  <1>6. Max(S) \in 0..Len(path)
    BY <1>2, <1>5
  <1>7. Max(S) # 0 => path[Max(S)] # ""
    BY <1>3, <1>5
  <1>8. ASSUME Len(path) # 0, path[Len(path)] # ""
        PROVE  Max(S) = Len(path)
    <2>1. Len(path) <= Max(S)
      BY <1>5, <1>8, <1>9
    <2> QED
      BY <1>1, <1>6, <2>1
  <1> QED
    BY <1>4, <1>6, <1>7, <1>8

LEMMA PrefixOf ==
    ASSUME NEW path \in Seq(Words), NEW n \in 0..Len(path)
    PROVE  /\ SubSeq(path, 1, n) \in Seq(Words) /\ Len(SubSeq(path, 1, n)) = n
           /\ \A i \in 1..n : SubSeq(path, 1, n)[i] = path[i]
           /\ NoApi(path) => NoApi(SubSeq(path, 1, n))
  <1>1. /\ SubSeq(path, 1, n) \in Seq(Words) /\ Len(SubSeq(path, 1, n)) = n
        /\ \A i \in 1..n : SubSeq(path, 1, n)[i] = path[i]
    OBVIOUS
  <1> QED
    BY <1>1 DEF NoApi

LEMMA TrimmedIsPlain ==
    ASSUME NEW path \in Seq(Words)
    PROVE  /\ Trimmed(path) \in Seq(Words) /\ EndsPlain(Trimmed(path))
           /\ NoApi(path) => NoApi(Trimmed(path))
  <1>1. PICK n \in 0..Len(path) : /\ Trimmed(path) = SubSeq(path, 1, n)
                                  /\ n # 0 => path[n] # ""
    BY TrimmedIs
  <1> DEFINE p == SubSeq(path, 1, n)
  <1>2. /\ p \in Seq(Words) /\ Len(p) = n /\ \A i \in 1..n : p[i] = path[i]
        /\ NoApi(path) => NoApi(p)
    BY PrefixOf
  <1> HIDE DEF p
  <1>3. EndsPlain(p)
    <2>1. CASE n = 0
      BY <1>2, <2>1 DEF EndsPlain
    <2>2. CASE n # 0
      <3>1. n \in 1..n
        BY <2>2
      <3>2. p[Len(p)] = path[n]
        BY <1>2, <3>1
      <3> QED
        BY <1>1, <2>2, <3>2 DEF EndsPlain
    <2> QED
      BY <2>1, <2>2
  <1> QED
    BY <1>1, <1>2, <1>3 DEF p

LEMMA PlainIsTrimmed ==
    ASSUME NEW path \in Seq(Words), EndsPlain(path)
    PROVE  Trimmed(path) = path
  <1>1. PICK n \in 0..Len(path) : /\ Trimmed(path) = SubSeq(path, 1, n)
                                  /\ Len(path) # 0 /\ path[Len(path)] # "" => n = Len(path)
    BY TrimmedIs
  <1>2. n = Len(path)
    <2>1. CASE path = <<>>
      BY <2>1
    <2>2. CASE path # <<>>
      <3>1. Len(path) # 0
        BY <2>2
      <3>2. path[Len(path)] # ""
        BY <2>2 DEF EndsPlain
      <3> QED
        BY <1>1, <3>1, <3>2
    <2> QED
      BY <2>1, <2>2
  <1>3. SubSeq(path, 1, Len(path)) = path
    OBVIOUS
  <1> QED
    BY <1>1, <1>2, <1>3

LEMMA BaseHasNoApi ==
    ASSUME NEW path \in Seq(Words)
    PROVE  Base(path) \in Seq(Words) /\ NoApi(Base(path))
  <1> DEFINE p == Trimmed(path)
             api == {i \in DOMAIN p : p[i] = "api"}
  <1>1. Base(path) = IF api # {} THEN SubSeq(p, 1, Min(api) - 1)
                     ELSE IF p # <<>> /\ Last(p) = "ws" THEN Front(p) ELSE p
    BY DEF Base
  <1>2. p \in Seq(Words)
    BY TrimmedIsPlain
  <1> HIDE DEF p
  <1>3. DOMAIN p = 1..Len(p) /\ Len(p) \in Nat
    BY <1>2
  <1>4. api \in SUBSET (0..Len(p))
    BY <1>3
  <1>5. CASE api # {}
    <2> DEFINE m == Min(api)
    <2> HIDE DEF api
    <2>1. m \in api /\ \A i \in api : m <= i
      BY <1>3, <1>4, <1>5, SmallestIs
    <2> HIDE DEF m
    <2> USE DEF api
    <2>2. m \in 1..Len(p) /\ \A i \in 1..Len(p) : p[i] = "api" => m <= i
      BY <1>3, <2>1
    <2>3. m - 1 \in 0..Len(p)
      BY <1>3, <2>2
    <2> DEFINE b == SubSeq(p, 1, m - 1)
    <2>4. b \in Seq(Words) /\ Len(b) = m - 1 /\ \A i \in 1..m - 1 : b[i] = p[i]
      BY <1>2, <2>3, PrefixOf
    <2>5. Base(path) = b
      BY <1>1, <1>5 DEF m
    <2> HIDE DEF b
    <2>6. NoApi(b)
      BY <1>3, <2>2, <2>4 DEF NoApi
    <2> QED
      BY <2>4, <2>5, <2>6
  <1>6. CASE api = {}
    <2>1. NoApi(p)
      BY <1>3, <1>6 DEF NoApi
    <2>2. CASE p # <<>> /\ Last(p) = "ws"
      <3>1. Base(path) = SubSeq(p, 1, Len(p) - 1)
        BY <1>1, <1>6, <2>2 DEF Front
      <3>2. Len(p) - 1 \in 0..Len(p)
        BY <1>2, <2>2
      <3> QED
        BY <1>2, <2>1, <3>1, <3>2, PrefixOf
    <2>3. CASE ~(p # <<>> /\ Last(p) = "ws")
      BY <1>1, <1>2, <1>6, <2>1, <2>3
    <2> QED
      BY <2>2, <2>3
  <1> QED
    BY <1>5, <1>6

\* A relay's own path is what is left of it, of its WebSocket's and of its
\* endpoints'.
LEMMA BaseOfOwn ==
    ASSUME NEW p \in Seq(Words), EndsPlain(p), NoApi(p), p = <<>> \/ p[Len(p)] # "ws"
    PROVE  Base(p) = p
  <1>1. Trimmed(p) = p
    BY PlainIsTrimmed
  <1>2. {i \in DOMAIN p : p[i] = "api"} = {}
    BY DEF NoApi
  <1>3. ~(p # <<>> /\ Last(p) = "ws")
    BY DEF Last
  <1> QED
    BY <1>1, <1>2, <1>3 DEF Base

LEMMA BaseOfSocket ==
    ASSUME NEW p \in Seq(Words), NoApi(p)
    PROVE  Base(Append(p, "ws")) = p
  <1> DEFINE q == Append(p, "ws")
  <1>1. /\ q \in Seq(Words) /\ Len(q) = Len(p) + 1 /\ q[Len(q)] = "ws" /\ q # <<>>
        /\ \A i \in 1..Len(p) : q[i] = p[i]
    <2>1. "ws" \in Words
      BY DEF Words
    <2>2. q \in Seq(Words) /\ Len(q) = Len(p) + 1
      BY <2>1
    <2>3. q[Len(p) + 1] = "ws"
      OBVIOUS
    <2>4. \A i \in 1..Len(p) : q[i] = p[i]
      OBVIOUS
    <2>5. q # <<>>
      BY <2>2
    <2> QED
      BY <2>2, <2>3, <2>4, <2>5
  <1>2. SubSeq(q, 1, Len(q) - 1) = p
    OBVIOUS
  <1> HIDE DEF q
  <1>3. EndsPlain(q)
    BY <1>1 DEF EndsPlain
  <1>4. Trimmed(q) = q
    BY <1>1, <1>3, PlainIsTrimmed
  <1>5. {i \in DOMAIN q : q[i] = "api"} = {}
    BY <1>1 DEF NoApi
  <1>6. Last(q) = "ws" /\ Front(q) = p
    BY <1>1, <1>2 DEF Last, Front
  <1>7. Base(q) = p
    BY <1>1, <1>4, <1>5, <1>6 DEF Base
  <1> QED
    BY <1>7 DEF q

LEMMA BaseOfEndpoint ==
    ASSUME NEW p \in Seq(Words), NoApi(p)
    PROVE  Base(p \o <<"api", "health">>) = p
  <1> DEFINE q == p \o <<"api", "health">>
             api == {i \in DOMAIN q : q[i] = "api"}
  <1>1. /\ q \in Seq(Words) /\ Len(q) = Len(p) + 2 /\ q # <<>>
        /\ q[Len(p) + 1] = "api" /\ q[Len(q)] = "health"
        /\ \A i \in 1..Len(p) : q[i] = p[i]
    <2>1. "api" \in Words /\ "health" \in Words
      BY DEF Words
    <2>2. q \in Seq(Words) /\ Len(q) = Len(p) + 2
      BY <2>1
    <2>3. q[Len(p) + 1] = "api" /\ \A i \in 1..Len(p) : q[i] = p[i]
      OBVIOUS
    <2>4. q[Len(p) + 2] = "health"
      OBVIOUS
    <2>5. q # <<>>
      BY <2>2
    <2> QED
      BY <2>2, <2>3, <2>4, <2>5
  <1>2. SubSeq(q, 1, Len(p)) = p
    OBVIOUS
  <1>3. Len(p) \in Nat
    OBVIOUS
  <1> HIDE DEF q
  <1>4. EndsPlain(q)
    BY <1>1 DEF EndsPlain
  <1>5. Trimmed(q) = q
    BY <1>1, <1>4, PlainIsTrimmed
  <1>6. api = {Len(p) + 1}
    BY <1>1, <1>3 DEF NoApi
  <1>7. Min(api) = Len(p) + 1
    BY <1>3, <1>6 DEF Min
  <1>8. Base(q) = SubSeq(q, 1, Min(api) - 1)
    BY <1>5, <1>6 DEF Base
  <1>9. Min(api) - 1 = Len(p)
    BY <1>3, <1>7
  <1> HIDE DEF api
  <1> QED
    BY <1>2, <1>8, <1>9 DEF q

\* The relay of a scheme, host and path; that it names no user is kept from the
\* provers, which do not compare records that hold truth values.
NoUser == FALSE
RelayAt(scheme, host, path) == [scheme |-> scheme, user |-> NoUser, host |-> host, path |-> path]

LEMMA RelayIs ==
    ASSUME NEW scheme, NEW host, NEW path
    PROVE  [scheme |-> scheme, user |-> FALSE, host |-> host, path |-> path] = RelayAt(scheme, host, path)
  BY Zenon DEF RelayAt, NoUser

LEMMA RelayFields ==
    \A scheme, host, path :
        /\ RelayAt(scheme, host, path).scheme = scheme
        /\ RelayAt(scheme, host, path).user = FALSE
        /\ RelayAt(scheme, host, path).host = host
        /\ RelayAt(scheme, host, path).path = path
  BY DEF RelayAt, NoUser

LEMMA RelayStored ==
    ASSUME NEW scheme, NEW host, NEW path
    PROVE  Stored(RelayAt(scheme, host, path)) = RelayAt(scheme, host, Trimmed(path))
  BY DEF RelayAt, Stored

LEMMA RelayEndpoint ==
    ASSUME NEW scheme, NEW host, NEW path
    PROVE  [RelayAt(scheme, host, path) EXCEPT !.path = @ \o <<"api", "health">>]
              = RelayAt(scheme, host, path \o <<"api", "health">>)
  BY DEF RelayAt

LEMMA RelayElsewhere ==
    ASSUME NEW scheme \in {"http", "https"}, NEW host, NEW path
    PROVE  RelayAt(scheme, host, path) # SameOrigin
  <1>1. SameOrigin = RelayAt("", "", <<>>)
    BY Zenon DEF RelayAt, NoUser, SameOrigin
  <1> QED
    BY <1>1 DEF RelayAt

\* That an address of this scheme and host is not refused on a page
Accepted(scheme, host, page) ==
    /\ scheme \in {"http", "https"} /\ host # ""
    /\ ~(page = "https" /\ scheme = "http" /\ ~Local(host))

\* An address, typed, is that of a relay.
LeadsTo(a, page, relay) == Normalize(a, page).ok /\ Stored(Normalize(a, page).url) = relay

LEMMA NormalizedIs ==
    ASSUME NEW a, NEW page
    PROVE  /\ Normalize(a, page).ok => Accepted(Scheme(a), a.host, page)
           /\ Normalize(a, page).ok => Normalize(a, page).url = RelayAt(Scheme(a), a.host, Base(a.path))
           /\ Accepted(Scheme(a), a.host, page) /\ a.user = FALSE => Normalize(a, page).ok
  <1> DEFINE refused == \/ Scheme(a) \notin {"http", "https"} \/ a.user \/ a.host = ""
                        \/ page = "https" /\ Scheme(a) = "http" /\ ~Local(a.host)
             url == [scheme |-> Scheme(a), user |-> FALSE, host |-> a.host, path |-> Base(a.path)]
  <1>1. Normalize(a, page) = IF refused THEN Refused
                             ELSE [ok |-> TRUE, warning |-> Scheme(a) = "http" /\ ~Near(a.host), url |-> url]
    BY DEF Normalize
  <1>2. Accepted(Scheme(a), a.host, page) /\ a.user = FALSE => ~refused
    BY DEF Accepted
  <1>3. ~refused => Accepted(Scheme(a), a.host, page)
    BY DEF Accepted
  <1>4. url = RelayAt(Scheme(a), a.host, Base(a.path))
    BY Zenon, RelayIs
  <1> HIDE DEF refused, url
  <1>5. CASE refused
    BY <1>1, <1>2, <1>5 DEF Refused
  <1>6. CASE ~refused
    BY <1>1, <1>3, <1>4, <1>6
  <1> QED
    BY <1>5, <1>6

LEMMA Leads ==
    ASSUME NEW a, NEW page, NEW scheme, NEW host, NEW path \in Seq(Words),
           Scheme(a) = scheme, a.user = FALSE, a.host = host, Accepted(scheme, host, page),
           Base(a.path) = path, EndsPlain(path)
    PROVE  LeadsTo(a, page, RelayAt(scheme, host, path))
  <1>1. Normalize(a, page).ok /\ Normalize(a, page).url = RelayAt(scheme, host, path)
    BY NormalizedIs
  <1>2. Trimmed(path) = path
    BY PlainIsTrimmed
  <1> QED
    BY <1>1, <1>2, RelayStored DEF LeadsTo

\* Whatever base the client picks, its requests go to the relay stored.
LEMMA OriginIsRelay ==
    ASSUME NEW relay, relay # SameOrigin, NEW origin, NEW extension \in BOOLEAN
    PROVE  ServerOrigin(ApiBase(relay, origin, extension, origin), origin) = relay
  <1>1. CASE ~extension /\ relay = origin
    BY <1>1 DEF ApiBase, ServerOrigin
  <1>2. CASE ~(~extension /\ relay = origin)
    BY <1>2 DEF ApiBase, ServerOrigin
  <1> QED
    BY <1>1, <1>2

\* A relay's own address, unless it ends in ws, its WebSocket's and those of its
\* endpoints lead back to it, and the client's requests go to it.
LeadsBack(relay, base, origin, page) ==
    /\ (relay.path # <<>> /\ Last(relay.path) = "ws") \/ LeadsTo(relay, page, relay)
    /\ LeadsTo(WsUrl(base, origin), page, relay)
    /\ LeadsTo([relay EXCEPT !.path = @ \o <<"api", "health">>], page, relay)
    /\ ServerOrigin(base, origin) = relay

\* An address that normalizeServerUrl takes leads to one relay, and whatever is
\* pasted from that relay leads back to it.
THEOREM AddressesLeadBack ==
    ASSUME NEW typed, typed.path \in Seq(Words), NEW page, NEW origin, NEW extension \in BOOLEAN,
           Normalize(typed, page).ok,
           NEW relay, relay = Stored(Normalize(typed, page).url),
           NEW base, base = ApiBase(relay, origin, extension, origin)
    PROVE  LeadsBack(relay, base, origin, page)
  <1> DEFINE scheme == Scheme(typed)
             host == typed.host
             path == Trimmed(Base(typed.path))
  <1>1. Accepted(scheme, host, page) /\ Normalize(typed, page).url = RelayAt(scheme, host, Base(typed.path))
    BY NormalizedIs
  <1>2. relay = RelayAt(scheme, host, path)
    BY <1>1, RelayStored
  <1>3. path \in Seq(Words) /\ EndsPlain(path) /\ NoApi(path)
    BY BaseHasNoApi, TrimmedIsPlain
  <1> HIDE DEF scheme, host, path
  <1>4. relay.scheme = scheme /\ relay.user = FALSE /\ relay.host = host /\ relay.path = path
    BY <1>2, RelayFields
  <1>5. scheme \in {"http", "https"}
    BY <1>1 DEF Accepted
  <1>6. Scheme(relay) = scheme
    BY <1>4, <1>5 DEF Scheme, Guessed
  <1>7. \/ relay.path # <<>> /\ Last(relay.path) = "ws"
        \/ LeadsTo(relay, page, relay)
    <2>1. CASE relay.path # <<>> /\ Last(relay.path) = "ws"
      BY <2>1
    <2>2. CASE ~(relay.path # <<>> /\ Last(relay.path) = "ws")
      <3>1. path = <<>> \/ path[Len(path)] # "ws"
        BY <1>4, <2>2 DEF Last
      <3>2. Base(relay.path) = path
        BY <1>3, <1>4, <3>1, BaseOfOwn
      <3>3. LeadsTo(relay, page, RelayAt(scheme, host, path))
        BY <1>1, <1>3, <1>4, <1>6, <3>2, Leads
      <3> QED
        BY <1>2, <3>3
    <2> QED
      BY <2>1, <2>2
  <1>8. ServerOrigin(base, origin) = relay
    <2>1. relay # SameOrigin
      BY <1>2, <1>5, RelayElsewhere
    <2> QED
      BY <2>1, OriginIsRelay
  <1>9. LeadsTo(WsUrl(base, origin), page, relay)
    <2> DEFINE socket == WsUrl(base, origin)
               wss == IF scheme = "http" THEN "ws" ELSE "wss"
    <2>1. Trimmed(path) = path
      BY <1>3, PlainIsTrimmed
    <2>2. /\ socket.scheme = wss /\ socket.user = FALSE /\ socket.host = host
          /\ socket.path = Append(path, "ws")
      BY <1>4, <1>5, <1>8, <2>1 DEF WsUrl
    <2> HIDE DEF socket
    <2>3. Scheme(socket) = scheme
      BY <1>5, <2>2 DEF Scheme, Guessed
    <2>4. Base(socket.path) = path
      BY <1>3, <2>2, BaseOfSocket
    <2>5. LeadsTo(socket, page, RelayAt(scheme, host, path))
      BY <1>1, <1>3, <2>2, <2>3, <2>4, Leads
    <2> QED
      BY <1>2, <2>5 DEF socket
  <1>10. LeadsTo([relay EXCEPT !.path = @ \o <<"api", "health">>], page, relay)
    <2> DEFINE health == [relay EXCEPT !.path = @ \o <<"api", "health">>]
    <2>1. health = RelayAt(scheme, host, path \o <<"api", "health">>)
      <3> DEFINE at == RelayAt(scheme, host, path)
      <3>1. [at EXCEPT !.path = @ \o <<"api", "health">>]
               = RelayAt(scheme, host, path \o <<"api", "health">>)
        BY RelayEndpoint
      <3>2. relay = at
        BY <1>2
      <3> HIDE DEF at
      <3> QED
        BY <3>1, <3>2
    <2> HIDE DEF health
    <2> DEFINE longer == path \o <<"api", "health">>
    <2> HIDE DEF longer
    <2>2. /\ health.scheme = scheme /\ health.user = FALSE /\ health.host = host
          /\ health.path = longer
      <3>1. health = RelayAt(scheme, host, longer)
        BY <2>1 DEF longer
      <3> QED
        BY <3>1, RelayFields
    <2>3. Scheme(health) = scheme
      BY <1>5, <2>2 DEF Scheme, Guessed
    <2>4. Base(health.path) = path
      BY <1>3, <2>2, BaseOfEndpoint DEF longer
    <2>5. LeadsTo(health, page, RelayAt(scheme, host, path))
      BY <1>1, <1>3, <2>2, <2>3, <2>4, Leads
    <2> QED
      BY <1>2, <2>5 DEF health
  <1> QED
    BY <1>7, <1>8, <1>9, <1>10 DEF LeadsBack

\* Whatever addresses are typed, what leads to a relay leads back to it.
THEOREM AddressesAgree == InputSpec => []PastedUrlsAgree
  <1>1. InputInit => PastedUrlsAgree
    BY DEF InputInit, About, PastedUrlsAgree
  <1>2. ASSUME PastedUrlsAgree, [InputNext]_input PROVE PastedUrlsAgree'
    <2>1. CASE UNCHANGED input
      BY <1>2, <2>1 DEF PastedUrlsAgree
    <2>2. CASE ChooseAddress
      <3>1. PICK a \in Origins, page \in {"http", "https"}, extension \in BOOLEAN :
               input' = [kind |-> "address", typed |-> a, page |-> page, extension |-> extension]
        BY <2>2 DEF ChooseAddress
      <3>2. input'.typed = a /\ input'.page = page /\ input'.extension = extension
        BY <3>1
      <3>3. a.path \in Seq(Words)
        BY OriginsAssumption DEF Words
      <3> DEFINE origin == [scheme |-> page, user |-> FALSE, host |-> "chat.example", path |-> <<>>]
                 relay == Stored(Normalize(a, page).url)
                 base == ApiBase(relay, origin, extension, origin)
      <3>4. ASSUME Normalize(a, page).ok
            PROVE  LeadsBack(relay, base, origin, page)
        <4>1. relay = Stored(Normalize(a, page).url) /\ base = ApiBase(relay, origin, extension, origin)
          OBVIOUS
        <4> HIDE DEF origin, relay, base
        <4> QED
          BY <3>3, <3>4, <4>1, AddressesLeadBack
      <3> QED
        BY <3>2, <3>4 DEF PastedUrlsAgree, LeadsBack, LeadsTo
    <2>3. CASE ~ChooseAddress /\ ~UNCHANGED input
      <3>1. input'.kind # "address"
        BY <1>2, <2>3, Kinds DEF InputNext
      <3> QED
        BY <3>1 DEF PastedUrlsAgree
    <2> QED
      BY <2>1, <2>2, <2>3
  <1> QED
    BY <1>1, <1>2, PTL DEF InputSpec
=============================================================================
