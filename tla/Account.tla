------------------------------ MODULE Account ------------------------------
(***************************************************************************)
(* How identities come to a device, sign in and go (client/js/app.js): the *)
(* sign-in forms, the vault, the choice of the relay, and the deletion of  *)
(* everything, in several tabs that share one localStorage.                *)
(*                                                                         *)
(* All identities want the same username, so a relay knows at most one of  *)
(* them.  A request and its answer are one step, but for what the answer   *)
(* leads to; a request whose answer is lost may have taken effect.  That   *)
(* an older vault is sealed again later (upgradeVault) is a step of its    *)
(* own.                                                                    *)
(***************************************************************************)
EXTENDS Naturals

CONSTANTS
    Tabs,     \* tabs of the browser
    Relays,   \* relays the user may choose
    Default,  \* the one used when none is chosen
    MaxIds    \* bound on the identities created

ASSUME AccountAssumption == Default \in Relays /\ MaxIds \in Nat \ {0}

VARIABLES
    vault,    \* localStorage: the identity in the vault, 0 for none
    weak,     \* the vault was sealed by an older version
    server,   \* localStorage: the relay in use
    holder,   \* relays: the identity registered, 0 for none
    files,    \* identities whose vault was exported to a file
    made,     \* identities generated so far
    tab,      \* tabs: what the user is doing there
    forfeit   \* history: identities whose keys the user gave up, or lost in one
              \* of the ways named below

accountVars == <<vault, weak, server, holder, files, made, tab, forfeit>>
deviceVars == <<vault, weak, server, files>>

-----------------------------------------------------------------------------
Ids == 1..MaxIds

\* Where a form stands: id is the identity in memory, at the relay signed in to,
\* reseal a pending upgradeVault, saw the vault there was at the start.
Stages == {"out", "replace?", "probing", "keys", "enroll?", "registering", "storing", "in"}
Flows  == {"none", "create", "unlock", "import"}
Out    == [st |-> "out", flow |-> "none", id |-> 0, saw |-> 0, at |-> Default, reseal |-> FALSE]

\* One identity was created with an older version, and its vault exported.
AccountInit ==
    /\ vault \in {0, 1} /\ weak = TRUE
    /\ server = Default
    /\ holder = [r \in Relays |-> IF r = Default THEN 1 ELSE 0]
    /\ files = {1} /\ made = 1
    /\ tab = [t \in Tabs |-> Out]
    /\ forfeit = {}

To(t, next) == tab' = [tab EXCEPT ![t] = next]

-----------------------------------------------------------------------------
(* The forms.                                                              *)

\* Mutant of StartCreate: nobody is asked about the vault there is.
MutantStartCreateUnasked(t) ==
    /\ tab[t] = Out
    /\ To(t, [Out EXCEPT !.st = "probing", !.flow = "create", !.saw = vault])
    /\ UNCHANGED <<deviceVars, holder, made, forfeit>>

\* onCreate: a vault on the device is replaced only after a warning.
StartCreate(t) ==
    /\ tab[t] = Out
    /\ To(t, [Out EXCEPT !.st = IF vault # 0 THEN "replace?" ELSE "probing",
                         !.flow = "create", !.saw = vault])
    /\ UNCHANGED <<deviceVars, holder, made, forfeit>>

Replace(t, yes) ==
    /\ tab[t].st = "replace?"
    /\ To(t, IF yes THEN [tab[t] EXCEPT !.st = "probing"] ELSE Out)
    /\ forfeit' = IF yes THEN forfeit \cup {tab[t].saw} ELSE forfeit
    /\ UNCHANGED <<deviceVars, holder, made>>

\* onUnlock and onImport read the vault first.
StartUnlock(t) ==
    /\ tab[t] = Out /\ vault # 0
    /\ To(t, [Out EXCEPT !.st = "probing", !.flow = "unlock", !.id = vault, !.reseal = weak])
    /\ UNCHANGED <<deviceVars, holder, made, forfeit>>

StartImport(t, i) ==
    /\ tab[t] = Out /\ i \in files
    /\ To(t, [Out EXCEPT !.st = "probing", !.flow = "import", !.id = i, !.reseal = (i = 1)])
    /\ UNCHANGED <<deviceVars, holder, made, forfeit>>

\* ensureRelayReachable, then generateIdentity or openVault
Probe(t) ==
    /\ tab[t].st = "probing"
    /\ IF tab[t].flow = "create"
       THEN /\ made < MaxIds /\ made' = made + 1
            /\ To(t, [tab[t] EXCEPT !.st = "registering", !.id = made + 1])
       ELSE /\ To(t, [tab[t] EXCEPT !.st = "keys"])
            /\ UNCHANGED made
    /\ UNCHANGED <<deviceVars, holder, forfeit>>

\* The relay is out of reach, the password is wrong, a request fails.
Fails(t) ==
    /\ tab[t].st \in {"probing", "keys", "registering"}
    /\ To(t, Out)
    /\ UNCHANGED <<deviceVars, holder, made, forfeit>>

\* loginOrEnroll: the relay in use by now knows the identity, or the user is
\* asked whether it should.
Login(t) ==
    /\ tab[t].st = "keys"
    /\ To(t, [tab[t] EXCEPT !.at = server,
                 !.st = IF holder[server] = tab[t].id THEN "storing" ELSE "enroll?"])
    /\ UNCHANGED <<deviceVars, holder, made, forfeit>>

\* register, or 409 because the name is taken.  If the answer is lost, so are the
\* keys of a new identity.
Registers(t, lost) ==
    /\ holder' = [holder EXCEPT ![server] = IF @ = 0 THEN tab[t].id ELSE @]
    /\ To(t, IF lost \/ holder[server] # 0 THEN Out
             ELSE [tab[t] EXCEPT !.st = "storing", !.at = server])
    /\ forfeit' = IF lost /\ tab[t].flow = "create" THEN forfeit \cup {tab[t].id} ELSE forfeit
    /\ UNCHANGED <<deviceVars, made>>

Register(t, lost) == tab[t].st = "registering" /\ Registers(t, lost)

Enroll(t, lost) == tab[t].st = "enroll?" /\ Registers(t, lost)

Decline(t) ==
    /\ tab[t].st = "enroll?"
    /\ To(t, Out)
    /\ UNCHANGED <<deviceVars, holder, made, forfeit>>

\* What a tab that stores its identity overwrites unasked: an import anything, a
\* new identity and upgradeVault what another tab has stored meanwhile.
Unasked(t) ==
    IF vault = tab[t].id \/ (tab[t].flow = "create" /\ vault = tab[t].saw) THEN {} ELSE {vault}

\* Mutant of Store: the vault's work factor is not its own.
MutantStoreKeepsWeak(t) ==
    /\ tab[t].st = "storing"
    /\ IF tab[t].flow = "unlock"
       THEN UNCHANGED <<vault, weak, forfeit>>
       ELSE /\ vault' = tab[t].id /\ weak' = weak
            /\ forfeit' = forfeit \cup Unasked(t)
    /\ To(t, [tab[t] EXCEPT !.st = "in"])
    /\ UNCHANGED <<server, files, holder, made>>

\* storeVault and bootApp
Store(t) ==
    /\ tab[t].st = "storing"
    /\ IF tab[t].flow = "unlock"
       THEN UNCHANGED <<vault, weak, forfeit>>
       ELSE /\ vault' = tab[t].id /\ weak' = tab[t].reseal
            /\ forfeit' = forfeit \cup Unasked(t)
    /\ To(t, [tab[t] EXCEPT !.st = "in"])
    /\ UNCHANGED <<server, files, holder, made>>

\* upgradeVault, in the background
Reseal(t) ==
    /\ tab[t].st = "in" /\ tab[t].reseal
    /\ vault' = tab[t].id /\ weak' = FALSE
    /\ forfeit' = forfeit \cup Unasked(t)
    /\ To(t, [tab[t] EXCEPT !.reseal = FALSE])
    /\ UNCHANGED <<server, files, holder, made>>

-----------------------------------------------------------------------------
(* Signed in.                                                              *)

\* exportVault: the vault there is.
Export(t) ==
    /\ tab[t].st = "in" /\ vault # 0
    /\ files' = files \cup {vault}
    /\ UNCHANGED <<vault, weak, server, holder, made, tab, forfeit>>

\* Requests go to the relay in use.  If another tab has changed it, the token is
\* refused, and the tab signs in there or is signed out (onSessionRejected).
Use(t) ==
    /\ tab[t].st = "in" /\ (tab[t].at # server \/ holder[server] # tab[t].id)
    /\ To(t, IF holder[server] = tab[t].id THEN [tab[t] EXCEPT !.at = server] ELSE Out)
    /\ UNCHANGED <<deviceVars, holder, made, forfeit>>

\* deleteAppData: what the relay answers does not matter.
Delete(t, told) ==
    /\ tab[t].st = "in"
    /\ holder' = IF told /\ holder[server] = tab[t].id THEN [holder EXCEPT ![server] = 0] ELSE holder
    /\ vault' = 0 /\ weak' = FALSE /\ server' = Default
    /\ forfeit' = forfeit \cup {vault, tab[t].id}
    /\ To(t, Out)
    /\ UNCHANGED <<files, made>>

\* The form of the relay dialog.  A tab that is signed in signs out first and
\* loads again; one that is signing in goes on.
Switch(t, r) ==
    /\ tab[t].st \notin {"replace?", "enroll?"} /\ r # server
    /\ server' = r
    /\ To(t, IF tab[t].st = "in" THEN Out ELSE tab[t])
    /\ UNCHANGED <<vault, weak, files, holder, made, forfeit>>

\* Signing out, closing the tab, reloading it: the keys of a new identity that is
\* registered and not yet stored are lost.
Leave(t) ==
    /\ tab[t] # Out
    /\ To(t, Out)
    /\ forfeit' = IF tab[t].st = "storing" /\ tab[t].flow = "create"
                  THEN forfeit \cup {tab[t].id} ELSE forfeit
    /\ UNCHANGED <<deviceVars, holder, made>>

AccountNext ==
    \E t \in Tabs :
        \/ StartCreate(t) \/ StartUnlock(t) \/ (\E i \in Ids : StartImport(t, i))
        \/ Probe(t) \/ Fails(t) \/ Login(t) \/ Decline(t)
        \/ \E b \in BOOLEAN : Replace(t, b) \/ Enroll(t, b) \/ Register(t, b) \/ Delete(t, b)
        \/ Store(t) \/ Reseal(t) \/ Export(t) \/ Use(t) \/ Leave(t)
        \/ \E r \in Relays : Switch(t, r)

AccountSpec == AccountInit /\ [][AccountNext]_accountVars

-----------------------------------------------------------------------------
\* The variables have their types; only what an older version sealed is weak.
AccountTypeOK ==
    /\ vault \in Ids \cup {0} /\ weak \in BOOLEAN /\ (weak /\ vault # 0 => vault = 1)
    /\ server \in Relays /\ holder \in [Relays -> Ids \cup {0}]
    /\ files \subseteq Ids /\ made \in Ids /\ forfeit \subseteq Ids \cup {0}
    /\ tab \in [Tabs -> [st : Stages, flow : Flows, id : Ids \cup {0}, saw : Ids \cup {0},
                         at : Relays, reseal : BOOLEAN]]
    /\ \A t \in Tabs : tab[t].reseal => tab[t].id = 1

(* A relay knows no identity whose keys are nowhere: they are in the vault,  *)
(* in an exported file, or about to be stored - or the user gave them up, a  *)
(* registration was cut off before they were stored, or they were            *)
(* overwritten by an import or by another tab.                               *)
KeysAreSomewhere ==
    \A r \in Relays :
        holder[r] \in files \cup {vault, 0} \cup forfeit
                     \cup {tab[t].id : t \in {u \in Tabs : tab[u].st = "storing"}}
=============================================================================
