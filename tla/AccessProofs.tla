---------------------------- MODULE AccessProofs ----------------------------
(***************************************************************************)
(* Proofs about who is let in and who is there: Sessions, what a relay     *)
(* takes for a session, Account, where the keys are that a client signs in *)
(* with, and Presence, who is shown as online. They hold for all sets of   *)
(* names, threads, requests, tabs, connections and relays, and all bounds. *)
(* The modules share no variable. In Sessions the type invariant and       *)
(* OrphansAreLate are inductive once the frames of the threads are known   *)
(* to hold a registered account when they are about to issue a token; in   *)
(* Account what the relays know is backed once the forms are known to hold *)
(* identities that are kept; in Presence a wrong dot has somebody to put   *)
(* it right once each task is known to tell all whom it still concerns.    *)
(***************************************************************************)
EXTENDS Sessions, Account, Presence, TLAPS

-----------------------------------------------------------------------------
(* Sessions.                                                               *)

\* A thread about to issue a token does so for an account that was registered.
IssuesKnown == \A t \in Threads : work[t].pc # "idle" =>
                  /\ work[t].user \in Users
                  /\ work[t].pc = "issue" => work[t].of \in 1..born

\* Sessions are those of accounts registered by now.
SessionsKnown == \A s \in tokens \cup sockets : s.of \in 1..born

DeletesKnown == \A d \in Deleters : deletes[d].pc # "idle" => deletes[d].user \in Users

IndInv == TypeOK /\ IssuesKnown /\ SessionsKnown /\ DeletesKnown /\ OrphansAreLate

LEMMA InitInd == Init => IndInv
  BY SessionAssumption
  DEF Init, IndInv, TypeOK, IssuesKnown, SessionsKnown, DeletesKnown, OrphansAreLate,
      Work, Deletes, Free, NoDelete

-----------------------------------------------------------------------------
(* Frames of threads and requests.                                         *)

LEMMA RegisterCheckInd ==
    ASSUME IndInv, NEW t \in Threads, NEW u \in Users, RegisterCheck(t, u)
    PROVE  IndInv'
  BY SessionAssumption
  DEF IndInv, TypeOK, IssuesKnown, SessionsKnown, DeletesKnown, OrphansAreLate, Orphan,
      RegisterCheck, Work

LEMMA LoginReadInd ==
    ASSUME IndInv, NEW t \in Threads, NEW u \in Users, LoginRead(t, u)
    PROVE  IndInv'
  <1>1. account[u] \in 1..born /\ born <= MaxAccount /\ born \in Nat
    BY SessionAssumption DEF IndInv, TypeOK, LoginRead
  <1> QED
    BY <1>1, SessionAssumption
    DEF IndInv, TypeOK, IssuesKnown, SessionsKnown, DeletesKnown, OrphansAreLate, Orphan,
        LoginRead, Work

LEMMA CreateUserInd ==
    ASSUME IndInv, NEW t \in Threads, CreateUser(t)
    PROVE  IndInv'
  <1> DEFINE u == work[t].user
  <1>1. /\ u \in Users /\ born \in Nat /\ born < MaxAccount /\ MaxAccount \in Nat
        /\ account \in [Users -> 0..born] /\ work \in [Threads -> Work]
    BY SessionAssumption DEF IndInv, TypeOK, IssuesKnown, CreateUser
  <1>2. UNCHANGED <<tokens, issued, sockets, deletes>>
    BY DEF CreateUser
  <1>3. CASE account[u] = 0
    <2>1. /\ born' = born + 1
          /\ account' = [account EXCEPT ![u] = born + 1]
          /\ work' = [work EXCEPT ![t] = [@ EXCEPT !.pc = "issue", !.of = born + 1]]
      BY <1>3 DEF CreateUser
    <2>2. work' \in [Threads -> Work]
      <3>1. work[t] \in Work /\ born + 1 \in 0..MaxAccount
        BY <1>1
      <3>2. \A n \in 0..MaxAccount, f \in Work : [f EXCEPT !.pc = "issue", !.of = n] \in Work
        BY DEF Work
      <3>3. [work[t] EXCEPT !.pc = "issue", !.of = born + 1] \in Work
        BY <3>1, <3>2
      <3> QED
        BY <1>1, <2>1, <3>3
    <2>3. account' \in [Users -> 0..born'] /\ born' \in 0..MaxAccount
      BY <1>1, <2>1
    <2>4. \A v, w \in Users : account'[v] = account'[w] /\ account'[v] # 0 => v = w
      BY <1>1, <2>1 DEF IndInv, TypeOK
    <2>5. TypeOK'
      BY <1>2, <2>2, <2>3, <2>4 DEF IndInv, TypeOK
    <2>6. IssuesKnown'
      BY <1>1, <2>1, <2>2 DEF IndInv, IssuesKnown, Work
    <2>7. SessionsKnown' /\ DeletesKnown'
      BY <1>1, <1>2, <2>1 DEF IndInv, SessionsKnown, DeletesKnown
    <2>8. \A s \in tokens \cup sockets : s.user \in Users /\ s.of \in 1..born
      BY DEF IndInv, TypeOK, SessionsKnown, Sessions
    <2>9. \A s \in tokens \cup sockets : s.of # account'[s.user] => s.of # account[s.user]
      BY <1>1, <1>3, <2>1, <2>8
    <2>10. OrphansAreLate'
      BY <1>2, <2>9 DEF IndInv, OrphansAreLate, Orphan
    <2> QED
      BY <2>5, <2>6, <2>7, <2>10 DEF IndInv
  <1>4. CASE account[u] # 0
    <2>1. UNCHANGED <<account, born>> /\ work' = [work EXCEPT ![t] = Free]
      BY <1>4 DEF CreateUser
    <2> QED
      BY <1>1, <1>2, <2>1, SessionAssumption
      DEF IndInv, TypeOK, IssuesKnown, SessionsKnown, DeletesKnown, OrphansAreLate, Orphan,
          Work, Free
  <1> QED
    BY <1>3, <1>4

LEMMA IssueTokenInd ==
    ASSUME IndInv, NEW t \in Threads, IssueToken(t)
    PROVE  IndInv'
  <1> DEFINE s == [id |-> issued + 1, user |-> work[t].user, of |-> work[t].of,
                   late |-> account[work[t].user] # work[t].of]
  <1>1. /\ work[t].user \in Users /\ work[t].of \in 1..born /\ born \in 0..MaxAccount
        /\ issued \in Nat /\ issued < MaxToken /\ MaxToken \in Nat
        /\ work \in [Threads -> Work]
    BY SessionAssumption DEF IndInv, TypeOK, IssuesKnown, IssueToken
  <1>2. /\ tokens' = tokens \cup {s} /\ issued' = issued + 1
        /\ work' = [work EXCEPT ![t] = Free]
        /\ UNCHANGED <<account, born, sockets, deletes>>
    BY DEF IssueToken
  <1>3. s \in Sessions /\ s.id = issued + 1 /\ s.user = work[t].user /\ s.of = work[t].of
    BY <1>1, SessionAssumption DEF Sessions
  <1>4. s.of # account[s.user] => s.late
    OBVIOUS
  <1> HIDE DEF s
  <1>5. \A r \in tokens \cup sockets : r.id \in Nat /\ r.id <= issued
    BY DEF IndInv, TypeOK, Sessions
  <1>6. \A r, q \in tokens' \cup sockets' : r.id <= issued' /\ (r.id = q.id => r = q)
    BY <1>1, <1>2, <1>3, <1>5 DEF IndInv, TypeOK
  <1>7. work' \in [Threads -> Work]
    <2>1. Free \in Work
      BY SessionAssumption DEF Free, Work
    <2> QED
      BY <1>1, <1>2, <2>1
  <1>8. TypeOK'
    BY <1>1, <1>2, <1>3, <1>6, <1>7 DEF IndInv, TypeOK
  <1>9. IssuesKnown' /\ SessionsKnown' /\ DeletesKnown'
    BY <1>1, <1>2, <1>3 DEF IndInv, IssuesKnown, SessionsKnown, DeletesKnown, Free
  <1>10. OrphansAreLate'
    <2>1. \A r \in tokens \cup sockets : Orphan(r)' => r.late
      BY <1>2 DEF IndInv, OrphansAreLate, Orphan
    <2>2. s.of # account'[s.user] => s.late
      BY <1>2, <1>4, Zenon
    <2>3. ASSUME NEW r \in tokens' \cup sockets', Orphan(r)' PROVE r.late
      <3>1. CASE r = s
        <4>1. s.of # account'[s.user]
          BY <2>3, <3>1, Zenon DEF Orphan
        <4> QED
          BY <2>2, <3>1, <4>1, Zenon
      <3>2. CASE r # s
        BY <1>2, <2>1, <2>3, <3>2, Zenon
      <3> QED
        BY <3>1, <3>2
    <2> QED
      BY <2>3, Zenon DEF OrphansAreLate
  <1> QED
    BY <1>8, <1>9, <1>10 DEF IndInv

-----------------------------------------------------------------------------
(* Sessions come to be, end, and are purged.                               *)

LEMMA SessionStepInd ==
    ASSUME IndInv,
           \/ \E s \in tokens : Ends(s) \/ Connect(s)
           \/ \E s \in sockets : Disconnect(s)
    PROVE  IndInv'
  <1>1. /\ tokens' \cup sockets' \subseteq tokens \cup sockets
        /\ UNCHANGED <<account, born, issued, work, deletes>>
    BY DEF Ends, Connect, Disconnect
  <1>2. tokens' \subseteq Sessions /\ sockets' \subseteq Sessions
    BY <1>1 DEF IndInv, TypeOK
  <1>3. TypeOK'
    BY <1>1, <1>2 DEF IndInv, TypeOK
  <1> QED
    BY <1>1, <1>3 DEF IndInv, IssuesKnown, SessionsKnown, DeletesKnown, OrphansAreLate, Orphan

LEMMA DeleteRequestInd ==
    ASSUME IndInv, NEW d \in Deleters, NEW s \in tokens, DeleteRequest(d, s)
    PROVE  IndInv'
  <1>1. s.user \in Users
    BY DEF IndInv, TypeOK, Sessions
  <1>2. /\ deletes[d] = NoDelete
        /\ deletes' = [deletes EXCEPT ![d] = [pc |-> "delete", user |-> s.user]]
        /\ UNCHANGED <<account, born, tokens, issued, sockets, work>>
    BY DEF DeleteRequest
  <1>3. TypeOK' /\ DeletesKnown'
    BY <1>1, <1>2 DEF IndInv, TypeOK, DeletesKnown, Deletes
  <1>4. \A e \in Deleters : deletes[e].pc = "purge" => deletes'[e] = deletes[e]
    BY <1>2 DEF NoDelete, IndInv, TypeOK
  <1>5. OrphansAreLate'
    BY <1>2, <1>4 DEF IndInv, OrphansAreLate, Orphan
  <1> QED
    BY <1>2, <1>3, <1>5 DEF IndInv, IssuesKnown, SessionsKnown

LEMMA DeleteUserInd ==
    ASSUME IndInv, NEW d \in Deleters, DeleteUser(d)
    PROVE  IndInv'
  <1> DEFINE u == deletes[d].user
  <1>1. /\ u \in Users /\ deletes \in [Deleters -> Deletes]
        /\ account \in [Users -> 0..born] /\ born \in Nat
    BY SessionAssumption DEF IndInv, TypeOK, DeletesKnown, DeleteUser
  <1>2. /\ account' = [account EXCEPT ![u] = 0]
        /\ deletes' = [deletes EXCEPT ![d] = [@ EXCEPT !.pc = "purge"]]
        /\ deletes[d].pc = "delete"
        /\ UNCHANGED <<born, tokens, issued, sockets, work>>
    BY DEF DeleteUser
  <1>3. deletes'[d].pc = "purge" /\ deletes'[d].user = u
    BY <1>1, <1>2 DEF Deletes
  <1>4. \A e \in Deleters \ {d} : deletes'[e] = deletes[e]
    BY <1>1, <1>2
  <1>5. account' \in [Users -> 0..born] /\ deletes' \in [Deleters -> Deletes]
    BY <1>1, <1>2 DEF Deletes
  <1>6. TypeOK'
    BY <1>1, <1>2, <1>5 DEF IndInv, TypeOK
  <1>7. DeletesKnown'
    BY <1>1, <1>3, <1>4 DEF IndInv, DeletesKnown
  <1>8. ASSUME NEW s \in tokens \cup sockets, Orphan(s)' PROVE s.late
    <2>1. s.user \in Users /\ s.user # u
      BY <1>3, <1>8 DEF Orphan, IndInv, TypeOK, Sessions
    <2>2. account'[s.user] = account[s.user]
      BY <1>1, <1>2, <2>1
    <2>3. Orphan(s)
      BY <1>2, <1>4, <1>8, <2>2 DEF Orphan
    <2> QED
      BY <2>3 DEF IndInv, OrphansAreLate
  <1>9. OrphansAreLate'
    BY <1>2, <1>8 DEF OrphansAreLate
  <1> QED
    BY <1>2, <1>6, <1>7, <1>9 DEF IndInv, IssuesKnown, SessionsKnown

LEMMA DeleteFailsInd ==
    ASSUME IndInv, NEW d \in Deleters, DeleteFails(d)
    PROVE  IndInv'
  <1>1. /\ deletes[d].pc = "delete" /\ deletes' = [deletes EXCEPT ![d] = NoDelete]
        /\ UNCHANGED <<account, born, tokens, issued, sockets, work>>
        /\ deletes \in [Deleters -> Deletes]
    BY DEF DeleteFails, IndInv, TypeOK
  <1>2. \A e \in Deleters : deletes[e].pc = "purge" => deletes'[e] = deletes[e]
    BY <1>1
  <1>3. OrphansAreLate'
    BY <1>1, <1>2 DEF IndInv, OrphansAreLate, Orphan
  <1>4. TypeOK' /\ DeletesKnown'
    BY <1>1 DEF IndInv, TypeOK, DeletesKnown, Deletes, NoDelete
  <1> QED
    BY <1>1, <1>3, <1>4 DEF IndInv, IssuesKnown, SessionsKnown

LEMMA PurgeInd ==
    ASSUME IndInv, NEW d \in Deleters, Purge(d)
    PROVE  IndInv'
  <1> DEFINE u == deletes[d].user
  <1>1. /\ tokens' = tokens \ Of(u, tokens) /\ sockets' = sockets \ Of(u, sockets)
        /\ deletes' = [deletes EXCEPT ![d] = NoDelete]
        /\ UNCHANGED <<account, born, issued, work>>
        /\ deletes \in [Deleters -> Deletes]
    BY DEF Purge, IndInv, TypeOK
  <1>2. \A s \in tokens' \cup sockets' : s \in tokens \cup sockets /\ s.user # u
    BY <1>1 DEF Of
  <1>3. \A e \in Deleters \ {d} : deletes'[e] = deletes[e]
    BY <1>1
  <1>4. ASSUME NEW s \in tokens' \cup sockets', Orphan(s)' PROVE s.late
    <2>1. Orphan(s)
      BY <1>1, <1>2, <1>3, <1>4 DEF Orphan
    <2> QED
      BY <1>2, <2>1 DEF IndInv, OrphansAreLate
  <1>5. TypeOK' /\ DeletesKnown'
    <2>1. deletes' \in [Deleters -> Deletes]
      BY <1>1 DEF Deletes, NoDelete
    <2>2. tokens' \subseteq tokens /\ sockets' \subseteq sockets
      BY <1>1
    <2>3. TypeOK'
      BY <1>1, <2>1, <2>2 DEF IndInv, TypeOK
    <2> QED
      BY <1>1, <1>3, <2>3 DEF IndInv, DeletesKnown, NoDelete
  <1> QED
    BY <1>1, <1>2, <1>4, <1>5 DEF IndInv, IssuesKnown, SessionsKnown, OrphansAreLate

LEMMA RestartInd ==
    ASSUME IndInv, Restart
    PROVE  IndInv'
  BY SessionAssumption
  DEF IndInv, TypeOK, IssuesKnown, SessionsKnown, DeletesKnown, OrphansAreLate, Restart,
      Work, Deletes, Free, NoDelete

-----------------------------------------------------------------------------
LEMMA NextInd ==
    ASSUME IndInv, [Next]_vars
    PROVE  IndInv'
  <1>1. CASE Next
    BY <1>1, RegisterCheckInd, LoginReadInd, CreateUserInd, IssueTokenInd, SessionStepInd,
       DeleteRequestInd, DeleteUserInd, DeleteFailsInd, PurgeInd, RestartInd
    DEF Next
  <1>2. CASE UNCHANGED vars
    BY <1>2 DEF vars, IndInv, TypeOK, IssuesKnown, SessionsKnown, DeletesKnown,
       OrphansAreLate, Orphan
  <1> QED
    BY <1>1, <1>2

(* The inductive invariant of the relay's sessions.                        *)
THEOREM Invariance == Spec => []IndInv
  <1> QED
    BY InitInd, NextInd, PTL DEF Spec

(* Every variable of the relay's sessions stays in its domain, and no token *)
(* or account number is given out twice.                                    *)
THEOREM TypeCorrect == Spec => []TypeOK
  <1>1. IndInv => TypeOK
    BY DEF IndInv
  <1> QED
    BY <1>1, Invariance, PTL

(* delete_account leaves no token and no socket behind except those whose   *)
(* token was issued after the account had gone.                             *)
THEOREM OnlyLateSessionsOutliveAccounts == Spec => []OrphansAreLate
  <1>1. IndInv => OrphansAreLate
    BY DEF IndInv
  <1> QED
    BY <1>1, Invariance, PTL

-----------------------------------------------------------------------------
(* Account.                                                                *)

\* Keys that are not only in some tab's memory, or whose loss is accounted for
Kept == files \cup {vault, 0} \cup forfeit

Forms == [st : Stages, flow : Flows, id : Ids \cup {0}, saw : Ids \cup {0},
          at : Relays, reseal : BOOLEAN]

\* The stage a form has reached fits the flow; only the identity that an older
\* version made is sealed anew.
Fits(f) == /\ f.st \in {"replace?", "registering"} => f.flow = "create"
           /\ f.st \in {"keys", "enroll?"} => f.flow \in {"unlock", "import"}
           /\ f.st # "out" => f.flow # "none"
           /\ f.flow = "create" => ~f.reseal
           /\ f.reseal => f.id = 1

\* An identity that was unlocked or imported stays where it came from, unless
\* it is given up; the vault that a new one is to replace was given up.
Backed(f, kept, lost) ==
    /\ f.flow \in {"unlock", "import"} => f.id \in kept
    /\ f.flow = "create" /\ f.st # "replace?" => f.saw \in lost \cup {0}

FormsOK == tab \in [Tabs -> Forms] /\ \A t \in Tabs : Fits(tab[t]) /\ Backed(tab[t], Kept, forfeit)

AccountIndInv == AccountTypeOK /\ FormsOK /\ KeysAreSomewhere

-----------------------------------------------------------------------------
(* Steps that leave the vault and the relays alone: one form moves.        *)

LEMMA OutFits == Out \in Forms /\ Fits(Out) /\ \A kept, lost : Backed(Out, kept, lost)
  BY AccountAssumption DEF Out, Forms, Stages, Flows, Fits, Backed

LEMMA AccountInitInd == AccountInit => AccountIndInv
  <1> SUFFICES ASSUME AccountInit PROVE AccountIndInv
    OBVIOUS
  <1>1. 1 \in Ids
    BY AccountAssumption DEF Ids
  <1>2. FormsOK
    BY OutFits DEF AccountInit, FormsOK
  <1>3. AccountTypeOK
    BY <1>1, <1>2, AccountAssumption DEF AccountInit, AccountTypeOK, Forms, FormsOK, Fits
  <1>4. KeysAreSomewhere
    BY DEF AccountInit, KeysAreSomewhere
  <1> QED
    BY <1>2, <1>3, <1>4 DEF AccountIndInv

\* What one form does is enough to see, if all that was kept is kept still.
LEMMA FormMoves ==
    ASSUME AccountIndInv, NEW t \in Tabs, NEW f \in Forms, To(t, f),
           Fits(f), Backed(f, Kept', forfeit'), Kept \subseteq Kept', forfeit \subseteq forfeit'
    PROVE  FormsOK'
  <1>1. tab' \in [Tabs -> Forms] /\ tab'[t] = f /\ \A u \in Tabs \ {t} : tab'[u] = tab[u]
    BY DEF AccountIndInv, FormsOK, To
  <1>2. \A u \in Tabs \ {t} : Fits(tab'[u]) /\ Backed(tab'[u], Kept', forfeit')
    BY <1>1 DEF AccountIndInv, FormsOK, Backed
  <1>3. \A u \in Tabs : Fits(tab'[u]) /\ Backed(tab'[u], Kept', forfeit')
    BY <1>1, <1>2
  <1> QED
    BY <1>1, <1>3 DEF FormsOK

LEMMA FormSteps ==
    ASSUME AccountIndInv, NEW t \in Tabs, NEW f \in Forms, To(t, f), Fits(f), Backed(f, Kept', forfeit'),
           UNCHANGED <<deviceVars, holder>>, made' \in Ids,
           forfeit \subseteq forfeit', forfeit' \subseteq Ids \cup {0},
           tab[t].st = "storing" => tab[t].id \in Kept'
    PROVE  AccountIndInv'
  <1>1. Kept \subseteq Kept'
    BY DEF Kept, deviceVars
  <1>2. FormsOK'
    BY <1>1, FormMoves
  <1>3. AccountTypeOK'
    BY <1>2 DEF AccountIndInv, AccountTypeOK, FormsOK, Forms, Fits, deviceVars
  <1>4. \A r \in Relays : holder[r] \in Kept' \cup {tab[u].id : u \in {v \in Tabs \ {t} : tab[v].st = "storing"}}
    BY <1>1 DEF AccountIndInv, KeysAreSomewhere, Kept
  <1>5. \A u \in Tabs \ {t} : tab'[u] = tab[u]
    BY DEF AccountIndInv, FormsOK, To
  <1>6. KeysAreSomewhere'
    BY <1>4, <1>5 DEF KeysAreSomewhere, Kept, deviceVars
  <1> QED
    BY <1>2, <1>3, <1>6 DEF AccountIndInv

LEMMA StartCreateInd ==
    ASSUME AccountIndInv, NEW t \in Tabs, StartCreate(t)
    PROVE  AccountIndInv'
  <1> DEFINE f == [Out EXCEPT !.st = IF vault # 0 THEN "replace?" ELSE "probing",
                             !.flow = "create", !.saw = vault]
  <1>1. f \in Forms /\ Fits(f) /\ Backed(f, Kept', forfeit')
    BY AccountAssumption
    DEF AccountIndInv, AccountTypeOK, StartCreate, Out, Forms, Stages, Flows, Fits, Backed
  <1>2. /\ To(t, f) /\ UNCHANGED <<deviceVars, holder>> /\ UNCHANGED <<made, forfeit>>
        /\ tab[t].st # "storing"
    BY DEF StartCreate, Out
  <1> HIDE DEF f
  <1> QED
    BY <1>1, <1>2, FormSteps DEF AccountIndInv, AccountTypeOK

LEMMA ReplaceInd ==
    ASSUME AccountIndInv, NEW t \in Tabs, NEW yes \in BOOLEAN, Replace(t, yes)
    PROVE  AccountIndInv'
  <1> DEFINE f == IF yes THEN [tab[t] EXCEPT !.st = "probing"] ELSE Out
  <1>1. tab[t] \in Forms /\ Fits(tab[t]) /\ tab[t].st = "replace?"
    BY DEF AccountIndInv, FormsOK, Replace
  <1>2. /\ To(t, f) /\ UNCHANGED <<deviceVars, holder>> /\ UNCHANGED made
        /\ forfeit \subseteq forfeit' /\ (yes => tab[t].saw \in forfeit')
        /\ forfeit' \subseteq forfeit \cup {tab[t].saw}
    BY DEF Replace
  <1>3. forfeit' \subseteq Ids \cup {0}
    BY <1>1, <1>2 DEF AccountIndInv, AccountTypeOK, Forms
  <1>4. f \in Forms /\ Fits(f) /\ Backed(f, Kept', forfeit')
    BY <1>1, <1>2, OutFits DEF Forms, Stages, Fits, Backed
  <1> HIDE DEF f
  <1> QED
    BY <1>1, <1>2, <1>3, <1>4, FormSteps DEF AccountIndInv, AccountTypeOK

LEMMA StartUnlockInd ==
    ASSUME AccountIndInv, NEW t \in Tabs, StartUnlock(t)
    PROVE  AccountIndInv'
  <1> DEFINE f == [Out EXCEPT !.st = "probing", !.flow = "unlock", !.id = vault, !.reseal = weak]
  <1>1. f \in Forms /\ Fits(f) /\ Backed(f, Kept', forfeit')
    BY AccountAssumption
    DEF AccountIndInv, AccountTypeOK, StartUnlock, Out, Forms, Stages, Flows, Fits, Backed, Kept, deviceVars
  <1>2. /\ To(t, f) /\ UNCHANGED <<deviceVars, holder>> /\ UNCHANGED <<made, forfeit>>
        /\ tab[t].st # "storing"
    BY DEF StartUnlock, Out
  <1> HIDE DEF f
  <1> QED
    BY <1>1, <1>2, FormSteps DEF AccountIndInv, AccountTypeOK

LEMMA StartImportInd ==
    ASSUME AccountIndInv, NEW t \in Tabs, NEW i \in Ids, StartImport(t, i)
    PROVE  AccountIndInv'
  <1> DEFINE f == [Out EXCEPT !.st = "probing", !.flow = "import", !.id = i, !.reseal = (i = 1)]
  <1>1. f \in Forms /\ Fits(f) /\ Backed(f, Kept', forfeit')
    BY AccountAssumption
    DEF StartImport, Out, Forms, Stages, Flows, Fits, Backed, Kept, deviceVars
  <1>2. /\ To(t, f) /\ UNCHANGED <<deviceVars, holder>> /\ UNCHANGED <<made, forfeit>>
        /\ tab[t].st # "storing"
    BY DEF StartImport, Out
  <1> HIDE DEF f
  <1> QED
    BY <1>1, <1>2, FormSteps DEF AccountIndInv, AccountTypeOK

LEMMA ProbeInd ==
    ASSUME AccountIndInv, NEW t \in Tabs, Probe(t)
    PROVE  AccountIndInv'
  <1>1. /\ tab[t] \in Forms /\ Fits(tab[t]) /\ Backed(tab[t], Kept, forfeit) /\ made \in Ids
        /\ tab[t].st = "probing" /\ UNCHANGED <<deviceVars, holder, forfeit>> /\ Kept' = Kept
    BY DEF AccountIndInv, AccountTypeOK, FormsOK, Probe, Kept, deviceVars
  <1>2. CASE tab[t].flow = "create"
    <2> DEFINE f == [tab[t] EXCEPT !.st = "registering", !.id = made + 1]
    <2>1. To(t, f) /\ made' = made + 1 /\ made + 1 \in Ids
      BY <1>1, <1>2, AccountAssumption DEF Probe, Ids
    <2>2. f \in Forms /\ Fits(f) /\ Backed(f, Kept', forfeit')
      BY <1>1, <1>2, <2>1 DEF Forms, Stages, Fits, Backed
    <2> HIDE DEF f
    <2> QED
      BY <1>1, <2>1, <2>2, FormSteps DEF AccountIndInv, AccountTypeOK
  <1>3. CASE tab[t].flow # "create"
    <2> DEFINE f == [tab[t] EXCEPT !.st = "keys"]
    <2>1. To(t, f) /\ made' = made
      BY <1>3 DEF Probe
    <2>2. f \in Forms /\ Fits(f) /\ Backed(f, Kept', forfeit')
      BY <1>1, <1>3 DEF Forms, Stages, Flows, Fits, Backed
    <2> HIDE DEF f
    <2> QED
      BY <1>1, <2>1, <2>2, FormSteps DEF AccountIndInv, AccountTypeOK
  <1> QED
    BY <1>2, <1>3

\* Fails, Decline and Use, which may only end what a form was about
LEMMA EndInd ==
    ASSUME AccountIndInv, NEW t \in Tabs, To(t, Out), UNCHANGED <<deviceVars, holder, made, forfeit>>,
           tab[t].st # "storing"
    PROVE  AccountIndInv'
  BY OutFits, FormSteps DEF AccountIndInv, AccountTypeOK

LEMMA FailsInd == ASSUME AccountIndInv, NEW t \in Tabs, Fails(t) PROVE AccountIndInv'
  BY EndInd DEF Fails

LEMMA DeclineInd == ASSUME AccountIndInv, NEW t \in Tabs, Decline(t) PROVE AccountIndInv'
  BY EndInd DEF Decline

LEMMA UseInd == ASSUME AccountIndInv, NEW t \in Tabs, Use(t) PROVE AccountIndInv'
  <1> DEFINE f == [tab[t] EXCEPT !.at = server]
  <1>1. /\ tab[t] \in Forms /\ Fits(tab[t]) /\ Backed(tab[t], Kept, forfeit) /\ tab[t].st = "in"
        /\ UNCHANGED <<deviceVars, holder, made, forfeit>> /\ Kept' = Kept
        /\ To(t, Out) \/ To(t, f)
    BY DEF AccountIndInv, FormsOK, Use, Kept, deviceVars
  <1>2. f \in Forms /\ Fits(f) /\ Backed(f, Kept', forfeit')
    BY <1>1 DEF AccountIndInv, AccountTypeOK, Forms, Fits, Backed
  <1> HIDE DEF f
  <1>3. CASE To(t, f)
    BY <1>1, <1>2, <1>3, FormSteps DEF AccountIndInv, AccountTypeOK
  <1> QED
    BY <1>1, <1>3, EndInd

LEMMA LoginInd ==
    ASSUME AccountIndInv, NEW t \in Tabs, Login(t)
    PROVE  AccountIndInv'
  <1> DEFINE s == IF holder[server] = tab[t].id THEN "storing" ELSE "enroll?"
             f == [tab[t] EXCEPT !.at = server, !.st = s]
  <1>1. /\ tab[t] \in Forms /\ Fits(tab[t]) /\ Backed(tab[t], Kept, forfeit) /\ tab[t].st = "keys"
        /\ UNCHANGED <<deviceVars, holder, made, forfeit>> /\ Kept' = Kept /\ To(t, f)
    BY DEF AccountIndInv, FormsOK, Login, Kept, deviceVars
  <1>2. f \in Forms /\ Fits(f) /\ Backed(f, Kept', forfeit')
    BY <1>1 DEF AccountIndInv, AccountTypeOK, Forms, Stages, Fits, Backed
  <1> HIDE DEF f
  <1> QED
    BY <1>1, <1>2, FormSteps DEF AccountIndInv, AccountTypeOK

\* The keys of a new identity that is registered and not stored are lost.
LEMMA LeaveInd ==
    ASSUME AccountIndInv, NEW t \in Tabs, Leave(t)
    PROVE  AccountIndInv'
  <1>1. /\ tab[t] \in Forms /\ Fits(tab[t]) /\ Backed(tab[t], Kept, forfeit)
        /\ UNCHANGED <<deviceVars, holder>> /\ UNCHANGED made /\ To(t, Out)
        /\ forfeit \subseteq forfeit' /\ forfeit' \subseteq forfeit \cup {tab[t].id}
        /\ (tab[t].st = "storing" /\ tab[t].flow = "create" => tab[t].id \in forfeit')
    BY DEF AccountIndInv, FormsOK, Leave
  <1>2. forfeit' \subseteq Ids \cup {0}
    BY <1>1 DEF AccountIndInv, AccountTypeOK, Forms
  <1>3. tab[t].st = "storing" => tab[t].id \in Kept'
    BY <1>1 DEF Forms, Flows, Fits, Backed, Kept, deviceVars
  <1> QED
    BY <1>1, <1>2, <1>3, OutFits, FormSteps DEF AccountIndInv, AccountTypeOK

-----------------------------------------------------------------------------
(* Steps at a relay and in the vault.                                      *)

\* register and enroll
LEMMA RegistersInd ==
    ASSUME AccountIndInv, NEW t \in Tabs, NEW lost \in BOOLEAN, Registers(t, lost),
           tab[t].st \in {"registering", "enroll?"}
    PROVE  AccountIndInv'
  <1> DEFINE f == IF lost \/ holder[server] # 0 THEN Out
                  ELSE [tab[t] EXCEPT !.st = "storing", !.at = server]
  <1>1. /\ tab[t] \in Forms /\ Fits(tab[t]) /\ Backed(tab[t], Kept, forfeit)
        /\ UNCHANGED deviceVars /\ UNCHANGED made /\ To(t, f)
        /\ forfeit \subseteq forfeit' /\ forfeit' \subseteq forfeit \cup {tab[t].id}
        /\ (lost /\ tab[t].flow = "create" => tab[t].id \in forfeit')
        /\ holder' = [holder EXCEPT ![server] = IF holder[server] = 0 THEN tab[t].id ELSE holder[server]]
    BY DEF AccountIndInv, FormsOK, Registers
  <1>2. Kept \subseteq Kept'
    BY <1>1 DEF Kept, deviceVars
  <1>3. f \in Forms /\ Fits(f) /\ Backed(f, Kept', forfeit')
    <2> DEFINE g == [tab[t] EXCEPT !.st = "storing", !.at = server]
    <2>1. g \in Forms /\ Fits(g) /\ Backed(g, Kept', forfeit')
      BY <1>1, <1>2 DEF AccountIndInv, AccountTypeOK, Forms, Stages, Fits, Backed
    <2> QED
      BY <2>1, OutFits
  <1>4. FormsOK'
    <2> HIDE DEF f
    <2> QED
      BY <1>1, <1>2, <1>3, FormMoves
  <1>5. holder' \in [Relays -> Ids \cup {0}] /\ forfeit' \subseteq Ids \cup {0}
    BY <1>1 DEF AccountIndInv, AccountTypeOK, Forms
  <1>6. AccountTypeOK'
    <2> HIDE DEF f
    <2> QED
      BY <1>1, <1>4, <1>5 DEF AccountIndInv, AccountTypeOK, FormsOK, Forms, Fits, deviceVars
  <1>7. \A u \in Tabs \ {t} : tab'[u] = tab[u]
    BY <1>1 DEF AccountIndInv, FormsOK, To
  <1>8. tab'[t] = f
    BY <1>1 DEF AccountIndInv, FormsOK, To
  <1>9. holder[server] = 0 => \/ tab[t].id \in Kept'
                              \/ tab'[t].st = "storing" /\ tab'[t].id = tab[t].id
    BY <1>1, <1>2, <1>8 DEF Forms, Flows, Fits, Backed, Kept
  <1>10. \A r \in Relays : holder[r] \in Kept \cup {tab[u].id : u \in {v \in Tabs \ {t} : tab[v].st = "storing"}}
    BY DEF AccountIndInv, KeysAreSomewhere, Kept
  <1>11. \A r \in Relays : holder[r] \in Kept' \cup {tab'[u].id : u \in {v \in Tabs : tab'[v].st = "storing"}}
    BY <1>2, <1>7, <1>10
  <1>12. ASSUME NEW r \in Relays
         PROVE  holder'[r] \in Kept' \cup {tab'[u].id : u \in {v \in Tabs : tab'[v].st = "storing"}}
    <2>1. holder'[r] = holder[r] \/ (holder[server] = 0 /\ holder'[r] = tab[t].id)
      BY <1>1 DEF AccountIndInv, AccountTypeOK
    <2>2. CASE holder[server] = 0 /\ holder'[r] = tab[t].id
      <3> HIDE DEF f
      <3> QED
        BY <1>9, <2>2
    <2> QED
      BY <1>11, <2>1, <2>2
  <1>13. KeysAreSomewhere'
    BY <1>12 DEF KeysAreSomewhere, Kept
  <1> QED
    BY <1>4, <1>6, <1>13 DEF AccountIndInv

\* A tab puts its identity into the vault: what was there is kept elsewhere, was
\* given up, or was overwritten unasked.
LEMMA Unasks ==
    ASSUME AccountIndInv, NEW t \in Tabs, tab[t].st \in {"storing", "in"},
           vault' = tab[t].id, files' = files, forfeit' = forfeit \cup Unasked(t)
    PROVE  Kept \subseteq Kept' /\ forfeit \subseteq forfeit' /\ forfeit' \subseteq Ids \cup {0}
  <1>1. Backed(tab[t], Kept, forfeit)
    BY DEF AccountIndInv, FormsOK
  <1>2. vault \in {tab[t].id, 0} \cup forfeit \cup Unasked(t)
    BY <1>1 DEF Unasked, Backed
  <1>3. Unasked(t) \subseteq Ids \cup {0}
    BY DEF Unasked, AccountIndInv, AccountTypeOK
  <1> QED
    BY <1>2, <1>3 DEF Kept, AccountIndInv, AccountTypeOK

\* What a form that stored its identity, or ended, still shows at the relays
LEMMA Settles ==
    ASSUME AccountIndInv, NEW t \in Tabs, NEW f \in Forms, To(t, f), UNCHANGED holder,
           FormsOK', AccountTypeOK', Kept \subseteq Kept', tab[t].st = "storing" => tab[t].id \in Kept'
    PROVE  AccountIndInv'
  <1>1. \A u \in Tabs \ {t} : tab'[u] = tab[u]
    BY DEF AccountIndInv, FormsOK, To
  <1>2. \A r \in Relays : holder[r] \in Kept' \cup {tab[u].id : u \in {v \in Tabs \ {t} : tab[v].st = "storing"}}
    BY DEF AccountIndInv, KeysAreSomewhere, Kept
  <1>3. \A r \in Relays : holder'[r] \in Kept' \cup {tab'[u].id : u \in {v \in Tabs : tab'[v].st = "storing"}}
    BY <1>1, <1>2
  <1>4. KeysAreSomewhere'
    BY <1>3 DEF KeysAreSomewhere, Kept
  <1> QED
    BY <1>4 DEF AccountIndInv

\* A stored vault is weak only if it is the older version's.
LEMMA Stores ==
    ASSUME AccountIndInv, NEW t \in Tabs, NEW f \in Forms, To(t, f), Fits(f), Backed(f, Kept', forfeit'),
           tab[t].st \in {"storing", "in"}, vault' = tab[t].id, weak' \in BOOLEAN,
           weak' => tab[t].reseal, forfeit' = forfeit \cup Unasked(t),
           UNCHANGED <<server, files, holder, made>>
    PROVE  AccountIndInv'
  <1>1. Kept \subseteq Kept' /\ forfeit \subseteq forfeit' /\ forfeit' \subseteq Ids \cup {0}
    BY Unasks
  <1>2. FormsOK'
    BY <1>1, FormMoves
  <1>3. tab[t].id \in Ids \cup {0} /\ (tab[t].reseal => tab[t].id = 1)
    BY DEF AccountIndInv, FormsOK, Forms, Fits
  <1>4. AccountTypeOK'
    BY <1>1, <1>2, <1>3 DEF AccountIndInv, AccountTypeOK, FormsOK, Forms, Fits
  <1>5. tab[t].id \in Kept'
    BY DEF Kept
  <1> QED
    BY <1>1, <1>2, <1>4, <1>5, Settles

LEMMA StoreInd ==
    ASSUME AccountIndInv, NEW t \in Tabs, Store(t)
    PROVE  AccountIndInv'
  <1> DEFINE f == [tab[t] EXCEPT !.st = "in"]
  <1>1. /\ tab[t] \in Forms /\ Fits(tab[t]) /\ Backed(tab[t], Kept, forfeit)
        /\ tab[t].st = "storing" /\ To(t, f) /\ UNCHANGED <<server, files, holder, made>>
    BY DEF AccountIndInv, FormsOK, Store
  <1>2. f \in Forms /\ Fits(f) /\ \A kept, lost : Backed(tab[t], kept, lost) => Backed(f, kept, lost)
    BY <1>1 DEF Forms, Stages, Fits, Backed
  <1>3. CASE tab[t].flow = "unlock"
    <2>1. UNCHANGED <<vault, weak, forfeit>> /\ Kept' = Kept
      BY <1>1, <1>3 DEF Store, Kept
    <2>2. tab[t].id \in Kept'
      BY <1>1, <1>3, <2>1 DEF Backed
    <2> HIDE DEF f
    <2> QED
      BY <1>1, <1>2, <2>1, <2>2, FormSteps DEF AccountIndInv, AccountTypeOK, deviceVars
  <1>4. CASE tab[t].flow # "unlock"
    <2>1. vault' = tab[t].id /\ weak' = tab[t].reseal /\ forfeit' = forfeit \cup Unasked(t)
      BY <1>4 DEF Store
    <2>2. weak' \in BOOLEAN
      BY <1>1, <2>1 DEF Forms
    <2>3. Kept \subseteq Kept' /\ forfeit \subseteq forfeit'
      BY <1>1, <2>1, Unasks
    <2>4. Backed(tab[t], Kept', forfeit')
      BY <1>1, <2>3 DEF Backed
    <2> HIDE DEF f
    <2> QED
      BY <1>1, <1>2, <2>1, <2>2, <2>4, Stores
  <1> QED
    BY <1>3, <1>4

LEMMA ResealInd ==
    ASSUME AccountIndInv, NEW t \in Tabs, Reseal(t)
    PROVE  AccountIndInv'
  <1> DEFINE f == [tab[t] EXCEPT !.reseal = FALSE]
  <1>1. /\ tab[t] \in Forms /\ Fits(tab[t]) /\ Backed(tab[t], Kept, forfeit)
        /\ tab[t].st = "in" /\ To(t, f) /\ UNCHANGED <<server, files, holder, made>>
        /\ vault' = tab[t].id /\ weak' = FALSE /\ forfeit' = forfeit \cup Unasked(t)
    BY DEF AccountIndInv, FormsOK, Reseal
  <1>2. f \in Forms /\ Fits(f) /\ \A kept, lost : Backed(tab[t], kept, lost) => Backed(f, kept, lost)
    BY <1>1 DEF Forms, Fits, Backed
  <1>3. Kept \subseteq Kept' /\ forfeit \subseteq forfeit'
    BY <1>1, Unasks
  <1>4. Backed(tab[t], Kept', forfeit')
    BY <1>1, <1>3 DEF Backed
  <1> HIDE DEF f
  <1> QED
    BY <1>1, <1>2, <1>4, Stores

LEMMA ExportInd ==
    ASSUME AccountIndInv, NEW t \in Tabs, Export(t)
    PROVE  AccountIndInv'
  <1>1. /\ vault # 0 /\ files' = files \cup {vault} /\ Kept' = Kept
        /\ UNCHANGED <<vault, weak, server, holder, made, tab, forfeit>>
    BY DEF Export, Kept
  <1>2. AccountTypeOK'
    BY <1>1 DEF AccountIndInv, AccountTypeOK
  <1>3. FormsOK'
    BY <1>1 DEF AccountIndInv, FormsOK
  <1>4. KeysAreSomewhere'
    BY <1>1 DEF AccountIndInv, KeysAreSomewhere
  <1> QED
    BY <1>2, <1>3, <1>4 DEF AccountIndInv

LEMMA DeleteInd ==
    ASSUME AccountIndInv, NEW t \in Tabs, NEW told \in BOOLEAN, Delete(t, told)
    PROVE  AccountIndInv'
  <1>1. /\ tab[t] \in Forms /\ tab[t].st = "in" /\ To(t, Out)
        /\ vault' = 0 /\ weak' = FALSE /\ server' = Default
        /\ forfeit' = forfeit \cup {vault, tab[t].id} /\ UNCHANGED <<files, made>>
        /\ holder' \in [Relays -> Ids \cup {0}] /\ \A r \in Relays : holder'[r] \in {holder[r], 0}
    BY DEF AccountIndInv, AccountTypeOK, FormsOK, Delete
  <1>2. Kept \subseteq Kept' /\ forfeit \subseteq forfeit'
    BY <1>1 DEF Kept
  <1>3. FormsOK'
    BY <1>1, <1>2, OutFits, FormMoves
  <1>4. forfeit' \subseteq Ids \cup {0}
    BY <1>1 DEF AccountIndInv, AccountTypeOK, Forms
  <1>5. AccountTypeOK'
    BY <1>1, <1>3, <1>4, AccountAssumption DEF AccountIndInv, AccountTypeOK, FormsOK, Forms, Fits
  <1>6. \A u \in Tabs \ {t} : tab'[u] = tab[u]
    BY <1>1 DEF AccountIndInv, FormsOK, To
  <1>7. \A r \in Relays : holder[r] \in Kept' \cup {tab[u].id : u \in {v \in Tabs \ {t} : tab[v].st = "storing"}}
    BY <1>1, <1>2 DEF AccountIndInv, KeysAreSomewhere, Kept
  <1>8. \A r \in Relays : holder[r] \in Kept' \cup {tab'[u].id : u \in {v \in Tabs : tab'[v].st = "storing"}}
    BY <1>6, <1>7
  <1>9. KeysAreSomewhere'
    BY <1>1, <1>8 DEF KeysAreSomewhere, Kept
  <1> QED
    BY <1>3, <1>5, <1>9 DEF AccountIndInv

LEMMA SwitchInd ==
    ASSUME AccountIndInv, NEW t \in Tabs, NEW r \in Relays, Switch(t, r)
    PROVE  AccountIndInv'
  <1> DEFINE f == IF tab[t].st = "in" THEN Out ELSE tab[t]
  <1>1. /\ tab[t] \in Forms /\ Fits(tab[t]) /\ Backed(tab[t], Kept, forfeit)
        /\ server' = r /\ To(t, f) /\ UNCHANGED <<vault, weak, files, holder, made, forfeit>>
        /\ Kept' = Kept
    BY DEF AccountIndInv, FormsOK, Switch, Kept
  <1>2. f \in Forms /\ Fits(f) /\ Backed(f, Kept', forfeit')
    BY <1>1, OutFits
  <1> HIDE DEF f
  <1>3. FormsOK'
    BY <1>1, <1>2, FormMoves
  <1>4. AccountTypeOK'
    BY <1>1, <1>3 DEF AccountIndInv, AccountTypeOK, FormsOK, Forms, Fits
  <1>5. CASE tab[t].st = "storing"
    <2>1. tab' = tab
      BY <1>1, <1>5 DEF f, To, AccountIndInv, FormsOK
    <2>2. KeysAreSomewhere'
      BY <1>1, <2>1 DEF AccountIndInv, KeysAreSomewhere
    <2> QED
      BY <1>3, <1>4, <2>2 DEF AccountIndInv
  <1>6. CASE tab[t].st # "storing"
    BY <1>1, <1>2, <1>3, <1>4, <1>6, Settles
  <1> QED
    BY <1>5, <1>6

LEMMA AccountStepInd ==
    ASSUME AccountIndInv, [AccountNext]_accountVars
    PROVE  AccountIndInv'
  <1>1. CASE UNCHANGED accountVars
    <2>1. AccountTypeOK'
      BY <1>1 DEF AccountIndInv, AccountTypeOK, accountVars
    <2>2. FormsOK'
      BY <1>1 DEF AccountIndInv, FormsOK, Kept, accountVars
    <2>3. KeysAreSomewhere'
      BY <1>1 DEF AccountIndInv, KeysAreSomewhere, accountVars
    <2> QED
      BY <2>1, <2>2, <2>3 DEF AccountIndInv
  <1>2. ASSUME NEW t \in Tabs, NEW b \in BOOLEAN, Enroll(t, b) \/ Register(t, b)
        PROVE  AccountIndInv'
    BY <1>2, RegistersInd DEF Enroll, Register
  <1> QED
    BY <1>1, <1>2, StartCreateInd, StartUnlockInd, StartImportInd, ProbeInd, FailsInd, LoginInd,
       DeclineInd, ReplaceInd, DeleteInd, StoreInd, ResealInd, ExportInd, UseInd, LeaveInd,
       SwitchInd
    DEF AccountNext

LEMMA AccountInvariance == AccountSpec => []AccountIndInv
  BY AccountInitInd, AccountStepInd, PTL DEF AccountSpec

\* The type invariant: every variable has its type, and only what an older
\* version of the client sealed is weak.
THEOREM Typing == AccountSpec => []AccountTypeOK
  BY AccountInvariance, PTL DEF AccountIndInv

\* No relay knows an identity whose keys are nowhere, unless the user gave them
\* up, was cut off, or had them overwritten.
THEOREM KeysKept == AccountSpec => []KeysAreSomewhere
  BY AccountInvariance, PTL DEF AccountIndInv

-----------------------------------------------------------------------------
(* Presence. What is owed to every client, dot by dot:                     *)

\* What the frames of the tasks are made of.
ConnectionFrame(c, f) ==
    /\ f.pc \in {"idle", "ready", "greet", "snapshot", "bye"}
    /\ f.pc # "idle" => f.about = NameOf[c]
    /\ f.pc \in {"idle", "ready", "snapshot"} => f.to = {}

RequestFrame(f) ==
    /\ f.pc \in {"idle", "look", "deliver", "delete", "purge", "deleted"}
    /\ f.pc # "idle" => f.about \in Names
    /\ f.pc \in {"look", "deliver"} => \E m \in Names : f.todo = {m} /\ f.to \subseteq ConnsOf(m, Conns)
    /\ f.pc \in {"idle", "look", "delete", "purge"} => f.to = {}
    /\ f.pc = "delete" => f.knew \subseteq f.todo

FramesFit == /\ \A c \in Conns : ConnectionFrame(c, doing[c])
             /\ \A r \in Requests : RequestFrame(doing[r])

\* The handler of a registered connection has not come to its end.
ActiveServed == \A c \in active : doing[c].pc \in {"ready", "greet", "snapshot"}

\* What is told is true, or late.
LateKnown(f, conns) ==
    f.late \/ /\ f.pc = "deliver" => OnlineIn(f.about, conns)
              /\ Parting(f) => ~OnlineIn(f.about, conns)

LatesKnown == \A t \in Tasks : LateKnown(doing[t], active)

\* A request deletes the account n, and will tell c.
Purges(f, c, n) == f.about = n /\ f.pc \in {"purge", "deleted"} /\ Reaches(f, c)

DotsOfContacts ==
    \A c \in up, n \in Names : <<c, n>> \notin stray /\ n \in dots[c] =>
        Pair(n, NameOf[c]) \in contacts \/ \E r \in Requests : Purges(doing[r], c, n)

GoneTold ==
    \A c \in up, n \in Names : <<c, n>> \notin stray /\ n \in dots[c] /\ ~Online(n) =>
        \E t \in Tasks : TellsGone(doing[t], c, n)

\* Each connection of n has been told of to c, or somebody still will.
HereTold ==
    \A c \in up, n \in Names : \A x \in ConnsOf(n, active) :
        <<c, n>> \notin stray /\ n \notin dots[c] /\ Pair(n, NameOf[c]) \in contacts =>
            LooksFor(c, n) \/ \E t \in {x} \cup Requests : TellsHere(doing[t], c, n)

PresenceInd == /\ PresenceTypeOK /\ FramesFit /\ ActiveServed /\ LatesKnown
               /\ DotsOfContacts /\ GoneTold /\ HereTold

-----------------------------------------------------------------------------
(* Frames.                                                                 *)

\* A frame that has learned that it is late, if anything.
Same(f, g) == /\ g.pc = f.pc /\ g.about = f.about /\ g.todo = f.todo
              /\ g.to = f.to /\ g.more = f.more /\ g.knew = f.knew

\* A step of t
Turn(t) == doing' \in [Tasks -> Frames] /\ \A s \in Tasks \ {t} : Same(doing[s], doing'[s])

LEMMA RestFits == AtRest \in Frames
  BY DEF AtRest, Frames

LEMMA NoticedFits ==
    ASSUME doing \in [Tasks -> Frames], NEW conns
    PROVE  Noticed(conns) \in [Tasks -> Frames]
  BY DEF Noticed, Frames

LEMMA NoticedSame ==
    ASSUME doing \in [Tasks -> Frames], NEW conns, NEW t \in Tasks
    PROVE  Same(doing[t], Noticed(conns)[t])
  BY DEF Noticed, Frames, Same

LEMMA NoticedLate ==
    ASSUME doing \in [Tasks -> Frames], NEW conns, NEW t \in Tasks
    PROVE  Noticed(conns)[t].late = (\/ doing[t].late
                                     \/ doing[t].pc = "deliver" /\ ~OnlineIn(doing[t].about, conns)
                                     \/ Parting(doing[t]) /\ OnlineIn(doing[t].about, conns))
  BY DEF Noticed, Frames

LEMMA GoesTurn ==
    ASSUME PresenceTypeOK, NEW t \in Tasks, NEW f \in Frames, Goes(t, f)
    PROVE  Turn(t) /\ doing'[t] = f /\ \A s \in Tasks \ {t} : doing'[s] = doing[s]
  BY DEF PresenceTypeOK, Goes, Turn, Same

LEMMA NoticedTurn ==
    ASSUME PresenceTypeOK, NEW t \in Tasks, NEW f \in Frames,
           doing' = [Noticed(active') EXCEPT ![t] = f]
    PROVE  Turn(t) /\ doing'[t] = f /\ \A s \in Tasks \ {t} : doing'[s] = Noticed(active')[s]
  BY NoticedFits, NoticedSame DEF PresenceTypeOK, Turn

LEMMA FramesKept ==
    ASSUME FramesFit, NEW t \in Tasks, Turn(t),
           t \in Conns => ConnectionFrame(t, doing'[t]),
           t \in Requests => RequestFrame(doing'[t])
    PROVE  FramesFit'
  <1>1. \A c \in Conns : ConnectionFrame(c, doing'[c])
    <2> SUFFICES ASSUME NEW c \in Conns PROVE ConnectionFrame(c, doing'[c])
      OBVIOUS
    <2>1. c = t \/ Same(doing[c], doing'[c])
      BY DEF Turn, Tasks
    <2> QED BY <2>1 DEF FramesFit, Same, ConnectionFrame
  <1>2. \A r \in Requests : RequestFrame(doing'[r])
    <2> SUFFICES ASSUME NEW r \in Requests PROVE RequestFrame(doing'[r])
      OBVIOUS
    <2>1. r = t \/ Same(doing[r], doing'[r])
      BY DEF Turn, Tasks
    <2> QED BY <2>1 DEF FramesFit, Same, RequestFrame
  <1> QED BY <1>1, <1>2 DEF FramesFit

\* What is late when nobody comes or goes, and when somebody may
LEMMA LateStays ==
    ASSUME LatesKnown, active' = active, NEW t \in Tasks, LateKnown(doing'[t], active),
           \A s \in Tasks \ {t} : doing'[s] = doing[s]
    PROVE  LatesKnown'
  BY DEF LatesKnown

LEMMA NoticedKnown ==
    ASSUME doing \in [Tasks -> Frames], NEW conns, NEW t \in Tasks
    PROVE  LateKnown(Noticed(conns)[t], conns)
  BY NoticedLate, NoticedSame DEF LateKnown, Same, Parting

LEMMA LateNoticed ==
    ASSUME PresenceTypeOK, NEW t \in Tasks, LateKnown(doing'[t], active'),
           \A s \in Tasks \ {t} : doing'[s] = Noticed(active')[s]
    PROVE  LatesKnown'
  BY NoticedKnown DEF LatesKnown, PresenceTypeOK

-----------------------------------------------------------------------------
(* Steps that show nothing: what is owed stays owed.                       *)

LEMMA QuietDots ==
    ASSUME DotsOfContacts, NEW t \in Tasks, Turn(t),
           dots' = dots, stray' = stray, contacts \subseteq contacts', up' \subseteq up,
           \A c \in up', n \in Names : t \in Requests /\ Purges(doing[t], c, n) => Purges(doing'[t], c, n)
    PROVE  DotsOfContacts'
  <1> SUFFICES ASSUME NEW c \in up', NEW n \in Names, <<c, n>> \notin stray, n \in dots[c],
                      Pair(n, NameOf[c]) \notin contacts'
               PROVE  \E r \in Requests : Purges(doing'[r], c, n)
    BY DEF DotsOfContacts
  <1>1. PICK r \in Requests : Purges(doing[r], c, n)
    BY DEF DotsOfContacts
  <1>2. r = t \/ Same(doing[r], doing'[r])
    BY DEF Turn, Tasks
  <1>3. Purges(doing'[r], c, n)
    BY <1>1, <1>2 DEF Purges, Reaches, Same
  <1> QED BY <1>3

LEMMA QuietGone ==
    ASSUME PresenceTypeOK, FramesFit, ActiveServed, GoneTold, NEW t \in Tasks, Turn(t),
           dots' = dots, stray \subseteq stray', up' \subseteq up, active' \subseteq active,
           \A c \in up', n \in Names :
              <<c, n>> \notin stray /\ n \in dots[c] /\ ~Online(n)' /\ TellsGone(doing[t], c, n) =>
                 \E s \in Tasks : TellsGone(doing'[s], c, n)
    PROVE  GoneTold'
  <1> SUFFICES ASSUME NEW c \in up', NEW n \in Names, <<c, n>> \notin stray, n \in dots[c],
                      ~Online(n)'
               PROVE  \E s \in Tasks : TellsGone(doing'[s], c, n)
    BY DEF GoneTold
  <1>1. \E s \in Tasks : TellsGone(doing[s], c, n)
    <2>1. CASE ~Online(n)
      BY <2>1 DEF GoneTold
    <2>2. CASE Online(n)
      <3>1. PICK h \in active : NameOf[h] = n
        BY <2>2 DEF Online, OnlineIn, ConnsOf
      <3>2. h \in Conns /\ h \in Tasks
        BY DEF PresenceTypeOK, Tasks
      <3>3. ConnectionFrame(h, doing[h]) /\ doing[h].pc \in {"ready", "greet", "snapshot"}
        BY <3>1, <3>2 DEF FramesFit, ActiveServed
      <3> QED BY <3>1, <3>2, <3>3 DEF TellsGone, ConnectionFrame
    <2> QED BY <2>1, <2>2
  <1>2. PICK s \in Tasks : TellsGone(doing[s], c, n)
    BY <1>1
  <1>3. CASE s = t
    BY <1>2, <1>3
  <1>4. CASE s # t
    <2>1. Same(doing[s], doing'[s])
      BY <1>4 DEF Turn
    <2>2. TellsGone(doing'[s], c, n)
      BY <1>2, <2>1 DEF TellsGone, Reaches, Same
    <2> QED BY <2>2
  <1> QED BY <1>3, <1>4

\* Somebody owes c the news that x is a connection of n.
Owed(c, n, x) == LooksFor(c, n) \/ \E t \in {x} \cup Requests : TellsHere(doing[t], c, n)

LEMMA QuietHere ==
    ASSUME PresenceTypeOK, HereTold, NEW t \in Tasks, Turn(t),
           dots' = dots, stray \subseteq stray', contacts' \subseteq contacts,
           up' \subseteq up, active' \subseteq active,
           \A c \in up', n \in Names : \A x \in ConnsOf(n, active') :
              Pair(n, NameOf[c]) \in contacts =>
                 /\ c = t /\ LooksFor(c, n) => Owed(c, n, x)'
                 /\ t \in {x} \cup Requests /\ TellsHere(doing[t], c, n) => Owed(c, n, x)'
    PROVE  HereTold'
  <1> SUFFICES ASSUME NEW c \in up', NEW n \in Names, NEW x \in ConnsOf(n, active'),
                      <<c, n>> \notin stray', n \notin dots[c], Pair(n, NameOf[c]) \in contacts'
               PROVE  Owed(c, n, x)'
    BY DEF HereTold, Owed
  <1>0. x \in ConnsOf(n, active) /\ x \in Tasks /\ c \in Tasks
    BY DEF ConnsOf, PresenceTypeOK, Tasks
  <1>1. LooksFor(c, n) \/ \E s \in {x} \cup Requests : TellsHere(doing[s], c, n)
    BY <1>0 DEF HereTold
  <1>2. CASE LooksFor(c, n)
    <2>1. c = t \/ Same(doing[c], doing'[c])
      BY <1>0 DEF Turn
    <2>2. CASE c = t
      BY <2>2, <1>2
    <2>3. CASE Same(doing[c], doing'[c])
      BY <2>3, <1>2 DEF LooksFor, Same, Owed
    <2> QED BY <2>1, <2>2, <2>3
  <1>3. ASSUME NEW s \in {x} \cup Requests, TellsHere(doing[s], c, n) PROVE Owed(c, n, x)'
    <2>1. s = t \/ Same(doing[s], doing'[s])
      BY <1>0 DEF Turn, Tasks
    <2>2. CASE s = t
      BY <2>2, <1>3
    <2>3. CASE Same(doing[s], doing'[s])
      BY <2>3, <1>3 DEF TellsHere, Reaches, Same, Owed
    <2> QED BY <2>1, <2>2, <2>3
  <1> QED BY <1>1, <1>2, <1>3

LEMMA QuietStep ==
    ASSUME PresenceInd, NEW t \in Tasks, Turn(t), LatesKnown',
           dots' = dots, stray' = stray, contacts' = contacts,
           up' \subseteq up, up' \subseteq active', active' \subseteq active,
           t \in Conns => ConnectionFrame(t, doing'[t]),
           t \in Requests => RequestFrame(doing'[t]),
           t \in active' => doing'[t].pc \in {"ready", "greet", "snapshot"},
           \A c \in up', n \in Names : t \in Requests /\ Purges(doing[t], c, n) => Purges(doing'[t], c, n),
           \A c \in up', n \in Names :
              <<c, n>> \notin stray /\ n \in dots[c] /\ ~Online(n)' /\ TellsGone(doing[t], c, n) =>
                 \E s \in Tasks : TellsGone(doing'[s], c, n),
           \A c \in up', n \in Names : \A x \in ConnsOf(n, active') :
              Pair(n, NameOf[c]) \in contacts =>
                 /\ c = t /\ LooksFor(c, n) => Owed(c, n, x)'
                 /\ t \in {x} \cup Requests /\ TellsHere(doing[t], c, n) => Owed(c, n, x)'
    PROVE  PresenceInd'
  <1> USE DEF PresenceInd
  <1>1. PresenceTypeOK'
    BY DEF PresenceTypeOK, Turn
  <1>2. FramesFit'
    BY FramesKept
  <1>3. ActiveServed'
    <2> SUFFICES ASSUME NEW c \in active' PROVE doing'[c].pc \in {"ready", "greet", "snapshot"}
      BY DEF ActiveServed
    <2>1. c \in active /\ c \in Tasks
      BY DEF PresenceTypeOK, Tasks
    <2>2. c = t \/ Same(doing[c], doing'[c])
      BY <2>1 DEF Turn
    <2> QED BY <2>1, <2>2 DEF ActiveServed, Same
  <1>4. DotsOfContacts'
    BY QuietDots
  <1>5. GoneTold'
    BY QuietGone
  <1>6. HereTold'
    BY QuietHere
  <1> QED BY <1>1, <1>2, <1>3, <1>4, <1>5, <1>6

-----------------------------------------------------------------------------
(* Telling.                                                                *)

LEMMA NextPeerInd ==
    ASSUME PresenceInd, NEW t \in Tasks, NEW p \in Names, NextPeer(t, p)
    PROVE  PresenceInd'
  <1> DEFINE f == doing[t]
             g == [f EXCEPT !.to = ConnsOf(p, active), !.todo = @ \ {p}]
  <1>0. PresenceTypeOK /\ FramesFit /\ f \in Frames /\ ConnsOf(p, active) \subseteq Conns
    BY DEF PresenceInd, PresenceTypeOK, ConnsOf
  <1>1. /\ g \in Frames /\ g.pc = f.pc /\ g.about = f.about /\ g.todo = f.todo \ {p}
        /\ g.to = ConnsOf(p, active) /\ g.late = f.late
    BY <1>0 DEF Frames
  <1>2. f.pc \in {"greet", "bye", "deleted"} /\ f.to = {}
    BY DEF NextPeer
  <1> HIDE DEF g
  <1>3. Turn(t) /\ doing'[t] = g /\ \A s \in Tasks \ {t} : doing'[s] = doing[s]
    BY <1>0, <1>1, GoesTurn DEF NextPeer, g
  <1>4. \A c \in up : Reaches(f, c) => Reaches(g, c)
    BY <1>0, <1>1, <1>2 DEF Reaches, ConnsOf, PresenceTypeOK
  <1>5. LatesKnown'
    <2>1. LateKnown(g, active)
      BY <1>1 DEF PresenceInd, LatesKnown, LateKnown, Parting
    <2> QED BY <1>3, <2>1, LateStays DEF PresenceInd, NextPeer
  <1>6. /\ t \in Conns => ConnectionFrame(t, g)
        /\ t \in Requests => RequestFrame(g)
    BY <1>0, <1>1, <1>2 DEF FramesFit, ConnectionFrame, RequestFrame
  <1>7. t \in active' => g.pc \in {"ready", "greet", "snapshot"}
    BY <1>1 DEF NextPeer, PresenceInd, ActiveServed
  <1>8. \A c \in up, n \in Names : /\ Purges(f, c, n) => Purges(g, c, n)
                                   /\ TellsGone(f, c, n) => TellsGone(g, c, n)
                                   /\ TellsHere(f, c, n) => TellsHere(g, c, n)
    BY <1>1, <1>2, <1>4 DEF Purges, TellsGone, TellsHere
  <1>9. \A c, n, x : /\ LooksFor(c, n) /\ c = t => Owed(c, n, x)'
                     /\ t \in {x} \cup Requests /\ TellsHere(g, c, n) => Owed(c, n, x)'
    BY <1>1, <1>2, <1>3 DEF LooksFor, Owed
  <1> QED BY <1>3, <1>5, <1>6, <1>7, <1>8, <1>9, QuietStep DEF NextPeer, PresenceInd, PresenceTypeOK

LEMMA TellFailsInd ==
    ASSUME PresenceInd, NEW t \in Tasks, NEW d \in Conns, TellFails(t, d)
    PROVE  PresenceInd'
  <1> DEFINE f == doing[t]
             h == Noticed(active')[t]
             g == [h EXCEPT !.to = @ \ {d}]
  <1>0. /\ PresenceTypeOK /\ FramesFit /\ f \in Frames /\ active' \subseteq active
        /\ up \subseteq active' /\ d \notin up
    BY DEF PresenceInd, PresenceTypeOK, TellFails
  <1>1. h \in Frames /\ Same(f, h) /\ LateKnown(h, active')
    BY <1>0, NoticedFits, NoticedSame, NoticedKnown DEF PresenceTypeOK
  <1> HIDE DEF h
  <1>2. /\ g \in Frames /\ g.pc = f.pc /\ g.about = f.about /\ g.todo = f.todo
        /\ g.to = f.to \ {d} /\ g.more = f.more /\ g.late = h.late /\ g.knew = f.knew
    BY <1>1 DEF Frames, Same
  <1>3. LateKnown(g, active')
    <2>1. g.pc = h.pc /\ g.about = h.about
      BY <1>1, <1>2 DEF Same
    <2> HIDE DEF g
    <2> QED BY <2>1, <1>1, <1>2 DEF LateKnown, Parting
  <1>4. doing' = [Noticed(active') EXCEPT ![t] = g]
    BY DEF TellFails, g, h
  <1> HIDE DEF g
  <1>5. Turn(t) /\ doing'[t] = g /\ \A s \in Tasks \ {t} : doing'[s] = Noticed(active')[s]
    BY <1>0, <1>2, <1>4, NoticedTurn
  <1>6. LatesKnown'
    BY <1>0, <1>3, <1>5, LateNoticed
  <1>7. \A c \in up : Reaches(f, c) => Reaches(g, c)
    BY <1>0, <1>2 DEF Reaches
  <1>8. /\ t \in Conns => ConnectionFrame(t, g)
        /\ t \in Requests => RequestFrame(g)
    BY <1>0, <1>2 DEF FramesFit, ConnectionFrame, RequestFrame
  <1>9. t \in active' => g.pc \in {"ready", "greet", "snapshot"}
    BY <1>0, <1>2 DEF PresenceInd, ActiveServed
  <1>10. \A c \in up, n \in Names : /\ Purges(f, c, n) => Purges(g, c, n)
                                    /\ TellsGone(f, c, n) => TellsGone(g, c, n)
                                    /\ TellsHere(f, c, n) => TellsHere(g, c, n)
    BY <1>0, <1>2, <1>7 DEF Purges, TellsGone, TellsHere
  <1>11. \A c, n, x : /\ LooksFor(c, n) /\ c = t => Owed(c, n, x)'
                      /\ t \in {x} \cup Requests /\ TellsHere(g, c, n) => Owed(c, n, x)'
    BY <1>2, <1>5 DEF LooksFor, Owed
  <1>12. dots' = dots /\ stray' = stray /\ contacts' = contacts /\ up' = up
    BY DEF TellFails
  <1> QED BY <1>0, <1>5, <1>6, <1>8, <1>9, <1>10, <1>11, <1>12, QuietStep

LEMMA SendFailsInd ==
    ASSUME PresenceInd, NEW d \in Conns, SendFails(d)
    PROVE  PresenceInd'
  <1>0. /\ PresenceTypeOK /\ FramesFit /\ d \in Tasks /\ active' \subseteq active
        /\ up \subseteq active' /\ doing' = Noticed(active')
    BY DEF PresenceInd, PresenceTypeOK, SendFails, Tasks
  <1>1. Turn(d) /\ Same(doing[d], doing'[d])
    BY <1>0, NoticedFits, NoticedSame DEF PresenceTypeOK, Turn
  <1>2. LatesKnown'
    BY <1>0, NoticedKnown DEF LatesKnown, PresenceTypeOK
  <1>3. /\ d \in Conns => ConnectionFrame(d, doing'[d])
        /\ d \in Requests => RequestFrame(doing'[d])
    BY <1>0, <1>1 DEF FramesFit, ConnectionFrame, RequestFrame, Same
  <1>4. d \in active' => doing'[d].pc \in {"ready", "greet", "snapshot"}
    BY <1>0, <1>1 DEF PresenceInd, ActiveServed, Same
  <1>5. \A c, n : /\ Purges(doing[d], c, n) => Purges(doing'[d], c, n)
                  /\ TellsGone(doing[d], c, n) => TellsGone(doing'[d], c, n)
                  /\ TellsHere(doing[d], c, n) => TellsHere(doing'[d], c, n)
    BY <1>1 DEF Purges, TellsGone, TellsHere, Reaches, Same
  <1>6. \A c, n, x : /\ LooksFor(c, n) /\ c = d => Owed(c, n, x)'
                     /\ d \in {x} \cup Requests /\ TellsHere(doing'[d], c, n) => Owed(c, n, x)'
    BY <1>1 DEF LooksFor, Owed, Same
  <1>7. dots' = dots /\ stray' = stray /\ contacts' = contacts /\ up' = up
    BY DEF SendFails
  <1> QED BY <1>0, <1>1, <1>2, <1>3, <1>4, <1>5, <1>6, <1>7, QuietStep

-----------------------------------------------------------------------------
(* websocket_endpoint.                                                     *)

LEMMA GreetsInd ==
    ASSUME PresenceInd, NEW d \in Conns, Greets(d)
    PROVE  PresenceInd'
  <1> DEFINE f == doing[d]
             g == [f EXCEPT !.pc = "greet", !.todo = Befriended(NameOf[d])]
  <1>0. /\ PresenceTypeOK /\ FramesFit /\ d \in Tasks /\ f \in Frames /\ f.pc = "ready"
        /\ f.about = NameOf[d] /\ d \notin Requests
    BY PresenceAssumption DEF PresenceInd, PresenceTypeOK, Greets, Tasks, FramesFit, ConnectionFrame
  <1>1. /\ g \in Frames /\ g.pc = "greet" /\ g.about = f.about /\ g.todo = Befriended(NameOf[d])
        /\ g.late = f.late
    BY <1>0 DEF Frames, Befriended
  <1> HIDE DEF g
  <1>2. Turn(d) /\ doing'[d] = g /\ \A s \in Tasks \ {d} : doing'[s] = doing[s]
    BY <1>0, <1>1, GoesTurn DEF Greets, g
  <1>3. LatesKnown'
    <2>1. LateKnown(g, active)
      BY <1>1 DEF LateKnown, Parting
    <2> QED BY <1>0, <1>2, <2>1, LateStays DEF PresenceInd, Greets
  <1>4. ConnectionFrame(d, g)
    BY <1>0, <1>1 DEF ConnectionFrame
  <1>5. \A c, n : TellsGone(f, c, n) => TellsGone(g, c, n)
    BY <1>0, <1>1 DEF TellsGone
  <1>6. \A c \in up, n \in Names :
           TellsHere(f, c, n) /\ Pair(n, NameOf[c]) \in contacts => TellsHere(g, c, n)
    <2> SUFFICES ASSUME NEW c \in up, NEW n \in Names, TellsHere(f, c, n), Pair(n, NameOf[c]) \in contacts
                 PROVE  TellsHere(g, c, n)
      OBVIOUS
    <2>1. n = NameOf[d] /\ NameOf[c] \in Names
      BY <1>0, PresenceAssumption DEF TellsHere, PresenceTypeOK
    <2>2. NameOf[c] \in g.todo
      BY <1>1, <2>1 DEF Befriended
    <2> QED BY <1>0, <1>1, <2>1, <2>2 DEF TellsHere, Reaches
  <1>7. \A c, n, x : /\ c = d => Owed(c, n, x)'
                     /\ d = x /\ TellsHere(g, c, n) => Owed(c, n, x)'
    BY <1>1, <1>2 DEF LooksFor, Owed
  <1>8. active' = active /\ dots' = dots /\ stray' = stray /\ contacts' = contacts /\ up' = up
        /\ up \subseteq active
    BY <1>0 DEF Greets, PresenceTypeOK
  <1> QED BY <1>0, <1>1, <1>2, <1>3, <1>4, <1>5, <1>6, <1>7, <1>8, QuietStep

LEMMA LooksRoundInd ==
    ASSUME PresenceInd, NEW d \in Conns, LooksRound(d)
    PROVE  PresenceInd'
  <1> DEFINE f == doing[d]
             g == [f EXCEPT !.pc = "snapshot", !.todo = Befriended(NameOf[d])]
  <1>0. /\ PresenceTypeOK /\ FramesFit /\ d \in Tasks /\ f \in Frames /\ f.pc = "greet"
        /\ f.about = NameOf[d] /\ d \notin Requests /\ f.todo = {} /\ f.to = {}
    BY PresenceAssumption DEF PresenceInd, PresenceTypeOK, LooksRound, Tasks, FramesFit, ConnectionFrame
  <1>1. /\ g \in Frames /\ g.pc = "snapshot" /\ g.about = f.about /\ g.todo = Befriended(NameOf[d])
        /\ g.to = {} /\ g.late = f.late
    BY <1>0 DEF Frames, Befriended
  <1> HIDE DEF g
  <1>2. Turn(d) /\ doing'[d] = g /\ \A s \in Tasks \ {d} : doing'[s] = doing[s]
    BY <1>0, <1>1, GoesTurn DEF LooksRound, g
  <1>3. LatesKnown'
    <2>1. LateKnown(g, active)
      BY <1>1 DEF LateKnown, Parting
    <2> QED BY <1>0, <1>2, <2>1, LateStays DEF PresenceInd, LooksRound
  <1>4. ConnectionFrame(d, g)
    BY <1>0, <1>1 DEF ConnectionFrame
  <1>5. \A c, n : TellsGone(f, c, n) => TellsGone(g, c, n)
    BY <1>0, <1>1 DEF TellsGone
  <1>6. \A c, n : ~TellsHere(f, c, n)
    BY <1>0 DEF TellsHere, Reaches
  <1>7. \A n \in Names : Pair(n, NameOf[d]) \in contacts => \A x : Owed(d, n, x)'
    BY <1>1, <1>2 DEF LooksFor, Owed, Befriended, Pair
  <1>8. active' = active /\ dots' = dots /\ stray' = stray /\ contacts' = contacts /\ up' = up
        /\ up \subseteq active
    BY <1>0 DEF LooksRound, PresenceTypeOK
  <1> QED BY <1>0, <1>1, <1>2, <1>3, <1>4, <1>5, <1>6, <1>7, <1>8, QuietStep

LEMMA SeesNotInd ==
    ASSUME PresenceInd, NEW d \in Conns, SeesNot(d)
    PROVE  PresenceInd'
  <1> DEFINE f == doing[d]
             h == Noticed(active')[d]
             g == [h EXCEPT !.todo = {}]
  <1>0. /\ PresenceTypeOK /\ FramesFit /\ d \in Tasks /\ f \in Frames /\ f.pc = "snapshot"
        /\ f.about = NameOf[d] /\ d \notin Requests /\ d \notin up /\ f.to = {}
        /\ active' = active \ {d} /\ up \subseteq active'
    BY PresenceAssumption DEF PresenceInd, PresenceTypeOK, SeesNot, Tasks, FramesFit, ConnectionFrame
  <1>1. h \in Frames /\ Same(f, h)
    BY <1>0, NoticedFits, NoticedSame DEF PresenceTypeOK
  <1>2. doing' = [Noticed(active') EXCEPT ![d] = g]
    BY DEF SeesNot
  <1> HIDE DEF h
  <1>3. g \in Frames /\ g.pc = "snapshot" /\ g.about = f.about /\ g.to = {}
    BY <1>0, <1>1 DEF Frames, Same
  <1> HIDE DEF g
  <1>4. Turn(d) /\ doing'[d] = g /\ \A s \in Tasks \ {d} : doing'[s] = Noticed(active')[s]
    BY <1>0, <1>2, <1>3, NoticedTurn
  <1>5. LatesKnown'
    <2>1. LateKnown(g, active')
      BY <1>3 DEF LateKnown, Parting
    <2> QED BY <1>0, <1>4, <2>1, LateNoticed
  <1>6. ConnectionFrame(d, g)
    BY <1>0, <1>3 DEF ConnectionFrame
  <1>7. \A c, n : TellsGone(f, c, n) => TellsGone(g, c, n)
    BY <1>0, <1>3 DEF TellsGone
  <1>8. \A c, n : ~TellsHere(f, c, n)
    BY <1>0 DEF TellsHere
  <1>9. dots' = dots /\ stray' = stray /\ contacts' = contacts /\ up' = up
    BY DEF SeesNot
  <1> QED BY <1>0, <1>3, <1>4, <1>5, <1>6, <1>7, <1>8, <1>9, QuietStep

LEMMA BreaksInd ==
    ASSUME PresenceInd, NEW d \in Conns, Breaks(d)
    PROVE  PresenceInd'
  <1>0. /\ PresenceTypeOK /\ FramesFit /\ d \in Tasks /\ d \notin Requests
        /\ up' \subseteq up /\ active' = active /\ up' \subseteq active
        /\ dots' = dots /\ stray' = stray /\ contacts' = contacts /\ doing' = doing
    BY PresenceAssumption DEF PresenceInd, PresenceTypeOK, Breaks, Tasks
  <1>1. Turn(d)
    BY <1>0 DEF Turn, Same, PresenceTypeOK
  <1>2. LatesKnown' /\ ConnectionFrame(d, doing'[d])
    BY <1>0 DEF PresenceInd, LatesKnown, FramesFit
  <1>3. d \in active' => doing'[d].pc \in {"ready", "greet", "snapshot"}
    BY <1>0 DEF PresenceInd, ActiveServed
  <1>4. \A c, n, x : /\ LooksFor(c, n) => Owed(c, n, x)'
                     /\ d = x /\ TellsHere(doing[d], c, n) => Owed(c, n, x)'
    BY <1>0 DEF LooksFor, Owed
  <1> QED BY <1>0, <1>1, <1>2, <1>3, <1>4, QuietStep

LEMMA LeavesInd ==
    ASSUME PresenceInd, NEW d \in Conns, Leaves(d)
    PROVE  PresenceInd'
  <1> DEFINE f == doing[d]
             n0 == NameOf[d]
             stays == OnlineIn(n0, active')
             b == [AtRest EXCEPT !.pc = "bye", !.about = n0, !.todo = Befriended(n0)]
             g == IF stays THEN AtRest ELSE b
  <1>0. /\ PresenceTypeOK /\ FramesFit /\ d \in Tasks /\ f \in Frames
        /\ f.pc \in {"ready", "snapshot"} /\ f.about = n0 /\ d \notin Requests /\ d \notin up
        /\ n0 \in Names /\ active' = active \ {d} /\ up \subseteq active'
    BY PresenceAssumption DEF PresenceInd, PresenceTypeOK, Leaves, Tasks, FramesFit, ConnectionFrame
  <1>1. /\ b \in Frames /\ b.pc = "bye" /\ b.about = n0 /\ b.todo = Befriended(n0) /\ b.to = {}
        /\ b.late = FALSE
    BY <1>0 DEF Frames, Befriended, AtRest
  <1>2. AtRest \in Frames /\ AtRest.pc = "idle" /\ AtRest.to = {}
    BY RestFits DEF AtRest
  <1>3. doing' = [Noticed(active') EXCEPT ![d] = g]
    BY DEF Leaves
  <1> HIDE DEF b
  <1>4. /\ g \in Frames /\ g.to = {} /\ g.pc \in {"idle", "bye"}
        /\ g.pc # "idle" => g.about = n0
        /\ ~stays => g = b
    BY <1>1, <1>2
  <1>5. LateKnown(g, active')
    BY <1>1, <1>2 DEF LateKnown, Parting
  <1> HIDE DEF g
  <1>6. Turn(d) /\ doing'[d] = g /\ \A s \in Tasks \ {d} : doing'[s] = Noticed(active')[s]
    BY <1>0, <1>3, <1>4, NoticedTurn
  <1>7. LatesKnown'
    BY <1>0, <1>5, <1>6, LateNoticed
  <1>8. ConnectionFrame(d, g)
    BY <1>0, <1>4 DEF ConnectionFrame
  <1>9. ASSUME NEW c \in up, NEW n \in Names, <<c, n>> \notin stray, n \in dots[c], ~Online(n)',
               TellsGone(f, c, n)
        PROVE  \E s \in Tasks : TellsGone(doing'[s], c, n)
    <2>1. n = n0 /\ g = b /\ NameOf[c] \in Names
      BY <1>0, <1>4, <1>9, PresenceAssumption DEF TellsGone, Online, PresenceTypeOK
    <2>2. CASE Pair(n, NameOf[c]) \in contacts
      <3>1. Reaches(g, c)
        BY <1>1, <2>1, <2>2 DEF Reaches, Befriended
      <3>2. TellsGone(g, c, n)
        BY <1>1, <2>1, <3>1 DEF TellsGone
      <3> QED BY <1>0, <1>6, <3>2
    <2>3. CASE Pair(n, NameOf[c]) \notin contacts
      <3>1. PICK r \in Requests : Purges(doing[r], c, n)
        BY <1>9, <2>3 DEF PresenceInd, DotsOfContacts
      <3>2. r \in Tasks /\ Same(doing[r], doing'[r])
        BY <1>0, <1>6 DEF Turn, Tasks
      <3>3. TellsGone(doing'[r], c, n)
        BY <3>1, <3>2 DEF TellsGone, Purges, Reaches, Same
      <3> QED BY <3>2, <3>3
    <2> QED BY <2>2, <2>3
  <1>10. dots' = dots /\ stray' = stray /\ contacts' = contacts /\ up' = up
    BY DEF Leaves
  <1>11. d \notin active' /\ \A n : d \notin ConnsOf(n, active')
    BY <1>0 DEF ConnsOf
  <1> QED BY <1>0, <1>4, <1>6, <1>7, <1>8, <1>9, <1>10, <1>11, QuietStep

LEMMA ThroughInd ==
    ASSUME PresenceInd, NEW t \in Tasks, Through(t)
    PROVE  PresenceInd'
  <1> DEFINE f == doing[t]
  <1>0. /\ PresenceTypeOK /\ FramesFit /\ f.pc \in {"bye", "deleted"} /\ f.todo = {} /\ f.to = {}
        /\ active' = active /\ up' = up /\ dots' = dots /\ stray' = stray /\ contacts' = contacts
        /\ up \subseteq active
    BY DEF PresenceInd, PresenceTypeOK, Through, Parting
  <1>1. Turn(t) /\ doing'[t] = AtRest /\ \A s \in Tasks \ {t} : doing'[s] = doing[s]
    BY <1>0, RestFits, GoesTurn DEF Through
  <1>2. LateKnown(AtRest, active) /\ AtRest.to = {} /\ AtRest.pc = "idle"
    BY DEF LateKnown, Parting, AtRest
  <1>3. LatesKnown'
    BY <1>0, <1>1, <1>2, LateStays DEF PresenceInd
  <1>4. ConnectionFrame(t, AtRest) /\ RequestFrame(AtRest)
    BY <1>2 DEF ConnectionFrame, RequestFrame
  <1>5. t \notin active
    BY <1>0 DEF PresenceInd, ActiveServed
  <1>6. \A c, n : ~Purges(f, c, n) /\ ~TellsGone(f, c, n) /\ ~TellsHere(f, c, n)
    BY <1>0 DEF Purges, TellsGone, TellsHere, Reaches
  <1>7. \A n : ~LooksFor(t, n)
    BY <1>0 DEF LooksFor
  <1> QED BY <1>0, <1>1, <1>3, <1>4, <1>5, <1>6, <1>7, QuietStep

-----------------------------------------------------------------------------
(* Requests.                                                               *)

\* The other half of a delivery is a frame of a request, and owes what is left.
LEMMA OtherHalfFits ==
    ASSUME NEW f \in Frames, RequestFrame(f), f.pc \in {"look", "deliver"}, NEW g, g = OtherHalf(f)
    PROVE  g \in Frames /\ RequestFrame(g) /\ g.pc \in {"idle", "look"} /\ ~g.late
  <1>1. PICK m \in Names : f.todo = {m}
    BY DEF RequestFrame
  <1>2. f.about \in Names
    BY DEF RequestFrame
  <1>3. (CHOOSE n \in f.todo : TRUE) = m
    BY <1>1
  <1>4. CASE f.more
    BY <1>1, <1>2, <1>3, <1>4 DEF OtherHalf, AtRest, Frames, RequestFrame
  <1>5. CASE ~f.more
    BY <1>5, RestFits DEF OtherHalf, AtRest, RequestFrame
  <1> QED BY <1>4, <1>5

LEMMA OtherHalfOwes ==
    ASSUME NEW f \in Frames, RequestFrame(f), f.pc \in {"look", "deliver"}, NEW c, NEW n,
           f.about = NameOf[c], f.more, n \in f.todo
    PROVE  TellsHere(OtherHalf(f), c, n)
  <1>1. PICK m \in Names : f.todo = {m}
    BY DEF RequestFrame
  <1>2. m = n /\ (CHOOSE k \in f.todo : TRUE) = n
    BY <1>1
  <1> QED BY <1>2 DEF OtherHalf, AtRest, TellsHere, Reaches

LEMMA LooksInd ==
    ASSUME PresenceInd, NEW r \in Requests, Looks(r)
    PROVE  PresenceInd'
  <1> DEFINE f == doing[r]
  <1>1. /\ PresenceTypeOK /\ FramesFit /\ r \in Tasks /\ r \notin Conns /\ f \in Frames
        /\ f.pc = "look" /\ RequestFrame(f) /\ up \subseteq active /\ active \subseteq Conns
        /\ active' = active /\ up' = up /\ dots' = dots /\ stray' = stray /\ contacts' = contacts
    BY PresenceAssumption DEF PresenceInd, PresenceTypeOK, Looks, Tasks, FramesFit
  <1>2. PICK m \in f.todo : Goes(r, IF Online(f.about)
                                    THEN [f EXCEPT !.pc = "deliver", !.to = ConnsOf(m, active)]
                                    ELSE OtherHalf(f))
    BY DEF Looks
  <1>3. f.todo = {m} /\ m \in Names /\ f.about \in Names
    BY <1>1, <1>2 DEF RequestFrame
  <1> DEFINE d == [f EXCEPT !.pc = "deliver", !.to = ConnsOf(m, active)]
  <1>4. ConnsOf(m, active) \subseteq ConnsOf(m, Conns) /\ ConnsOf(m, active) \subseteq Conns
    BY <1>1 DEF ConnsOf
  <1>5. /\ d \in Frames /\ d.pc = "deliver" /\ d.about = f.about /\ d.todo = f.todo
        /\ d.to = ConnsOf(m, active) /\ d.more = f.more
    BY <1>1, <1>4 DEF Frames
  <1> HIDE DEF d
  <1>6. RequestFrame(d)
    BY <1>3, <1>4, <1>5 DEF RequestFrame
  <1>7. \E g \in Frames : /\ g = IF Online(f.about) THEN d ELSE OtherHalf(f)
                          /\ RequestFrame(g) /\ LateKnown(g, active)
    <2>1. CASE Online(f.about)
      BY <1>5, <1>6, <2>1 DEF LateKnown, Parting, Online
    <2>2. CASE ~Online(f.about)
      BY <1>1, <2>2, OtherHalfFits DEF LateKnown, Parting
    <2> QED BY <2>1, <2>2
  <1>8. PICK g \in Frames : /\ g = IF Online(f.about) THEN d ELSE OtherHalf(f)
                            /\ RequestFrame(g) /\ LateKnown(g, active)
    BY <1>7
  <1>9. Turn(r) /\ doing'[r] = g /\ \A s \in Tasks \ {r} : doing'[s] = doing[s]
    BY <1>1, <1>2, <1>8, GoesTurn DEF d
  <1>10. LatesKnown'
    BY <1>1, <1>8, <1>9, LateStays DEF PresenceInd
  <1>11. r \notin active /\ \A c, n : ~Purges(f, c, n) /\ ~TellsGone(f, c, n)
    BY <1>1 DEF Purges, TellsGone
  <1>12. ASSUME NEW c \in up, NEW n \in Names, NEW x \in ConnsOf(n, active), TellsHere(f, c, n)
         PROVE  Owed(c, n, x)'
    <2>1. TellsHere(g, c, n)
      <3>1. CASE f.about = n /\ Reaches(f, c)
        <4>1. Online(f.about)
          BY <1>12, <3>1 DEF Online, OnlineIn, ConnsOf
        <4>2. NameOf[c] = m
          <5>1. c \notin f.to
            BY <1>1 DEF RequestFrame
          <5> QED BY <1>3, <3>1, <5>1 DEF Reaches
        <4>3. c \in d.to
          BY <1>1, <1>5, <4>2 DEF ConnsOf
        <4> QED BY <1>5, <1>8, <3>1, <4>1, <4>3 DEF TellsHere
      <3>2. CASE f.about = NameOf[c] /\ f.more /\ n \in f.todo
        <4>1. CASE Online(f.about)
          BY <1>5, <1>8, <3>2, <4>1 DEF TellsHere
        <4>2. CASE ~Online(f.about)
          BY <1>1, <1>8, <3>2, <4>2, OtherHalfOwes
        <4> QED BY <4>1, <4>2
      <3> QED BY <1>1, <1>12, <3>1, <3>2 DEF TellsHere
    <2> QED BY <1>9, <2>1 DEF Owed
  <1> QED BY <1>1, <1>8, <1>9, <1>10, <1>11, <1>12, QuietStep

LEMMA DeliveredInd ==
    ASSUME PresenceInd, NEW r \in Requests, Delivered(r)
    PROVE  PresenceInd'
  <1> DEFINE f == doing[r]
  <1>1. /\ PresenceTypeOK /\ FramesFit /\ r \in Tasks /\ r \notin Conns /\ f \in Frames
        /\ f.pc = "deliver" /\ f.to = {} /\ RequestFrame(f) /\ up \subseteq active /\ active \subseteq Conns
        /\ active' = active /\ up' = up /\ dots' = dots /\ stray' = stray /\ contacts' = contacts
    BY PresenceAssumption DEF PresenceInd, PresenceTypeOK, Delivered, Tasks, FramesFit
  <1>2. PICK g : g = OtherHalf(f)
    OBVIOUS
  <1>3. g \in Frames /\ RequestFrame(g) /\ LateKnown(g, active)
    BY <1>1, <1>2, OtherHalfFits DEF LateKnown, Parting
  <1>4. Turn(r) /\ doing'[r] = g /\ \A s \in Tasks \ {r} : doing'[s] = doing[s]
    BY <1>1, <1>2, <1>3, GoesTurn DEF Delivered
  <1>5. LatesKnown'
    BY <1>1, <1>3, <1>4, LateStays DEF PresenceInd
  <1>6. r \notin active /\ \A c, n : ~Purges(f, c, n) /\ ~TellsGone(f, c, n)
    BY <1>1 DEF Purges, TellsGone
  <1>7. ASSUME NEW c, NEW n, NEW x, TellsHere(f, c, n)
        PROVE  Owed(c, n, x)'
    <2>1. f.about = NameOf[c] /\ f.more /\ n \in f.todo
      BY <1>1, <1>7 DEF TellsHere
    <2>2. TellsHere(g, c, n)
      BY <1>1, <1>2, <2>1, OtherHalfOwes
    <2> QED BY <1>4, <2>2 DEF Owed
  <1> QED BY <1>1, <1>3, <1>4, <1>5, <1>6, <1>7, QuietStep

LEMMA DeletesAccountInd ==
    ASSUME PresenceInd, NEW r \in Requests, NEW u \in Names, DeletesAccount(r, u)
    PROVE  PresenceInd'
  <1> DEFINE f == doing[r]
             g == [AtRest EXCEPT !.pc = "delete", !.about = u, !.todo = Befriended(u),
                                 !.knew = Befriended(u)]
  <1>1. /\ PresenceTypeOK /\ r \in Tasks /\ r \notin Conns /\ f = AtRest
        /\ up \subseteq active /\ active \subseteq Conns
        /\ active' = active /\ up' = up /\ dots' = dots /\ stray' = stray /\ contacts' = contacts
    BY PresenceAssumption DEF PresenceInd, PresenceTypeOK, DeletesAccount, Tasks
  <1>2. g \in Frames /\ g.pc = "delete" /\ g.about = u /\ g.to = {} /\ g.knew = g.todo
        /\ AtRest.pc = "idle"
    BY DEF Frames, Befriended, AtRest
  <1> HIDE DEF g
  <1>3. Turn(r) /\ doing'[r] = g /\ \A s \in Tasks \ {r} : doing'[s] = doing[s]
    BY <1>1, <1>2, GoesTurn DEF DeletesAccount, g
  <1>4. LateKnown(g, active) /\ RequestFrame(g)
    BY <1>2 DEF LateKnown, Parting, RequestFrame
  <1>5. LatesKnown'
    BY <1>1, <1>3, <1>4, LateStays DEF PresenceInd
  <1>6. r \notin active /\ \A c, n : ~Purges(f, c, n) /\ ~TellsGone(f, c, n) /\ ~TellsHere(f, c, n)
    BY <1>1, <1>2 DEF Purges, TellsGone, TellsHere
  <1> QED BY <1>1, <1>3, <1>4, <1>5, <1>6, QuietStep

LEMMA DeletesNotInd ==
    ASSUME PresenceInd, NEW r \in Requests, DeletesNot(r)
    PROVE  PresenceInd'
  <1> DEFINE f == doing[r]
  <1>1. /\ PresenceTypeOK /\ r \in Tasks /\ r \notin Conns /\ f.pc = "delete"
        /\ up \subseteq active /\ active \subseteq Conns
        /\ active' = active /\ up' = up /\ dots' = dots /\ stray' = stray /\ contacts' = contacts
    BY PresenceAssumption DEF PresenceInd, PresenceTypeOK, DeletesNot, Tasks
  <1>2. Turn(r) /\ doing'[r] = AtRest /\ \A s \in Tasks \ {r} : doing'[s] = doing[s]
    BY <1>1, RestFits, GoesTurn DEF DeletesNot
  <1>3. LateKnown(AtRest, active) /\ RequestFrame(AtRest)
    BY DEF LateKnown, Parting, RequestFrame, AtRest
  <1>4. LatesKnown'
    BY <1>1, <1>2, <1>3, LateStays DEF PresenceInd
  <1>5. r \notin active /\ \A c, n : ~Purges(f, c, n) /\ ~TellsGone(f, c, n) /\ ~TellsHere(f, c, n)
    BY <1>1 DEF Purges, TellsGone, TellsHere
  <1> QED BY <1>1, <1>2, <1>3, <1>4, <1>5, QuietStep

LEMMA ClosesUserInd ==
    ASSUME PresenceInd, NEW r \in Requests, ClosesUser(r)
    PROVE  PresenceInd'
  <1> DEFINE f == doing[r]
             gone == ConnsOf(f.about, active)
             h == Noticed(active')[r]
             g == [h EXCEPT !.pc = "deleted"]
  <1>1. /\ PresenceTypeOK /\ FramesFit /\ r \in Tasks /\ r \notin Conns /\ f \in Frames
        /\ f.pc = "purge" /\ f.about \in Names /\ f.to = {} /\ up \subseteq active /\ active \subseteq Conns
        /\ active' = active \ gone /\ up' = up \ gone
        /\ dots' = dots /\ stray' = stray /\ contacts' = contacts
    BY PresenceAssumption DEF PresenceInd, PresenceTypeOK, ClosesUser, Tasks, FramesFit, RequestFrame
  <1>2. doing' = [Noticed(active') EXCEPT ![r] = g]
    BY DEF ClosesUser
  <1>3. h \in Frames /\ Same(f, h)
    BY <1>1, NoticedFits, NoticedSame DEF PresenceTypeOK
  <1> HIDE DEF h
  <1>4. /\ g \in Frames /\ g.pc = "deleted" /\ g.about = f.about /\ g.todo = f.todo /\ g.to = f.to
    BY <1>3 DEF Frames, Same
  <1> HIDE DEF g
  <1>5. Turn(r) /\ doing'[r] = g /\ \A s \in Tasks \ {r} : doing'[s] = Noticed(active')[s]
    BY <1>1, <1>2, <1>4, NoticedTurn
  <1>6. LateKnown(g, active') /\ RequestFrame(g)
    BY <1>1, <1>4 DEF LateKnown, OnlineIn, ConnsOf, RequestFrame
  <1>7. LatesKnown'
    BY <1>1, <1>5, <1>6, LateNoticed
  <1>8. r \notin active /\ \A c, n : /\ Purges(f, c, n) => Purges(g, c, n)
                                     /\ TellsGone(f, c, n) => TellsGone(g, c, n)
                                     /\ ~TellsHere(f, c, n)
    BY <1>1, <1>4 DEF Purges, TellsGone, TellsHere, Reaches
  <1> QED BY <1>1, <1>5, <1>6, <1>7, <1>8, QuietStep

LEMMA StartsAgainInd == PresenceInd /\ StartsAgain => PresenceInd'
  <1> SUFFICES ASSUME PresenceInd, StartsAgain PROVE PresenceInd'
    OBVIOUS
  <1>1. /\ up' = {} /\ active' = {} /\ dots' = dots /\ contacts' = contacts /\ stray' = stray
        /\ doing' = [t \in Tasks |-> AtRest]
    BY DEF StartsAgain
  <1>2. AtRest.pc = "idle" /\ AtRest.to = {}
    BY DEF AtRest
  <1>3. PresenceTypeOK' /\ ActiveServed'
    BY <1>1, RestFits DEF PresenceInd, PresenceTypeOK, ActiveServed
  <1>4. FramesFit'
    BY <1>1, <1>2 DEF FramesFit, ConnectionFrame, RequestFrame, Tasks
  <1>5. LatesKnown'
    BY <1>1, <1>2 DEF LatesKnown, LateKnown, Parting
  <1>6. DotsOfContacts' /\ GoneTold' /\ HereTold'
    BY <1>1 DEF DotsOfContacts, GoneTold, HereTold
  <1> QED BY <1>3, <1>4, <1>5, <1>6 DEF PresenceInd

-----------------------------------------------------------------------------
(* Steps that show a dot, or end a contact.                                *)

LEMMA ShowsFits ==
    ASSUME PresenceTypeOK, NEW c \in Conns, NEW n \in Names, NEW on, NEW late, Shows(c, n, on, late)
    PROVE  dots' \in [Conns -> SUBSET Names] /\ stray' \subseteq Conns \X Names
  BY DEF PresenceTypeOK, Shows

LEMMA ShowsThat ==
    ASSUME PresenceTypeOK, NEW c \in Conns, NEW n \in Names, NEW on \in BOOLEAN, NEW late, Shows(c, n, on, late)
    PROVE  /\ n \in dots'[c] <=> on
           /\ <<c, n>> \in stray' <=> \/ late /\ on # Online(n)
                                      \/ on /\ Pair(n, NameOf[c]) \notin contacts
  BY DEF PresenceTypeOK, Shows

LEMMA ShowsOnlyThat ==
    ASSUME PresenceTypeOK, NEW c \in Conns, NEW n \in Names, NEW on, NEW late, Shows(c, n, on, late),
           NEW e \in Conns, NEW m \in Names, e # c \/ m # n
    PROVE  /\ m \in dots'[e] <=> m \in dots[e]
           /\ <<e, m>> \in stray' <=> <<e, m>> \in stray
  BY DEF PresenceTypeOK, Shows

LEMMA TellInd ==
    ASSUME PresenceInd, NEW t \in Tasks, NEW d \in Conns, Tell(t, d)
    PROVE  PresenceInd'
  <1> DEFINE f == doing[t]
             k == f.about
             on == Greeting(f)
             g == [f EXCEPT !.to = @ \ {d}]
  <1>1. /\ PresenceTypeOK /\ FramesFit /\ f \in Frames /\ d \in f.to /\ d \in up
        /\ up \subseteq active /\ active \subseteq Conns
        /\ active' = active /\ up' = up /\ contacts' = contacts
    BY DEF PresenceInd, PresenceTypeOK, Tell
  <1>2. /\ t \in Conns => ConnectionFrame(t, f)
        /\ t \in Requests => RequestFrame(f)
        /\ t \in Conns \cup Requests
    BY <1>1 DEF FramesFit, Tasks
  <1>3. /\ f.pc \in {"greet", "deliver", "bye", "deleted"} /\ k \in Names
        /\ f.pc = "greet" => k = NameOf[t]
    BY <1>1, <1>2, PresenceAssumption DEF ConnectionFrame, RequestFrame
  <1>4. on \in BOOLEAN /\ on # Parting(f)
    BY <1>3 DEF Greeting, Parting
  <1>5. LateKnown(f, active)
    BY DEF PresenceInd, LatesKnown
  <1>6. /\ g \in Frames /\ g.pc = f.pc /\ g.about = k /\ g.todo = f.todo /\ g.to = f.to \ {d}
        /\ g.more = f.more /\ g.late = f.late
    BY <1>1 DEF Frames
  <1>7. Shows(d, k, on, f.late)
    BY DEF Tell
  <1>8. Goes(t, g)
    BY DEF Tell
  <1> HIDE DEF g, on
  <1>9. Turn(t) /\ doing'[t] = g /\ \A s \in Tasks \ {t} : doing'[s] = doing[s]
    BY <1>1, <1>6, <1>8, GoesTurn
  <1>10. PresenceTypeOK'
    BY <1>1, <1>3, <1>7, <1>9, ShowsFits DEF PresenceTypeOK, Turn
  <1>11. FramesFit'
    <2>1. /\ t \in Conns => ConnectionFrame(t, g)
          /\ t \in Requests => RequestFrame(g)
      BY <1>2, <1>3, <1>6 DEF ConnectionFrame, RequestFrame
    <2> QED BY <1>1, <1>9, <2>1, FramesKept
  <1>12. ActiveServed'
    BY <1>1, <1>6, <1>9 DEF PresenceInd, ActiveServed, Tasks
  <1>13. LatesKnown'
    <2>1. LateKnown(g, active)
      BY <1>5, <1>6 DEF LateKnown, Parting
    <2> QED BY <1>1, <1>9, <2>1, LateStays DEF PresenceInd
  <1>14. \A c \in Conns : c # d => (Reaches(f, c) <=> Reaches(g, c))
    BY <1>6 DEF Reaches
  <1>15. DotsOfContacts'
    <2> SUFFICES ASSUME NEW c \in up, NEW n \in Names, <<c, n>> \notin stray', n \in dots'[c],
                        Pair(n, NameOf[c]) \notin contacts
                 PROVE  \E r \in Requests : Purges(doing'[r], c, n)
      BY <1>1 DEF DotsOfContacts
    <2>1. c # d \/ n # k
      BY <1>1, <1>3, <1>4, <1>7, ShowsThat
    <2>2. n \in dots[c] /\ <<c, n>> \notin stray
      BY <1>1, <1>3, <1>7, <2>1, ShowsOnlyThat
    <2>3. PICK r \in Requests : Purges(doing[r], c, n)
      BY <2>2 DEF PresenceInd, DotsOfContacts
    <2>4. CASE r = t
      <3>1. c # d
        BY <2>1, <2>3, <2>4 DEF Purges
      <3>2. Purges(g, c, n)
        BY <1>1, <1>6, <1>14, <2>3, <2>4, <3>1 DEF Purges
      <3> QED BY <1>9, <2>4, <3>2
    <2>5. CASE r # t
      BY <1>9, <2>3, <2>5 DEF Tasks
    <2> QED BY <2>4, <2>5
  <1>16. GoneTold'
    <2> SUFFICES ASSUME NEW c \in up, NEW n \in Names, <<c, n>> \notin stray', n \in dots'[c], ~Online(n)
                 PROVE  \E s \in Tasks : TellsGone(doing'[s], c, n)
      BY <1>1 DEF GoneTold, Online
    <2>1. CASE c = d /\ n = k
      <3>1. on /\ ~f.late
        BY <1>1, <1>3, <1>4, <1>6, <1>7, <2>1, ShowsThat
      <3>2. f.pc = "greet"
        BY <1>3, <1>5, <2>1, <3>1 DEF LateKnown, Online, on, Greeting
      <3>3. TellsGone(g, c, n)
        BY <1>6, <2>1, <3>2 DEF TellsGone
      <3> QED BY <1>9, <3>3
    <2>2. CASE c # d \/ n # k
      <3>1. n \in dots[c] /\ <<c, n>> \notin stray
        BY <1>1, <1>3, <1>7, <2>2, ShowsOnlyThat
      <3>2. PICK s \in Tasks : TellsGone(doing[s], c, n)
        BY <3>1 DEF PresenceInd, GoneTold
      <3>3. CASE s = t
        <4>1. c # d
          BY <2>2, <3>2, <3>3 DEF TellsGone
        <4>2. TellsGone(g, c, n)
          BY <1>1, <1>6, <1>14, <3>2, <3>3, <4>1 DEF TellsGone
        <4> QED BY <1>9, <3>3, <4>2
      <3>4. CASE s # t
        BY <1>9, <3>2, <3>4
      <3> QED BY <3>3, <3>4
    <2> QED BY <2>1, <2>2
  <1>17. HereTold'
    <2> SUFFICES ASSUME NEW c \in up, NEW n \in Names, NEW x \in ConnsOf(n, active),
                        <<c, n>> \notin stray', n \notin dots'[c], Pair(n, NameOf[c]) \in contacts
                 PROVE  Owed(c, n, x)'
      BY <1>1 DEF HereTold, Owed
    <2>1. c # d \/ n # k
      <3> SUFFICES ASSUME c = d, n = k PROVE FALSE
        OBVIOUS
      <3>1. ~on /\ ~(f.late /\ on # Online(n))
        BY <1>1, <1>3, <1>4, <1>7, ShowsThat
      <3>2. Online(n)
        BY DEF Online, OnlineIn, ConnsOf
      <3>3. Parting(f)
        BY <1>4, <3>1 DEF Parting
      <3>4. f.late
        BY <1>5, <3>2, <3>3 DEF LateKnown, Online
      <3> QED BY <1>4, <3>1, <3>2, <3>4 DEF Online, OnlineIn
    <2>2. n \notin dots[c] /\ <<c, n>> \notin stray
      BY <1>1, <1>3, <1>7, <2>1, ShowsOnlyThat
    <2>3. LooksFor(c, n) \/ \E s \in {x} \cup Requests : TellsHere(doing[s], c, n)
      BY <2>2 DEF PresenceInd, HereTold
    <2>4. c \in Tasks /\ x \in Tasks
      BY <1>1 DEF Tasks, ConnsOf
    <2>5. CASE LooksFor(c, n)
      BY <1>6, <1>9, <2>4, <2>5 DEF LooksFor, Owed
    <2>6. ASSUME NEW s \in {x} \cup Requests, TellsHere(doing[s], c, n) PROVE Owed(c, n, x)'
      <3>1. CASE s = t
        <4>1. TellsHere(g, c, n)
          BY <1>1, <1>6, <1>14, <2>1, <2>6, <3>1 DEF TellsHere
        <4> QED BY <1>9, <3>1, <4>1 DEF Owed
      <3>2. CASE s # t
        BY <1>9, <2>4, <2>6, <3>2 DEF Owed, Tasks
      <3> QED BY <3>1, <3>2
    <2> QED BY <2>3, <2>5, <2>6
  <1> QED BY <1>10, <1>11, <1>12, <1>13, <1>15, <1>16, <1>17 DEF PresenceInd

LEMMA SeesInd ==
    ASSUME PresenceInd, NEW d \in Conns, NEW k \in Names, Sees(d, k)
    PROVE  PresenceInd'
  <1> DEFINE f == doing[d]
             g == [f EXCEPT !.todo = @ \ {k}]
             shown == Online(k) /\ d \in up
  <1>1. /\ PresenceTypeOK /\ FramesFit /\ f \in Frames /\ f.pc = "snapshot" /\ f.about = NameOf[d]
        /\ f.to = {} /\ d \in Tasks /\ d \notin Requests
        /\ up \subseteq active /\ active \subseteq Conns
        /\ active' = active /\ up' = up /\ contacts' = contacts
    BY PresenceAssumption DEF PresenceInd, PresenceTypeOK, FramesFit, ConnectionFrame, Sees, Tasks
  <1>2. /\ g \in Frames /\ g.pc = "snapshot" /\ g.about = f.about /\ g.todo = f.todo \ {k}
        /\ g.to = f.to /\ g.late = f.late
    BY <1>1 DEF Frames
  <1>3. Goes(d, g) /\ IF shown THEN Shows(d, k, TRUE, FALSE) ELSE UNCHANGED <<dots, stray>>
    BY DEF Sees
  <1> HIDE DEF g
  <1>4. Turn(d) /\ doing'[d] = g /\ \A s \in Tasks \ {d} : doing'[s] = doing[s]
    BY <1>1, <1>2, <1>3, GoesTurn
  <1>5. PresenceTypeOK'
    BY <1>1, <1>3, <1>4, ShowsFits DEF PresenceTypeOK, Turn
  <1>6. FramesFit'
    <2>1. ConnectionFrame(d, g)
      BY <1>1, <1>2 DEF ConnectionFrame
    <2> QED BY <1>1, <1>4, <2>1, FramesKept
  <1>7. ActiveServed'
    BY <1>1, <1>2, <1>4 DEF PresenceInd, ActiveServed, Tasks
  <1>8. LatesKnown'
    <2>1. LateKnown(g, active)
      BY <1>2 DEF LateKnown, Parting
    <2> QED BY <1>1, <1>4, <2>1, LateStays DEF PresenceInd
  <1>9. ASSUME NEW c \in Conns, NEW n \in Names, c # d \/ n # k \/ ~shown
        PROVE  /\ n \in dots'[c] <=> n \in dots[c]
               /\ <<c, n>> \in stray' <=> <<c, n>> \in stray
    BY <1>1, <1>3, <1>9, ShowsOnlyThat
  <1>10. DotsOfContacts'
    <2> SUFFICES ASSUME NEW c \in up, NEW n \in Names, <<c, n>> \notin stray', n \in dots'[c],
                        Pair(n, NameOf[c]) \notin contacts
                 PROVE  \E r \in Requests : Purges(doing'[r], c, n)
      BY <1>1 DEF DotsOfContacts
    <2>1. c # d \/ n # k \/ ~shown
      BY <1>1, <1>3, ShowsThat
    <2>2. PICK r \in Requests : Purges(doing[r], c, n)
      BY <1>1, <1>9, <2>1 DEF PresenceInd, DotsOfContacts
    <2> QED BY <1>1, <1>4, <2>2 DEF Tasks
  <1>11. GoneTold'
    <2> SUFFICES ASSUME NEW c \in up, NEW n \in Names, <<c, n>> \notin stray', n \in dots'[c], ~Online(n)
                 PROVE  \E s \in Tasks : TellsGone(doing'[s], c, n)
      BY <1>1 DEF GoneTold, Online
    <2>1. PICK s \in Tasks : TellsGone(doing[s], c, n)
      BY <1>1, <1>9 DEF PresenceInd, GoneTold
    <2>2. CASE s = d
      BY <1>1, <1>2, <1>4, <2>1, <2>2 DEF TellsGone
    <2>3. CASE s # d
      BY <1>4, <2>1, <2>3
    <2> QED BY <2>2, <2>3
  <1>12. HereTold'
    <2> SUFFICES ASSUME NEW c \in up, NEW n \in Names, NEW x \in ConnsOf(n, active),
                        <<c, n>> \notin stray', n \notin dots'[c], Pair(n, NameOf[c]) \in contacts
                 PROVE  Owed(c, n, x)'
      BY <1>1 DEF HereTold, Owed
    <2>1. c # d \/ n # k
      BY <1>1, <1>3, ShowsThat DEF Online, OnlineIn
    <2>2. LooksFor(c, n) \/ \E s \in {x} \cup Requests : TellsHere(doing[s], c, n)
      BY <1>1, <1>9, <2>1 DEF PresenceInd, HereTold
    <2>3. c \in Tasks /\ x \in Tasks
      BY <1>1 DEF Tasks, ConnsOf
    <2>4. CASE LooksFor(c, n)
      BY <1>1, <1>2, <1>4, <2>1, <2>3, <2>4 DEF LooksFor, Owed
    <2>5. ASSUME NEW s \in {x} \cup Requests, TellsHere(doing[s], c, n) PROVE Owed(c, n, x)'
      <3>1. s # d
        BY <1>1, <2>5 DEF TellsHere
      <3> QED BY <1>4, <2>3, <2>5, <3>1 DEF Owed, Tasks
    <2> QED BY <2>2, <2>4, <2>5
  <1> QED BY <1>5, <1>6, <1>7, <1>8, <1>10, <1>11, <1>12 DEF PresenceInd

LEMMA OpensInd ==
    ASSUME PresenceInd, NEW d \in Conns, Opens(d)
    PROVE  PresenceInd'
  <1> DEFINE g == [AtRest EXCEPT !.pc = "ready", !.about = NameOf[d]]
  <1>1. /\ PresenceTypeOK /\ FramesFit /\ doing[d] = AtRest /\ d \in Tasks /\ d \notin Requests
        /\ NameOf[d] \in Names /\ up \subseteq active /\ active \subseteq Conns
        /\ active' = active \cup {d} /\ up' = up \cup {d} /\ contacts' = contacts
        /\ dots' = [dots EXCEPT ![d] = {}] /\ stray' = stray \ ({d} \X Names)
        /\ doing' = [Noticed(active') EXCEPT ![d] = g]
    BY PresenceAssumption DEF PresenceInd, PresenceTypeOK, Opens, Tasks
  <1>2. g \in Frames /\ g.pc = "ready" /\ g.about = NameOf[d] /\ g.to = {} /\ AtRest.pc = "idle"
    BY <1>1 DEF Frames, AtRest
  <1> HIDE DEF g
  <1>3. Turn(d) /\ doing'[d] = g /\ \A s \in Tasks \ {d} : doing'[s] = Noticed(active')[s]
    BY <1>1, <1>2, NoticedTurn
  <1>4. PresenceTypeOK'
    BY <1>1, <1>3 DEF PresenceTypeOK, Turn
  <1>5. FramesFit'
    <2>1. ConnectionFrame(d, g)
      BY <1>2 DEF ConnectionFrame
    <2> QED BY <1>1, <1>3, <2>1, FramesKept
  <1>6. ActiveServed'
    <2> SUFFICES ASSUME NEW c \in active, c # d PROVE doing'[c].pc \in {"ready", "greet", "snapshot"}
      BY <1>1, <1>2, <1>3 DEF ActiveServed
    <2> QED BY <1>1, <1>3 DEF PresenceInd, ActiveServed, Turn, Same, Tasks
  <1>7. LatesKnown'
    <2>1. LateKnown(g, active')
      BY <1>2 DEF LateKnown, Parting
    <2> QED BY <1>1, <1>3, <2>1, LateNoticed
  <1>8. \A c \in Conns, n \in Names : c # d => /\ dots'[c] = dots[c]
                                               /\ <<c, n>> \in stray' <=> <<c, n>> \in stray
    BY <1>1 DEF PresenceTypeOK
  <1>9. dots'[d] = {}
    BY <1>1 DEF PresenceTypeOK
  <1>10. \A s \in Tasks : s # d => Same(doing[s], doing'[s])
    BY <1>3 DEF Turn
  <1>11. DotsOfContacts'
    <2> SUFFICES ASSUME NEW c \in up, c # d, NEW n \in Names, <<c, n>> \notin stray', n \in dots'[c],
                        Pair(n, NameOf[c]) \notin contacts
                 PROVE  \E r \in Requests : Purges(doing'[r], c, n)
      BY <1>1, <1>9 DEF DotsOfContacts
    <2>1. PICK r \in Requests : Purges(doing[r], c, n)
      BY <1>1, <1>8 DEF PresenceInd, DotsOfContacts
    <2>2. Same(doing[r], doing'[r])
      BY <1>1, <1>10 DEF Tasks
    <2> QED BY <2>1, <2>2 DEF Purges, Reaches, Same
  <1>12. GoneTold'
    <2> SUFFICES ASSUME NEW c \in up, c # d, NEW n \in Names, <<c, n>> \notin stray', n \in dots'[c],
                        ~Online(n)'
                 PROVE  \E s \in Tasks : TellsGone(doing'[s], c, n)
      BY <1>1, <1>9 DEF GoneTold
    <2>1. ~Online(n)
      BY <1>1 DEF Online, OnlineIn, ConnsOf
    <2>2. PICK s \in Tasks : TellsGone(doing[s], c, n)
      BY <1>1, <1>8, <2>1 DEF PresenceInd, GoneTold
    <2>3. s # d
      BY <1>1, <1>2, <2>2 DEF TellsGone
    <2> QED BY <1>10, <2>2, <2>3 DEF TellsGone, Reaches, Same
  <1>13. HereTold'
    <2> SUFFICES ASSUME NEW c \in up', NEW n \in Names, NEW x \in ConnsOf(n, active'),
                        <<c, n>> \notin stray', n \notin dots'[c], Pair(n, NameOf[c]) \in contacts
                 PROVE  Owed(c, n, x)'
      BY <1>1 DEF HereTold, Owed
    <2>1. CASE c = d
      BY <1>2, <1>3, <2>1 DEF Owed, LooksFor
    <2>2. CASE x = d
      <3>1. n = NameOf[d]
        BY <2>2 DEF ConnsOf
      <3> QED BY <1>2, <1>3, <2>2, <3>1 DEF Owed, TellsHere
    <2>3. CASE c # d /\ x # d
      <3>1. c \in up /\ c \in Tasks /\ x \in ConnsOf(n, active) /\ x \in Tasks
        BY <1>1, <2>3 DEF ConnsOf, Tasks
      <3>2. LooksFor(c, n) \/ \E s \in {x} \cup Requests : TellsHere(doing[s], c, n)
        BY <1>1, <1>8, <2>3, <3>1 DEF PresenceInd, HereTold
      <3>3. CASE LooksFor(c, n)
        BY <1>10, <2>3, <3>1, <3>3 DEF LooksFor, Owed, Same
      <3>4. ASSUME NEW s \in {x} \cup Requests, TellsHere(doing[s], c, n) PROVE Owed(c, n, x)'
        <4>1. Same(doing[s], doing'[s])
          BY <1>1, <1>10, <2>3, <3>1 DEF Tasks
        <4> QED BY <3>4, <4>1 DEF TellsHere, Reaches, Same, Owed
      <3> QED BY <3>2, <3>3, <3>4
    <2> QED BY <2>1, <2>2, <2>3
  <1> QED BY <1>4, <1>5, <1>6, <1>7, <1>11, <1>12, <1>13 DEF PresenceInd

LEMMA SendsMessageInd ==
    ASSUME PresenceInd, NEW r \in Requests, NEW u \in Names, NEW v \in Names, SendsMessage(r, u, v)
    PROVE  PresenceInd'
  <1> DEFINE f == doing[r]
             g == [AtRest EXCEPT !.pc = "look", !.about = u, !.todo = {v}, !.more = TRUE]
  <1>1. /\ PresenceTypeOK /\ FramesFit /\ r \in Tasks /\ r \notin Conns /\ f = AtRest /\ u # v
        /\ up \subseteq active /\ active \subseteq Conns /\ contacts' = contacts \cup {Pair(u, v)}
        /\ active' = active /\ up' = up /\ dots' = dots /\ stray' = stray
    BY PresenceAssumption DEF PresenceInd, PresenceTypeOK, SendsMessage, Tasks
  <1>2. /\ g \in Frames /\ g.pc = "look" /\ g.about = u /\ g.todo = {v} /\ g.to = {} /\ g.more
        /\ AtRest.pc = "idle"
    BY DEF Frames, AtRest
  <1> HIDE DEF g
  <1>3. Turn(r) /\ doing'[r] = g /\ \A s \in Tasks \ {r} : doing'[s] = doing[s]
    BY <1>1, <1>2, GoesTurn DEF SendsMessage, g
  <1>4. PresenceTypeOK'
    <2>1. Pair(u, v) \in Pairs
      BY <1>1 DEF Pairs, Pair
    <2> QED BY <1>1, <1>3, <2>1 DEF PresenceTypeOK, Turn
  <1>5. FramesFit'
    <2>1. RequestFrame(g)
      BY <1>2 DEF RequestFrame
    <2> QED BY <1>1, <1>3, <2>1, FramesKept
  <1>6. ActiveServed'
    BY <1>1, <1>3 DEF PresenceInd, ActiveServed, Tasks
  <1>7. LatesKnown'
    <2>1. LateKnown(g, active)
      BY <1>2 DEF LateKnown, Parting
    <2> QED BY <1>1, <1>3, <2>1, LateStays DEF PresenceInd
  <1>8. \A c, n : ~Purges(f, c, n) /\ ~TellsGone(f, c, n) /\ ~TellsHere(f, c, n)
    BY <1>1, <1>2 DEF Purges, TellsGone, TellsHere
  <1>9. DotsOfContacts'
    BY <1>1, <1>3, <1>8, QuietDots DEF PresenceInd
  <1>10. GoneTold'
    BY <1>1, <1>3, <1>8, QuietGone DEF PresenceInd
  <1>11. HereTold'
    <2> SUFFICES ASSUME NEW c \in up, NEW n \in Names, NEW x \in ConnsOf(n, active),
                        <<c, n>> \notin stray, n \notin dots[c], Pair(n, NameOf[c]) \in contacts'
                 PROVE  Owed(c, n, x)'
      BY <1>1 DEF HereTold, Owed
    <2>1. CASE Pair(n, NameOf[c]) \in contacts
      <3>1. c \in Tasks /\ x \in Tasks /\ c # r
        BY <1>1 DEF Tasks, ConnsOf
      <3>2. LooksFor(c, n) \/ \E s \in {x} \cup Requests : TellsHere(doing[s], c, n)
        BY <2>1 DEF PresenceInd, HereTold
      <3>3. CASE LooksFor(c, n)
        BY <1>3, <3>1, <3>3 DEF LooksFor, Owed
      <3>4. ASSUME NEW s \in {x} \cup Requests, TellsHere(doing[s], c, n) PROVE Owed(c, n, x)'
        BY <1>3, <1>8, <3>1, <3>4 DEF Owed, Tasks
      <3> QED BY <3>2, <3>3, <3>4
    <2>2. CASE Pair(n, NameOf[c]) \notin contacts
      <3>1. (n = u /\ NameOf[c] = v) \/ (n = v /\ NameOf[c] = u)
        BY <1>1, <2>2 DEF Pair
      <3>2. TellsHere(g, c, n)
        BY <1>2, <3>1 DEF TellsHere, Reaches
      <3> QED BY <1>3, <3>2 DEF Owed
    <2> QED BY <2>1, <2>2
  <1> QED BY <1>4, <1>5, <1>6, <1>7, <1>9, <1>10, <1>11 DEF PresenceInd

\* What becomes of the dots of those who are contacts no more
LEMMA PartsDots ==
    ASSUME PresenceTypeOK, NEW pairs, NEW told, Parts(pairs, told)
    PROVE  /\ contacts' \subseteq contacts /\ stray \subseteq stray' /\ stray' \subseteq Conns \X Names
           /\ \A c \in Conns, n \in Names :
                 n \in dots[c] /\ <<c, n>> \notin stray' /\ Pair(n, NameOf[c]) \in contacts =>
                    Pair(n, NameOf[c]) \in contacts' \/ <<c, n>> \in told
  BY DEF PresenceTypeOK, Parts

LEMMA DeletesUserInd ==
    ASSUME PresenceInd, NEW r \in Requests, DeletesUser(r)
    PROVE  PresenceInd'
  <1> DEFINE f == doing[r]
             g == [f EXCEPT !.pc = "purge"]
             told == {s \in Conns \X Names : s[2] = f.about /\ NameOf[s[1]] \in f.knew}
  <1>1. /\ PresenceTypeOK /\ FramesFit /\ r \in Tasks /\ r \notin Conns /\ f \in Frames
        /\ f.pc = "delete" /\ f.about \in Names /\ f.to = {} /\ f.knew \subseteq f.todo
        /\ up \subseteq active /\ active \subseteq Conns
        /\ active' = active /\ up' = up /\ dots' = dots
    BY PresenceAssumption DEF PresenceInd, PresenceTypeOK, DeletesUser, Tasks, FramesFit, RequestFrame
  <1>2. g \in Frames /\ g.pc = "purge" /\ g.about = f.about /\ g.todo = f.todo /\ g.to = {}
    BY <1>1 DEF Frames
  <1>3. Goes(r, g) /\ Parts({p \in contacts : f.about \in p}, told)
    BY DEF DeletesUser
  <1> HIDE DEF g, told
  <1>4. Turn(r) /\ doing'[r] = g /\ \A s \in Tasks \ {r} : doing'[s] = doing[s]
    BY <1>1, <1>2, <1>3, GoesTurn
  <1>5. /\ contacts' \subseteq contacts /\ stray \subseteq stray' /\ stray' \subseteq Conns \X Names
        /\ \A c \in Conns, n \in Names :
              n \in dots[c] /\ <<c, n>> \notin stray' /\ Pair(n, NameOf[c]) \in contacts =>
                 Pair(n, NameOf[c]) \in contacts' \/ <<c, n>> \in told
    BY <1>1, <1>3, PartsDots
  <1>6. PresenceTypeOK'
    BY <1>1, <1>4, <1>5 DEF PresenceTypeOK, Turn
  <1>7. FramesFit'
    <2>1. RequestFrame(g)
      BY <1>1, <1>2 DEF RequestFrame
    <2> QED BY <1>1, <1>4, <2>1, FramesKept
  <1>8. ActiveServed'
    BY <1>1, <1>4 DEF PresenceInd, ActiveServed, Tasks
  <1>9. LatesKnown'
    <2>1. LateKnown(g, active)
      BY <1>2 DEF LateKnown, Parting
    <2> QED BY <1>1, <1>4, <2>1, LateStays DEF PresenceInd
  <1>10. \A c, n : ~Purges(f, c, n) /\ ~TellsGone(f, c, n) /\ ~TellsHere(f, c, n)
    BY <1>1 DEF Purges, TellsGone, TellsHere
  <1>11. DotsOfContacts'
    <2> SUFFICES ASSUME NEW c \in up, NEW n \in Names, <<c, n>> \notin stray', n \in dots[c],
                        Pair(n, NameOf[c]) \notin contacts'
                 PROVE  \E s \in Requests : Purges(doing'[s], c, n)
      BY <1>1 DEF DotsOfContacts
    <2>1. CASE Pair(n, NameOf[c]) \in contacts
      <3>1. <<c, n>> \in told
        BY <1>1, <1>5, <2>1
      <3>2. Purges(g, c, n)
        BY <1>1, <1>2, <3>1 DEF told, Purges, Reaches
      <3> QED BY <1>4, <3>2
    <2>2. CASE Pair(n, NameOf[c]) \notin contacts
      <3>1. PICK s \in Requests : Purges(doing[s], c, n)
        BY <1>5, <2>2 DEF PresenceInd, DotsOfContacts
      <3> QED BY <1>4, <1>10, <3>1 DEF Tasks
    <2> QED BY <2>1, <2>2
  <1>12. GoneTold'
    BY <1>1, <1>4, <1>5, <1>10, QuietGone DEF PresenceInd
  <1>13. HereTold'
    BY <1>1, <1>4, <1>5, <1>10, QuietHere DEF PresenceInd
  <1> QED BY <1>6, <1>7, <1>8, <1>9, <1>11, <1>12, <1>13 DEF PresenceInd

LEMMA ForgetsInd ==
    ASSUME PresenceInd, NEW p \in contacts, Forgets(p)
    PROVE  PresenceInd'
  <1>1. /\ PresenceTypeOK /\ doing' = doing
        /\ up \subseteq active /\ active \subseteq Conns
        /\ active' = active /\ up' = up /\ dots' = dots
    BY DEF PresenceInd, PresenceTypeOK, Forgets
  <1>2. /\ contacts' \subseteq contacts /\ stray \subseteq stray' /\ stray' \subseteq Conns \X Names
        /\ \A c \in Conns, n \in Names :
              n \in dots[c] /\ <<c, n>> \notin stray' /\ Pair(n, NameOf[c]) \in contacts =>
                 Pair(n, NameOf[c]) \in contacts' \/ <<c, n>> \in {}
    BY <1>1, PartsDots DEF Forgets
  <1>3. PresenceTypeOK' /\ FramesFit' /\ ActiveServed' /\ LatesKnown'
    BY <1>1, <1>2 DEF PresenceInd, PresenceTypeOK, FramesFit, ActiveServed, LatesKnown
  <1>4. DotsOfContacts'
    BY <1>1, <1>2 DEF PresenceInd, DotsOfContacts
  <1>5. GoneTold'
    BY <1>1, <1>2 DEF PresenceInd, GoneTold, Online
  <1>6. HereTold'
    BY <1>1, <1>2 DEF PresenceInd, HereTold, LooksFor
  <1> QED BY <1>3, <1>4, <1>5, <1>6 DEF PresenceInd

-----------------------------------------------------------------------------
(* The theorems about Presence.                                            *)

LEMMA PresenceInitInd == PresenceInit => PresenceInd
  <1> SUFFICES ASSUME PresenceInit PROVE PresenceInd
    OBVIOUS
  <1>1. AtRest.pc = "idle" /\ AtRest.to = {}
    BY DEF AtRest
  <1>2. PresenceTypeOK /\ FramesFit /\ LatesKnown
    BY <1>1, RestFits
    DEF PresenceInit, PresenceTypeOK, FramesFit, ConnectionFrame, RequestFrame, LatesKnown, LateKnown,
        Parting, Tasks
  <1>3. ActiveServed /\ DotsOfContacts /\ GoneTold /\ HereTold
    BY DEF PresenceInit, ActiveServed, DotsOfContacts, GoneTold, HereTold
  <1> QED BY <1>2, <1>3 DEF PresenceInd

LEMMA PresenceStutterInd == PresenceInd /\ UNCHANGED presenceVars => PresenceInd'
  BY DEF PresenceInd, presenceVars, PresenceTypeOK, FramesFit, ActiveServed, LatesKnown, DotsOfContacts,
         GoneTold, HereTold, Online, LooksFor

LEMMA PresenceNextInd == PresenceInd /\ [PresenceNext]_presenceVars => PresenceInd'
  BY NextPeerInd, TellInd, TellFailsInd, SendFailsInd, OpensInd, GreetsInd, LooksRoundInd, SeesInd,
     SeesNotInd, BreaksInd, LeavesInd, ThroughInd, SendsMessageInd, LooksInd, DeliveredInd,
     DeletesAccountInd, DeletesUserInd, DeletesNotInd, ClosesUserInd, ForgetsInd, StartsAgainInd,
     PresenceStutterInd
  DEF PresenceNext

LEMMA PresenceIndTells == PresenceInd => DotsTell
  <1> SUFFICES ASSUME PresenceInd, NEW c \in up, NEW n \in Names, <<c, n>> \notin stray
               PROVE  /\ n \in dots[c] /\ ~Online(n) => \E t \in Tasks : TellsGone(doing[t], c, n)
                      /\ n \notin dots[c] /\ Online(n) /\ Pair(n, NameOf[c]) \in contacts =>
                            LooksFor(c, n) \/ \E t \in active \cup Requests : TellsHere(doing[t], c, n)
    BY DEF DotsTell
  <1>1. n \in dots[c] /\ ~Online(n) => \E t \in Tasks : TellsGone(doing[t], c, n)
    BY DEF PresenceInd, GoneTold
  <1>2. ASSUME n \notin dots[c], Online(n), Pair(n, NameOf[c]) \in contacts
        PROVE  LooksFor(c, n) \/ \E t \in active \cup Requests : TellsHere(doing[t], c, n)
    <2>1. PICK x \in ConnsOf(n, active) : TRUE
      BY <1>2 DEF Online, OnlineIn
    <2>2. LooksFor(c, n) \/ \E t \in {x} \cup Requests : TellsHere(doing[t], c, n)
      BY <1>2 DEF PresenceInd, HereTold
    <2>3. x \in active
      BY DEF ConnsOf
    <2> QED BY <2>2, <2>3
  <1> QED BY <1>1, <1>2

LEMMA PresenceStays == PresenceSpec => []PresenceInd
  BY PresenceInitInd, PresenceNextInd, PTL DEF PresenceSpec

\* Every variable of Presence stays in its domain: a connection whose client is
\* there is registered, only two different names become contacts.
THEOREM PresenceTypeCorrect == PresenceSpec => []PresenceTypeOK
  <1>1. PresenceInd => PresenceTypeOK
    BY DEF PresenceInd
  <1> QED BY <1>1, PresenceStays, PTL

\* Presence, rounds, snapshot, deliver and delete_account between them put
\* every dot right.
THEOREM WrongDotsArePutRight == PresenceSpec => []DotsTell
  BY PresenceStays, PresenceIndTells, PTL
=============================================================================
