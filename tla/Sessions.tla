------------------------------ MODULE Sessions ------------------------------
(***************************************************************************)
(* Sessions of the relay (server/main.py): the tokens of _tokens and the   *)
(* sockets of ConnectionManager.active, against the accounts they were     *)
(* opened for.  Tokens and sockets name an account by its username only,   *)
(* and a username is free for registration again once its account is       *)
(* deleted; so the model numbers the accounts (history information), and   *)
(* asks which account a session was opened for.                            *)
(*                                                                         *)
(* register and login run in pool threads and spend most of their time     *)
(* hashing, between reading the users table and issuing the token.         *)
(* delete_account runs on the event loop, but deletes in a thread.         *)
(*                                                                         *)
(* A lapsed token is refused and dropped wherever it is looked at, so a    *)
(* token that lapses simply goes.  Left out: wrong secrets (nothing        *)
(* changes), rate limits (RateLimit), presence (Presence), groups and      *)
(* contacts.                                                               *)
(***************************************************************************)
EXTENDS Integers, FiniteSets

CONSTANTS
    Users,      \* usernames
    Threads,    \* pool threads inside register or login
    Deleters,   \* delete_account requests at a time
    MaxAccount, \* bound on the accounts ever registered
    MaxToken,   \* bound on the tokens ever issued
    NoUser      \* not a username

ASSUME SessionAssumption ==
    NoUser \notin Users /\ MaxAccount \in Nat /\ MaxToken \in Nat

VARIABLES
    account,  \* table users: the number of the account of each name, 0 for none
    born,     \* number of accounts registered so far
    tokens,   \* _tokens
    issued,   \* number of tokens issued so far
    sockets,  \* active: sockets that passed _ws_authenticate
    work,     \* frame of each thread
    deletes   \* frame of each delete_account

vars == <<account, born, tokens, issued, sockets, work, deletes>>

\* A session as the relay keeps it, the account it was opened for, and whether
\* that account was gone already when its token was issued.
Sessions == [id : 1..MaxToken, user : Users, of : 1..MaxAccount, late : BOOLEAN]

Work == [pc : {"idle", "create", "issue"}, user : Users \cup {NoUser}, of : 0..MaxAccount]

Deletes == [pc : {"idle", "delete", "purge"}, user : Users \cup {NoUser}]

Free     == [pc |-> "idle", user |-> NoUser, of |-> 0]
NoDelete == [pc |-> "idle", user |-> NoUser]

Init == /\ account = [u \in Users |-> 0] /\ born = 0
        /\ tokens = {} /\ issued = 0 /\ sockets = {}
        /\ work = [t \in Threads |-> Free]
        /\ deletes = [d \in Deleters |-> NoDelete]

Of(u, sessions) == {s \in sessions : s.user = u}

-----------------------------------------------------------------------------
(* register and login.                                                     *)

\* register: user_exists says no; the secret is hashed.
RegisterCheck(t, u) ==
    /\ work[t] = Free
    /\ account[u] = 0
    /\ work' = [work EXCEPT ![t] = [pc |-> "create", user |-> u, of |-> 0]]
    /\ UNCHANGED <<account, born, tokens, issued, sockets, deletes>>

\* create_user, or 409 when another registration was faster.
CreateUser(t) ==
    /\ work[t].pc = "create" /\ born < MaxAccount
    /\ IF account[work[t].user] = 0
       THEN /\ born' = born + 1
            /\ account' = [account EXCEPT ![work[t].user] = born + 1]
            /\ work' = [work EXCEPT ![t] = [@ EXCEPT !.pc = "issue", !.of = born + 1]]
       ELSE /\ work' = [work EXCEPT ![t] = Free]
            /\ UNCHANGED <<account, born>>
    /\ UNCHANGED <<tokens, issued, sockets, deletes>>

\* login: get_user; the secret is hashed, and matches the row that was read.
LoginRead(t, u) ==
    /\ work[t] = Free
    /\ account[u] # 0
    /\ work' = [work EXCEPT ![t] = [pc |-> "issue", user |-> u, of |-> account[u]]]
    /\ UNCHANGED <<account, born, tokens, issued, sockets, deletes>>

\* Mutant of IssueToken: the token is not drawn anew.
MutantIssueTokenFixed(t) ==
    /\ work[t].pc = "issue" /\ issued < MaxToken
    /\ issued' = issued + 1
    /\ tokens' = tokens \cup {[id |-> 1, user |-> work[t].user, of |-> work[t].of,
                               late |-> account[work[t].user] # work[t].of]}
    /\ work' = [work EXCEPT ![t] = Free]
    /\ UNCHANGED <<account, born, sockets, deletes>>

\* _issue_token
IssueToken(t) ==
    /\ work[t].pc = "issue" /\ issued < MaxToken
    /\ issued' = issued + 1
    /\ tokens' = tokens \cup {[id |-> issued + 1, user |-> work[t].user, of |-> work[t].of,
                               late |-> account[work[t].user] # work[t].of]}
    /\ work' = [work EXCEPT ![t] = Free]
    /\ UNCHANGED <<account, born, sockets, deletes>>

-----------------------------------------------------------------------------
(* Tokens and sockets.                                                     *)

\* logout, or the end of TOKEN_TTL.
Ends(s) ==
    /\ s \in tokens
    /\ tokens' = tokens \ {s}
    /\ UNCHANGED <<account, born, issued, sockets, work, deletes>>

\* websocket_endpoint: _resolve_token and manager.connect, no await between.
Connect(s) ==
    /\ s \in tokens
    /\ sockets' = sockets \cup {s}
    /\ UNCHANGED <<account, born, tokens, issued, work, deletes>>

Disconnect(s) ==
    /\ s \in sockets
    /\ sockets' = sockets \ {s}
    /\ UNCHANGED <<account, born, tokens, issued, work, deletes>>

-----------------------------------------------------------------------------
(* delete_account.                                                         *)

\* require_user resolves the token; from here on there is only the name.
DeleteRequest(d, s) ==
    /\ deletes[d] = NoDelete
    /\ s \in tokens
    /\ deletes' = [deletes EXCEPT ![d] = [pc |-> "delete", user |-> s.user]]
    /\ UNCHANGED <<account, born, tokens, issued, sockets, work>>

\* db.delete_user in its thread.
DeleteUser(d) ==
    /\ deletes[d].pc = "delete"
    /\ account' = [account EXCEPT ![deletes[d].user] = 0]
    /\ deletes' = [deletes EXCEPT ![d] = [@ EXCEPT !.pc = "purge"]]
    /\ UNCHANGED <<born, tokens, issued, sockets, work>>

\* delete_user raises (see GroupRelay): the request ends there.
DeleteFails(d) ==
    /\ deletes[d].pc = "delete"
    /\ deletes' = [deletes EXCEPT ![d] = NoDelete]
    /\ UNCHANGED <<account, born, tokens, issued, sockets, work>>

\* Mutant of Purge: the tokens go, the sockets are forgotten.
MutantPurgeTokensOnly(d) ==
    /\ deletes[d].pc = "purge"
    /\ tokens' = tokens \ Of(deletes[d].user, tokens)
    /\ deletes' = [deletes EXCEPT ![d] = NoDelete]
    /\ UNCHANGED <<account, born, issued, sockets, work>>

\* The tokens of the name, then close_user, which unregisters every socket of
\* the name before its first await.
Purge(d) ==
    /\ deletes[d].pc = "purge"
    /\ tokens' = tokens \ Of(deletes[d].user, tokens)
    /\ sockets' = sockets \ Of(deletes[d].user, sockets)
    /\ deletes' = [deletes EXCEPT ![d] = NoDelete]
    /\ UNCHANGED <<account, born, issued, work>>

\* _tokens and the sockets are in memory only.
Restart ==
    /\ tokens' = {} /\ sockets' = {}
    /\ work' = [t \in Threads |-> Free]
    /\ deletes' = [d \in Deleters |-> NoDelete]
    /\ UNCHANGED <<account, born, issued>>

-----------------------------------------------------------------------------
Next ==
    \/ \E t \in Threads, u \in Users : RegisterCheck(t, u)
    \/ \E t \in Threads : CreateUser(t)
    \/ \E t \in Threads, u \in Users : LoginRead(t, u)
    \/ \E t \in Threads : IssueToken(t)
    \/ \E s \in tokens : Ends(s)
    \/ \E s \in tokens : Connect(s)
    \/ \E s \in sockets : Disconnect(s)
    \/ \E d \in Deleters, s \in tokens : DeleteRequest(d, s)
    \/ \E d \in Deleters : DeleteUser(d)
    \/ \E d \in Deleters : DeleteFails(d)
    \/ \E d \in Deleters : Purge(d)
    \/ Restart

Spec == Init /\ [][Next]_vars

-----------------------------------------------------------------------------
(* Properties.                                                             *)

\* Type invariant; tokens and accounts are numbered once.
TypeOK ==
    /\ account \in [Users -> 0..born] /\ born \in 0..MaxAccount
    /\ \A u, v \in Users : account[u] = account[v] /\ account[u] # 0 => u = v
    /\ tokens \subseteq Sessions /\ sockets \subseteq Sessions /\ issued \in 0..MaxToken
    /\ \A s, r \in tokens \cup sockets : s.id <= issued /\ (s.id = r.id => s = r)
    /\ work \in [Threads -> Work]
    /\ deletes \in [Deleters -> Deletes]

\* A session whose account is gone, and nobody is about to end it.
Orphan(s) == /\ s.of # account[s.user]
             /\ \A d \in Deleters : ~(deletes[d].pc = "purge" /\ deletes[d].user = s.user)

(* delete_account leaves no token and no socket of the account behind, in    *)
(* whatever order other requests of the same name come, with one exception:  *)
(* sessions whose token was issued when the account was gone already.        *)
OrphansAreLate == \A s \in tokens \cup sockets : Orphan(s) => s.late
=============================================================================
