---------------------------- MODULE Attachments -----------------------------
(***************************************************************************)
(* What the relay promises of file messages: FileRelay is shown to         *)
(* implement it, with handlers that check in one database call and store   *)
(* in another, sweeps and deletions in threads, and restarts.              *)
(*                                                                         *)
(* A letter stays until its deadline, or until its sender, its recipient   *)
(* or its group goes.  While it stays, so does the blob it names, and if   *)
(* there is one it is its sender's.  A blob that no letter names is spared *)
(* for a while, unless its letter was the one that expired.  Ids of blobs  *)
(* and letters are used once.                                              *)
(***************************************************************************)
EXTENDS Naturals

CONSTANTS
    Names,     \* usernames
    Files,     \* ids of blobs
    Letters,   \* all possible ones: id, file, from, to, and whether there is a deadline, ttl
    Everyone,  \* the recipient of what is sent to the group
    Nobody     \* holds blobs that are not there

VARIABLES
    accounts,  \* names that have an account
    crowd,     \* those of them that are in the group
    holder,    \* of each blob
    spent,     \* ids of blobs that have been handed out
    letters,   \* those that are there
    count,     \* ids of letters are below it
    due,       \* ids of letters past their deadline
    old        \* blobs that have been there for a while

attached == <<accounts, crowd, holder, spent, letters, count, due, old>>
people == <<accounts, crowd>>
times  == <<due, old>>

Named(ls) == {l.file : l \in ls}

\* Blobs go, unless they are named.
Lose(fs) == holder' = [f \in Files |-> IF f \in fs \ Named(letters') THEN Nobody ELSE holder[f]]

Init == /\ accounts = Names /\ crowd = Names
        /\ holder = [f \in Files |-> Nobody] /\ spent = {}
        /\ letters = {} /\ count = 1 /\ due = {} /\ old = {}

\* An upload, which may fail.
Put(u, f) ==
    /\ f \notin spent
    /\ spent' = spent \cup {f}
    /\ (u \in accounts /\ holder' = [holder EXCEPT ![f] = u]) \/ UNCHANGED holder
    /\ UNCHANGED <<people, letters, count, times>>

Post(l) ==
    /\ l.id = count /\ count' = count + 1
    /\ l.from \in accounts
    /\ IF l.to = Everyone THEN crowd # {} ELSE l.to \in accounts
    /\ l.file \in spent /\ holder[l.file] \in {l.from, Nobody}
    /\ letters' = letters \cup {l}
    /\ UNCHANGED <<people, holder, spent, times>>

\* Letters expire; blobs only they have named go with them.
Expire(ls) ==
    /\ \A l \in ls : l.id \in due
    /\ letters' = letters \ ls
    /\ Lose(Named(ls))
    /\ UNCHANGED <<people, spent, count, times>>

Clear ==
    /\ UNCHANGED <<people, spent, letters, count, times>>
    /\ Lose(old)

\* Accounts and members come and go, and what is theirs goes with them.
Change ==
    /\ accounts' \in SUBSET Names /\ crowd' \in SUBSET accounts'
    /\ letters' = {l \in letters : /\ l.from \in accounts'
                                   /\ IF l.to = Everyone THEN crowd' # {} ELSE l.to \in accounts'}
    /\ holder' = [f \in Files |-> IF holder[f] \in accounts' THEN holder[f] ELSE Nobody]
    /\ UNCHANGED <<spent, count, times>>

\* Only what has a deadline comes due.
Pass ==
    /\ due \subseteq due' /\ \A i \in due' \ due : \E l \in letters : l.id = i /\ l.ttl
    /\ old \subseteq old' /\ old' \subseteq spent
    /\ UNCHANGED <<people, holder, spent, letters, count>>

Next == \/ \E u \in Names, f \in Files : Put(u, f)
        \/ \E l \in Letters : Post(l)
        \/ \E ls \in SUBSET letters : Expire(ls)
        \/ Clear
        \/ Change
        \/ Pass

Spec == Init /\ [][Next]_attached
=============================================================================
