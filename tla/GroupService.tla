---------------------------- MODULE GroupService ----------------------------
(***************************************************************************)
(* What the relay promises of accounts and groups: a store whose every     *)
(* operation is whole and durable.  GroupRelay is shown to implement it,   *)
(* with its threads, transactions, failed statements and restarts.         *)
(*                                                                         *)
(* A group is the owner and when each member joined.  All that the clients *)
(* see of an operation outlasts a restart, but for groups that could only  *)
(* be formed in part: those are not kept until some later operation is.    *)
(***************************************************************************)
EXTENDS Naturals

CONSTANTS
    Users,     \* names, numbered in their order
    Gids,      \* groups
    Times,     \* when somebody may join
    NoUser     \* owns groups that are not there

VARIABLES
    accounts,  \* names that have an account
    owner,     \* of each group
    joined,    \* for each group, when each member joined; 0: is no member
    kept       \* groups that outlast a restart

tables == <<accounts, owner, joined, kept>>

There      == {g \in Gids : owner[g] # NoUser}
Members(g) == {u \in Users : joined[g][u] # 0}

\* The one of them who has been in the group for the longest time
IsEldest(g, them, u) ==
    u \in them /\ \A v \in them : \/ joined[g][u] < joined[g][v]
                                  \/ joined[g][u] = joined[g][v] /\ u <= v

Durable == kept' = There'

Init == /\ accounts = Users
        /\ owner = [g \in Gids |-> NoUser]
        /\ joined = [g \in Gids |-> [u \in Users |-> 0]]
        /\ kept = {}

Register(u) ==
    /\ u \notin accounts
    /\ accounts' = accounts \cup {u}
    /\ UNCHANGED <<owner, joined>> /\ Durable

\* Members who have no account keep a group from being formed as a whole.
Form(g, o) ==
    /\ g \notin There /\ o \in accounts
    /\ owner' = [owner EXCEPT ![g] = o]
    /\ \E ms \in SUBSET accounts, t \in Times :
          /\ joined' = [joined EXCEPT ![g] = [u \in Users |-> IF u \in ms THEN t ELSE 0]]
          /\ (o \in ms /\ Durable) \/ UNCHANGED kept
    /\ UNCHANGED accounts

\* Nobody gets in ahead of those who are there.
Join(g, u) ==
    /\ g \in There /\ u \in accounts \ Members(g)
    /\ \E t \in Times :
          /\ \A v \in Users : joined[g][v] <= t
          /\ joined' = [joined EXCEPT ![g] = [joined[g] EXCEPT ![u] = t]]
    /\ UNCHANGED <<accounts, owner>> /\ Durable

Part(g, u) ==
    /\ joined' = [joined EXCEPT ![g] = [joined[g] EXCEPT ![u] = 0]]
    /\ UNCHANGED <<accounts, owner>> /\ Durable

\* The group passes from an owner who has left it to the eldest member - or to
\* somebody who was, and has left it as well.
HandOver(g, o) ==
    /\ g \in There /\ o \in accounts
    /\ o \in Members(g) => IsEldest(g, Members(g), o) /\ owner[g] \notin Members(g) \ {o}
    /\ owner' = [owner EXCEPT ![g] = o]
    /\ UNCHANGED <<accounts, joined>> /\ Durable

Dissolve(g) ==
    /\ Members(g) = {}
    /\ owner' = [owner EXCEPT ![g] = NoUser]
    /\ UNCHANGED <<accounts, joined>> /\ Durable

\* What was u's goes to the eldest of the others, and with the last of them.
Close(u) ==
    /\ accounts' = accounts \ {u} /\ Durable
    /\ owner' \in [Gids -> Users \cup {NoUser}]
    /\ joined' = [g \in Gids |-> [joined[g] EXCEPT ![u] = 0]]
    /\ \A g \in Gids :
          IF owner[g] # u THEN owner'[g] = owner[g]
          ELSE IF Members(g) \subseteq {u} THEN owner'[g] = NoUser
          ELSE IsEldest(g, Members(g) \ {u}, owner'[g])

Settle == UNCHANGED <<accounts, owner, joined>> /\ Durable

\* A restart, or a deletion that finds what is not kept.
Forget ==
    /\ owner' = [g \in Gids |-> IF g \in kept THEN owner[g] ELSE NoUser]
    /\ joined' = [g \in Gids |-> IF g \in kept THEN joined[g] ELSE [u \in Users |-> 0]]
    /\ UNCHANGED <<accounts, kept>>

Next ==
    \/ \E u \in Users : Register(u) \/ Close(u)
    \/ \E g \in Gids, u \in Users : Form(g, u) \/ Join(g, u) \/ Part(g, u) \/ HandOver(g, u)
    \/ \E g \in Gids : Dissolve(g)
    \/ Settle \/ Forget

Spec == Init /\ [][Next]_tables
=============================================================================
