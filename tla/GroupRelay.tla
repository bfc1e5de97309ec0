----------------------------- MODULE GroupRelay -----------------------------
(***************************************************************************)
(* The relay's account and group tables (server/database.py) and the       *)
(* request handlers that change them (server/main.py).                     *)
(*                                                                         *)
(* One process runs three kinds of actors against ONE SQLite connection:   *)
(*   - the event loop, which runs one `async def` handler at a time up to  *)
(*     its first await; `loop` is that handler's frame, and every database *)
(*     call it makes is a step of its own;                                 *)
(*   - pool threads: db.delete_user (asyncio.to_thread), the `def` handler *)
(*     register, and the sweep;                                            *)
(*   - the operating system, which may kill the process (Crash).           *)
(* A database function holds database._lock throughout, so it is one step. *)
(*                                                                         *)
(* `db` is what the connection reads; `disk` is the last committed state.  *)
(* They differ only while a transaction is open.  No function leaves one   *)
(* open on purpose, but the sqlite3 module opens a transaction before each *)
(* INSERT, UPDATE or DELETE, and when that statement raises (a UNIQUE or a *)
(* FOREIGN KEY failure) it stays open: only delete_user rolls back.        *)
(*                                                                         *)
(* Left out: payloads, names and icons; envelopes, of which only the       *)
(* commit or failure of the INSERT matters here; tokens.  A token outlives *)
(* its account (it is checked before the body runs, and dropped after      *)
(* delete_user), so any name that was ever registered may issue a request; *)
(* every name is registered initially.                                     *)
(***************************************************************************)
EXTENDS Integers, FiniteSets

CONSTANTS
    Users,       \* usernames, as numbers in their SQL order (ORDER BY username)
    MaxGid,      \* bound on the group ids handed out
    MaxNow,      \* bound on the clock that stamps joined_at
    RegThreads   \* pool threads that may be inside register at a time

ASSUME UsersAssumption == Users \subseteq Nat \ {0}
ASSUME BoundsAssumption == MaxGid \in Nat /\ MaxNow \in Nat \ {0}

NoUser == 0
Names  == Users \cup {NoUser}
Gids   == 1..MaxGid

VARIABLES
    db,          \* the tables as the shared connection sees them
    disk,        \* the tables as last committed
    open,        \* a failed statement left its transaction open
    now,         \* time.time(), coarse: two calls may read the same value
    loop,        \* frame of the handler that occupies the event loop
    deleting,    \* accounts whose delete_user is queued in the thread pool
    registering  \* per thread, the name that passed register's user_exists

vars == <<db, disk, open, now, loop, deleting, registering>>

-----------------------------------------------------------------------------
(* Tables.  owner[g] = NoUser: no row for g.  joined[g][u] = 0: no row for *)
(* <<g, u>>.  next is the AUTOINCREMENT counter of groups.                 *)

Tables == [users  : SUBSET Users,
           owner  : [Gids -> Names],
           joined : [Gids -> [Users -> 0..MaxNow]],
           next   : 1..(MaxGid + 1)]

Live(d)       == {g \in Gids : d.owner[g] # NoUser}
Members(d, g) == {u \in Users : d.joined[g][u] # 0}

\* ORDER BY joined_at ASC, username ASC
Before(d, g, u, v) == \/ d.joined[g][u] < d.joined[g][v]
                      \/ d.joined[g][u] = d.joined[g][v] /\ u <= v

\* ... LIMIT 1: the head of that order, or no row
IsSuccessor(d, g, candidates, s) ==
    IF candidates = {} THEN s = NoUser
    ELSE s \in candidates /\ \A v \in candidates : Before(d, g, s, v)

\* Mutant: members stamped one clock reading ahead.
MutantWithGroupAhead(d, o, members) ==
    [users  |-> d.users,
     owner  |-> [d.owner EXCEPT ![d.next] = o],
     joined |-> [d.joined EXCEPT ![d.next] =
                    [u \in Users |-> IF u \in members THEN now + 1 ELSE 0]],
     next   |-> d.next + 1]

\* The row that create_group inserts, with the members inserted so far.
WithGroup(d, o, members) ==
    [users  |-> d.users,
     owner  |-> [d.owner EXCEPT ![d.next] = o],
     joined |-> [d.joined EXCEPT ![d.next] =
                    [u \in Users |-> IF u \in members THEN now ELSE 0]],
     next   |-> d.next + 1]

WithOwner(d, g, o) == [d EXCEPT !.owner = [d.owner EXCEPT ![g] = o]]

WithJoined(d, g, u, t) ==
    [d EXCEPT !.joined = [d.joined EXCEPT ![g] = [d.joined[g] EXCEPT ![u] = t]]]

\* DELETE FROM groups, with the cascade to group_members.
WithoutGroup(d, g) ==
    [d EXCEPT !.owner  = [d.owner EXCEPT ![g] = NoUser],
              !.joined = [d.joined EXCEPT ![g] = [u \in Users |-> 0]]]

\* Who owns each group once u is gone: groups u owns pass to the
\* longest-standing other member, or to nobody, which drops them.
Inherits(d, u, owners) ==
    \A g \in Gids :
        IF d.owner[g] = u THEN IsSuccessor(d, g, Members(d, g) \ {u}, owners[g])
        ELSE owners[g] = d.owner[g]

\* delete_user: ownership moves first, then the row of u goes, and its
\* memberships by cascade.
WithoutUser(d, u, owners) ==
    [users  |-> d.users \ {u},
     owner  |-> owners,
     joined |-> [g \in Gids |-> [v \in Users |->
                    IF v = u \/ owners[g] = NoUser THEN 0 ELSE d.joined[g][v]]],
     next   |-> d.next]

-----------------------------------------------------------------------------
(* How a database function ends.                                           *)

Commits(d) == db' = d /\ disk' = d /\ open' = FALSE

\* A statement raised: rows written before it stay in the open transaction.
Raises(d)  == db' = d /\ open' = TRUE /\ UNCHANGED disk

RollsBack  == db' = disk /\ open' = FALSE /\ UNCHANGED disk

InsertRow(allowed) == IF allowed THEN Commits(db) ELSE Raises(db)

-----------------------------------------------------------------------------
(* The handler on the event loop.  pc names its next database call.        *)

Ops == {"none", "create", "add", "remove", "send", "dm"}
Pcs == {"idle", "filter", "member", "exists", "insert", "remove", "succ", "hand", "drop"}

Frames == [pc : Pcs, op : Ops, me : Names, gid : 0..MaxGid, target : Names,
           owner : Names,        \* group["owner"] as get_group returned it
           todo : SUBSET Users,  \* req.members not looked up yet
           roster : SUBSET Users,
           succ : Names]         \* what oldest_group_member returned

Idle == [pc |-> "idle", op |-> "none", me |-> NoUser, gid |-> 0, target |-> NoUser,
         owner |-> NoUser, todo |-> {}, roster |-> {}, succ |-> NoUser]

Init == /\ db = [users  |-> Users,
                 owner  |-> [g \in Gids |-> NoUser],
                 joined |-> [g \in Gids |-> [u \in Users |-> 0]],
                 next   |-> 1]
        /\ disk = db
        /\ open = FALSE
        /\ now = 1
        /\ loop = Idle
        /\ deleting = {}
        /\ registering = [t \in RegThreads |-> NoUser]

LoopOnly  == UNCHANGED <<now, deleting, registering>>
NoDbWrite == UNCHANGED <<db, disk, open>>

\* POST /api/groups
CreateGroup(me, members) ==
    /\ loop = Idle
    /\ db.next <= MaxGid
    /\ loop' = [Idle EXCEPT !.pc = "filter", !.op = "create", !.me = me,
                            !.todo = members, !.roster = {me}]
    /\ NoDbWrite /\ LoopOnly

\* [m for m in req.members if db.user_exists(m)], one lookup at a time
FilterMember(u) ==
    /\ loop.pc = "filter" /\ u \in loop.todo
    /\ loop' = [loop EXCEPT !.todo = @ \ {u},
                            !.roster = IF u \in db.users THEN @ \cup {u} ELSE @]
    /\ NoDbWrite /\ LoopOnly

\* db.create_group: the owner's foreign key is checked by the first INSERT,
\* each member's by its own; the roster is a Python set, in any order.
InsertGroup ==
    /\ loop.pc = "filter" /\ loop.todo = {}
    /\ \/ loop.me \notin db.users /\ Raises(db)
       \/ loop.roster \subseteq db.users /\ Commits(WithGroup(db, loop.me, loop.roster))
       \/ /\ loop.me \in db.users
          /\ ~(loop.roster \subseteq db.users)
          /\ \E inserted \in SUBSET (loop.roster \cap db.users) :
                Raises(WithGroup(db, loop.me, inserted))
    /\ loop' = Idle
    /\ LoopOnly

\* _require_group_member reads the group, then (a second call) the membership.
OpenGroup(op, me, g, target) ==
    /\ loop = Idle
    /\ g \in Live(db)
    /\ loop' = [Idle EXCEPT !.pc = "member", !.op = op, !.me = me, !.gid = g,
                            !.target = target, !.owner = db.owner[g]]
    /\ NoDbWrite /\ LoopOnly

AddMember(me, g, target)    == OpenGroup("add", me, g, target)
RemoveMember(me, g, target) == OpenGroup("remove", me, g, target)
SendGroup(me, g)            == OpenGroup("send", me, g, NoUser)

Permitted == CASE loop.op = "add"    -> loop.owner = loop.me
               [] loop.op = "remove" -> loop.me \in {loop.owner, loop.target}
               [] OTHER              -> TRUE

FirstCall == CASE loop.op = "add"    -> "exists"
               [] loop.op = "remove" -> "remove"
               [] OTHER              -> "insert"

RequireMember ==
    /\ loop.pc = "member"
    /\ loop' = IF loop.me \in Members(db, loop.gid) /\ Permitted
               THEN [loop EXCEPT !.pc = FirstCall] ELSE Idle
    /\ NoDbWrite /\ LoopOnly

\* POST /api/messages starts with the same lookup of its recipient.
SendMessage(me, recipient) ==
    /\ loop = Idle
    /\ loop' = [Idle EXCEPT !.pc = "exists", !.op = "dm", !.me = me, !.target = recipient]
    /\ NoDbWrite /\ LoopOnly

UserExists ==
    /\ loop.pc = "exists"
    /\ loop' = IF loop.target \in db.users THEN [loop EXCEPT !.pc = "insert"] ELSE Idle
    /\ NoDbWrite /\ LoopOnly

\* Mutant: conn.commit() forgotten.
MutantAddGroupMemberOpen ==
    /\ loop.pc = "insert" /\ loop.op = "add"
    /\ Raises(IF loop.gid \in Live(db) /\ loop.target \in db.users
                 /\ loop.target \notin Members(db, loop.gid)
              THEN WithJoined(db, loop.gid, loop.target, now) ELSE db)
    /\ loop' = Idle
    /\ LoopOnly

\* db.add_group_member.  OR IGNORE spares an existing row, not a foreign key.
AddGroupMember ==
    /\ loop.pc = "insert" /\ loop.op = "add"
    /\ IF loop.gid \in Live(db) /\ loop.target \in db.users
       THEN Commits(IF loop.target \in Members(db, loop.gid) THEN db
                    ELSE WithJoined(db, loop.gid, loop.target, now))
       ELSE Raises(db)
    /\ loop' = Idle
    /\ LoopOnly

\* db.store_group_envelope, db.store_envelope
StoreEnvelope ==
    /\ loop.pc = "insert" /\ loop.op \in {"send", "dm"}
    /\ InsertRow(/\ loop.me \in db.users
                 /\ IF loop.op = "send" THEN loop.gid \in Live(db)
                    ELSE loop.target \in db.users)
    /\ loop' = Idle
    /\ LoopOnly

\* Mutant: an owner leaves like anybody else.
MutantRemoveGroupMemberOnly ==
    /\ loop.pc = "remove"
    /\ Commits(WithJoined(db, loop.gid, loop.target, 0))
    /\ loop' = Idle
    /\ LoopOnly

\* db.remove_group_member; the handler compares with the owner it read before.
RemoveGroupMember ==
    /\ loop.pc = "remove"
    /\ Commits(WithJoined(db, loop.gid, loop.target, 0))
    /\ loop' = IF loop.target = loop.owner THEN [loop EXCEPT !.pc = "succ"] ELSE Idle
    /\ LoopOnly

OldestGroupMember ==
    /\ loop.pc = "succ"
    /\ \E s \in Names :
          /\ IsSuccessor(db, loop.gid, Members(db, loop.gid), s)
          /\ loop' = [loop EXCEPT !.succ = s, !.pc = IF s = NoUser THEN "drop" ELSE "hand"]
    /\ NoDbWrite /\ LoopOnly

\* UPDATE groups: no row, no foreign key to check.
SetGroupOwner ==
    /\ loop.pc = "hand"
    /\ IF loop.gid \notin Live(db) THEN Commits(db)
       ELSE IF loop.succ \in db.users THEN Commits(WithOwner(db, loop.gid, loop.succ))
       ELSE Raises(db)
    /\ loop' = Idle
    /\ LoopOnly

DeleteGroup ==
    /\ loop.pc = "drop"
    /\ Commits(WithoutGroup(db, loop.gid))
    /\ loop' = Idle
    /\ LoopOnly

\* POST /api/files: one call, whose row names its uploader.
StoreFile(me) ==
    /\ loop = Idle
    /\ InsertRow(me \in db.users)
    /\ UNCHANGED loop /\ LoopOnly

\* DELETE /api/me: the loop hands delete_user to a thread and is free again.
DeleteAccount(me) ==
    /\ loop = Idle
    /\ deleting' = deleting \cup {me}
    /\ NoDbWrite /\ UNCHANGED <<loop, now, registering>>

-----------------------------------------------------------------------------
(* Pool threads.                                                           *)

\* db.delete_user.  BEGIN raises when a transaction is open already; the
\* handler of that error rolls it back and the request fails.
DeleteUser(u) ==
    /\ u \in deleting
    /\ IF open THEN RollsBack
       ELSE \E owners \in [Gids -> Names] :
               Inherits(db, u, owners) /\ Commits(WithoutUser(db, u, owners))
    /\ deleting' = deleting \ {u}
    /\ UNCHANGED <<now, loop, registering>>

\* register: the name is free now; hashing the secret takes a while ...
RegisterCheck(t, u) ==
    /\ registering[t] = NoUser
    /\ u \notin db.users
    /\ registering' = [registering EXCEPT ![t] = u]
    /\ NoDbWrite /\ UNCHANGED <<now, loop, deleting>>

\* ... then the INSERT, which raises (409) if another thread was faster.
CreateUser(t) ==
    /\ registering[t] # NoUser
    /\ IF registering[t] \in db.users THEN Raises(db)
       ELSE Commits([db EXCEPT !.users = @ \cup {registering[t]}])
    /\ registering' = [registering EXCEPT ![t] = NoUser]
    /\ UNCHANGED <<now, loop, deleting>>

\* _sweep_loop and set_avatar: they commit whatever is open.
OtherCommit == Commits(db) /\ UNCHANGED loop /\ LoopOnly

\* The process dies and is started again on the committed file.
Crash ==
    /\ RollsBack
    /\ loop' = Idle
    /\ deleting' = {}
    /\ registering' = [t \in RegThreads |-> NoUser]
    /\ UNCHANGED now

Tick == now < MaxNow /\ now' = now + 1
        /\ NoDbWrite /\ UNCHANGED <<loop, deleting, registering>>

-----------------------------------------------------------------------------
Requests ==
    \E me \in Users :
        \/ \E members \in SUBSET Users : CreateGroup(me, members)
        \/ \E g \in Gids : SendGroup(me, g)
        \/ \E g \in Gids, target \in Users : AddMember(me, g, target)
        \/ \E g \in Gids, target \in Users : RemoveMember(me, g, target)
        \/ \E target \in Users : SendMessage(me, target)
        \/ StoreFile(me)
        \/ DeleteAccount(me)

HandlerSteps ==
    \/ \E u \in Users : FilterMember(u)
    \/ InsertGroup
    \/ RequireMember
    \/ UserExists
    \/ AddGroupMember
    \/ StoreEnvelope
    \/ RemoveGroupMember
    \/ OldestGroupMember
    \/ SetGroupOwner
    \/ DeleteGroup

Threads ==
    \/ \E u \in Users : DeleteUser(u)
    \/ \E t \in RegThreads, u \in Users : RegisterCheck(t, u)
    \/ \E t \in RegThreads : CreateUser(t)
    \/ OtherCommit

UpNext == Requests \/ HandlerSteps \/ Threads \/ Tick

Next == UpNext \/ Crash

Spec == Init /\ [][Next]_vars


-----------------------------------------------------------------------------
(* Properties.                                                             *)

\* Every variable stays in its domain.
TypeOK ==
    /\ db \in Tables /\ disk \in Tables
    /\ open \in BOOLEAN
    /\ now \in 1..MaxNow
    /\ loop \in Frames
    /\ deleting \subseteq Users
    /\ registering \in [RegThreads -> Names]

\* remove_member has taken the owner out of g and still has to name the
\* successor (or drop g): its later calls repair g.
UnderRepair(g) ==
    /\ loop.gid = g
    /\ \/ loop.pc \in {"succ", "drop"}
       \/ loop.pc = "hand" /\ loop.succ \in Members(db, g)

\* g has an owner who is not in it, and no handler is about to mend that:
\* nobody passes both checks of add_member, and only its owner may remove others.
Stranded(g) == /\ g \in Live(db)
               /\ db.owner[g] \notin Members(db, g)
               /\ ~UnderRepair(g)

\* The complete list of ways to strand a group: remove_member cut short by a
\* restart; its successor's account deleted before the hand-over; a hand-over
\* to a name that left (and was registered anew); a removal decided on an owner
\* that a concurrent account deletion has replaced since; and create_group
\* failing half-way because a listed member is gone.
Tears(g) ==
    \/ Crash /\ UnderRepair(g)
    \/ DeleteUser(loop.succ) /\ loop.pc = "hand" /\ loop.gid = g
    \/ SetGroupOwner /\ loop.gid = g /\ loop.succ \notin Members(db, g)
    \/ RemoveGroupMember /\ loop.gid = g /\ loop.owner # db.owner[g]
    \/ InsertGroup /\ g = db.next /\ ~(loop.roster \subseteq db.users)

StrandedOnlyByATear ==
    [][\A g \in Gids : Stranded(g)' /\ ~Stranded(g) => Tears(g)]_vars

\* A committed group, with everybody's history, disappears only together with
\* its last members: those who remain lose their accounts in that very step.
\* (delete_user used to cascade into groups that others were still in; and
\* remove_member drops a group on the strength of an earlier read.)
DroppedOnlyWhenEmpty ==
    [][\A g \in Live(disk) :
          g \notin Live(disk)' => Members(disk, g) \subseteq disk.users \ disk'.users]_vars

\* What a rollback or a restart can lose is only the rows of create_group
\* calls that failed: accounts, and every group that was ever committed, read
\* the same on the connection and on disk.
OnlyFailedCreatesUncommitted ==
    /\ disk.users = db.users
    /\ \A g \in Live(disk) :
          db.owner[g] = disk.owner[g] /\ db.joined[g] = disk.joined[g]

\* The relay implements GroupService: whatever threads, failed statements and
\* restarts come between the calls of the handlers, each step is on the tables
\* one whole operation, which is durable once it is visible.
Service == INSTANCE GroupService WITH
    Times    <- 1..MaxNow,
    accounts <- db.users,
    owner    <- db.owner,
    joined   <- db.joined,
    kept     <- Live(disk)

ImplementsService == Service!Spec
=============================================================================
