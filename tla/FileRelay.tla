----------------------------- MODULE FileRelay ------------------------------
(***************************************************************************)
(* Encrypted file blobs and the messages that name them: the tables files, *)
(* envelopes and group_envelopes (server/database.py), the handlers that   *)
(* fill them and the sweep that empties them (server/main.py).             *)
(*                                                                         *)
(* A blob is uploaded first and named by a message later; nothing but the  *)
(* column file_id, which is no foreign key, ties the two together.  The    *)
(* event loop runs one handler at a time, `loop`, a database call per      *)
(* step; the two sweeps, delete_user and register run in pool threads      *)
(* between those calls.                                                    *)
(*                                                                         *)
(* Time is two facts: which messages are past their deadline (`due`), and  *)
(* which blobs are older than ORPHAN_FILE_GRACE (`old`).                   *)
(*                                                                         *)
(* One group stands for all.  Who owns it and how it is dropped is the     *)
(* subject of GroupRelay; here it has members, and is gone when it has     *)
(* none.  Left out: messages without a file, payloads, sizes, downloads    *)
(* (they change nothing), and transactions left open by failed statements. *)
(***************************************************************************)
EXTENDS Integers, FiniteSets

CONSTANTS
    Users,      \* usernames
    Files,      \* file ids, one per upload: a uuid is never used twice
    MaxEnv,     \* bound on the file messages stored
    NoUser,     \* not a username
    Group       \* the recipient of a group message

ASSUME FileAssumption == /\ NoUser \notin Users /\ Group \notin Users /\ Group # NoUser
                         /\ MaxEnv \in Nat

VARIABLES
    users,      \* table users
    members,    \* table group_members; {}: the group is gone
    owner,      \* table files: the owner of each blob, NoUser where there is no row
    fresh,      \* file ids not used yet
    old,        \* blobs with created_at < now - grace
    envs,       \* tables envelopes and group_envelopes, rows with a file_id
    next,       \* AUTOINCREMENT counter of those tables
    due,        \* ids of the rows whose expires_at has passed
    loop,       \* frame of the handler on the event loop
    deleting,   \* accounts whose delete_user is queued in the thread pool
    sweep       \* the next call of _sweep_loop

vars == <<users, members, owner, fresh, old, envs, next, due, loop, deleting, sweep>>
accountVars == <<users, members, deleting>>
fileVars    == <<owner, fresh, old>>
envVars     == <<envs, next, due>>

EnvIds == 1..MaxEnv

\* ttl: the message has a deadline.
Envs == [id : EnvIds, file : Files, from : Users, to : Users \cup {Group}, ttl : BOOLEAN]

Frames == [pc : {"idle", "recipient", "member", "owns", "store"}, me : Users \cup {NoUser},
           file : Files \cup {NoUser}, to : Users \cup {Group, NoUser}, ttl : BOOLEAN]

Idle == [pc |-> "idle", me |-> NoUser, file |-> NoUser, to |-> NoUser, ttl |-> FALSE]

Init == /\ users = Users /\ members = Users
        /\ owner = [f \in Files |-> NoUser] /\ fresh = Files /\ old = {}
        /\ envs = {} /\ next = 1 /\ due = {}
        /\ loop = Idle /\ deleting = {} /\ sweep = "expired"

-----------------------------------------------------------------------------
Blobs == {f \in Files : owner[f] # NoUser}

Named(es) == {e.file : e \in es}

Without(gone) == [f \in Files |-> IF f \in gone THEN NoUser ELSE owner[f]]

\* Rows of `envs` that go with the members who go, and with the group.
GroupRowsWithout(ms) == {e \in envs : e.to = Group /\ ms = {}}

-----------------------------------------------------------------------------
(* Handlers on the event loop.                                             *)

\* POST /api/files.  A token outlives its account for a while (delete_account
\* runs delete_user first): the INSERT then fails on its foreign key.
Upload(me, f) ==
    /\ loop = Idle
    /\ f \in fresh
    /\ fresh' = fresh \ {f}
    /\ owner' = IF me \in users THEN [owner EXCEPT ![f] = me] ELSE owner
    /\ UNCHANGED <<accountVars, old, envVars, loop, sweep>>

\* POST /api/messages/file and POST /api/groups/{id}/messages/file, for any
\* file id that was ever handed out.
SendFile(me, f, to, ttl) ==
    /\ loop = Idle
    /\ next <= MaxEnv /\ f \notin fresh
    /\ loop' = [pc |-> IF to = Group THEN "member" ELSE "recipient",
                me |-> me, file |-> f, to |-> to, ttl |-> ttl]
    /\ UNCHANGED <<accountVars, fileVars, envVars, sweep>>

\* A check of the handler: go on, or answer 404.
Check(pc, holds, then) ==
    /\ loop.pc = pc
    /\ loop' = IF holds THEN [loop EXCEPT !.pc = then] ELSE Idle
    /\ UNCHANGED <<accountVars, fileVars, envVars, sweep>>

\* Mutant of FileOwnedBy: the blob exists, whosever it is.
MutantFileExists == Check("owns", loop.file \in Blobs, "store")

UserExists   == Check("recipient", loop.to \in users, "owns")
GroupMember  == Check("member", loop.me \in members, "owns")
FileOwnedBy  == Check("owns", loop.file \in Blobs /\ owner[loop.file] = loop.me, "store")

\* store_envelope, store_group_envelope: the foreign keys are the two users,
\* or the sender and the group.
StoreEnvelope ==
    /\ loop.pc = "store"
    /\ IF loop.me \in users /\ (IF loop.to = Group THEN members # {} ELSE loop.to \in users)
       THEN /\ envs' = envs \cup {[id |-> next, file |-> loop.file, from |-> loop.me,
                                   to |-> loop.to, ttl |-> loop.ttl]}
            /\ next' = next + 1
       ELSE UNCHANGED <<envs, next>>
    /\ loop' = Idle
    /\ UNCHANGED <<accountVars, fileVars, due, sweep>>

\* remove_member, for a member who leaves or is removed.
Leave(u) ==
    /\ loop = Idle
    /\ u \in members
    /\ members' = members \ {u}
    /\ envs' = envs \ GroupRowsWithout(members')
    /\ UNCHANGED <<users, deleting, fileVars, next, due, loop, sweep>>

\* add_member, by whoever owns the group.
Join(u) ==
    /\ loop = Idle
    /\ members # {} /\ u \in users
    /\ members' = members \cup {u}
    /\ UNCHANGED <<users, deleting, fileVars, envVars, loop, sweep>>

\* DELETE /api/me
DeleteAccount(u) ==
    /\ loop = Idle
    /\ deleting' = deleting \cup {u}
    /\ UNCHANGED <<users, members, fileVars, envVars, loop, sweep>>

-----------------------------------------------------------------------------
(* Pool threads.                                                           *)

\* Mutant of DeleteUser: the files are not the account's own, but left behind.
MutantDeleteUserKeepsFiles(u) ==
    /\ u \in deleting
    /\ deleting' = deleting \ {u}
    /\ users' = users \ {u}
    /\ members' = members \ {u}
    /\ envs' = {e \in envs : u \notin {e.from, e.to}} \ GroupRowsWithout(members')
    /\ UNCHANGED <<fileVars, next, due, loop, sweep>>

\* delete_user: the cascades of the user row.
DeleteUser(u) ==
    /\ u \in deleting
    /\ deleting' = deleting \ {u}
    /\ users' = users \ {u}
    /\ members' = members \ {u}
    /\ owner' = Without({f \in Files : owner[f] = u})
    /\ envs' = {e \in envs : u \notin {e.from, e.to}} \ GroupRowsWithout(members')
    /\ UNCHANGED <<fresh, old, next, due, loop, sweep>>

\* register, for a name that is free.
Register(u) ==
    /\ u \notin users
    /\ users' = users \cup {u}
    /\ UNCHANGED <<members, deleting, fileVars, envVars, loop, sweep>>

\* Mutant of DeleteExpired: without the two NOT IN clauses.
MutantDeleteExpiredAll ==
    LET gone == {e \in envs : e.id \in due} IN
    /\ sweep = "expired"
    /\ sweep' = "orphans"
    /\ envs' = envs \ gone
    /\ owner' = Without(Named(gone))
    /\ UNCHANGED <<accountVars, fresh, old, next, due, loop>>

\* delete_expired: the rows past their deadline go, and with them the blobs
\* they named that no remaining row names.
DeleteExpired ==
    LET gone == {e \in envs : e.id \in due} IN
    /\ sweep = "expired"
    /\ sweep' = "orphans"
    /\ envs' = envs \ gone
    /\ owner' = Without(Named(gone) \ Named(envs'))
    /\ UNCHANGED <<accountVars, fresh, old, next, due, loop>>

\* Mutant of DeleteOrphanFiles: the comparison with the grace period reversed.
MutantDeleteOrphanFilesYoung ==
    /\ sweep = "orphans"
    /\ sweep' = "expired"
    /\ owner' = Without(Blobs \ (old \cup Named(envs)))
    /\ UNCHANGED <<accountVars, fresh, old, envVars, loop>>

\* delete_orphan_files
DeleteOrphanFiles ==
    /\ sweep = "orphans"
    /\ sweep' = "expired"
    /\ owner' = Without(old \ Named(envs))
    /\ UNCHANGED <<accountVars, fresh, old, envVars, loop>>

\* The process stops and starts again: every row is committed.
Restart ==
    /\ loop' = Idle /\ deleting' = {} /\ sweep' = "expired"
    /\ UNCHANGED <<users, members, fileVars, envVars>>

-----------------------------------------------------------------------------
(* Time.                                                                   *)

ComesDue(e) ==
    /\ e \in envs /\ e.ttl /\ e.id \notin due
    /\ due' = due \cup {e.id}
    /\ UNCHANGED <<accountVars, fileVars, envs, next, loop, sweep>>

GrowsOld(f) ==
    /\ f \in Blobs \ old
    /\ old' = old \cup {f}
    /\ UNCHANGED <<accountVars, owner, fresh, envVars, loop, sweep>>

-----------------------------------------------------------------------------
Requests ==
    \E me \in Users :
        \/ \E f \in Files : Upload(me, f)
        \/ \E f \in Files, to \in Users \cup {Group}, ttl \in BOOLEAN : SendFile(me, f, to, ttl)
        \/ Join(me)
        \/ Leave(me)
        \/ DeleteAccount(me)

HandlerSteps == UserExists \/ GroupMember \/ FileOwnedBy \/ StoreEnvelope

Threads == \/ \E u \in Users : DeleteUser(u)
           \/ \E u \in Users : Register(u)
           \/ DeleteExpired
           \/ DeleteOrphanFiles

Time == \/ \E e \in envs : ComesDue(e)
        \/ \E f \in Files : GrowsOld(f)

UpNext == Requests \/ HandlerSteps \/ Threads \/ Time

Next == UpNext \/ Restart

Spec == Init /\ [][Next]_vars

\* While the relay is up time passes, and the sweep runs for ever: its loop
\* swallows exceptions.  A relay that restarts before every second sweep sweeps
\* no orphans, so the restarts are taken to end.
Fairness == /\ \A id \in EnvIds : WF_vars(\E e \in envs : e.id = id /\ ComesDue(e))
            /\ \A f \in Files : WF_vars(GrowsOld(f))
            /\ WF_vars(DeleteExpired) /\ WF_vars(DeleteOrphanFiles)
            /\ <>[][UpNext]_vars

FairSpec == Spec /\ Fairness

-----------------------------------------------------------------------------
(* Properties.                                                             *)

(* Type invariant.  Ids of files and rows are used once.                   *)
TypeOK ==
    /\ users \subseteq Users /\ members \subseteq users /\ deleting \subseteq Users
    /\ owner \in [Files -> users \cup {NoUser}]
    /\ fresh \subseteq Files \ Blobs /\ old \subseteq Files \ fresh
    /\ envs \subseteq Envs /\ next \in 1..(MaxEnv + 1) /\ due \subseteq 1..(next - 1)
    /\ \A e \in envs : e.id < next /\ \A d \in envs : d.id = e.id => d = e
    /\ loop \in Frames
    /\ sweep \in {"expired", "orphans"}

(* "A file message may only point at a blob its sender uploaded"            *)
(* (_require_file_owner), whatever accounts are deleted and registered       *)
(* again between the upload, the check and the INSERT.                       *)
SenderOwnsBlob == \A e \in envs : e.file \in Blobs => owner[e.file] = e.from

Promise == INSTANCE Attachments WITH
    Names    <- Users,
    Letters  <- Envs,
    Everyone <- Group,
    Nobody   <- NoUser,
    accounts <- users,
    crowd    <- members,
    holder   <- owner,
    spent    <- Files \ fresh,
    letters  <- envs,
    count    <- next

(* The relay implements Attachments: between the calls of a handler, of the  *)
(* sweeps and of delete_user, and with any restarts, a message goes only     *)
(* when it has expired or one of its ends has gone, and never loses its blob *)
(* - shared with a message that expires, or older than the grace period;     *)
(* and a blob still waiting for its message is not taken before that.        *)
KeepsAttachments == Promise!Spec

(* No ciphertext stays for ever for want of a message: each blob comes to be *)
(* gone, or named by a message that has not expired, again and again.        *)
NothingLingers ==
    \A f \in Files :
        []<>(f \in Blobs => \E e \in envs : e.file = f /\ e.id \notin due)
=============================================================================
