-------------------------- MODULE GroupRelayProofs --------------------------
(***************************************************************************)
(* What GroupRelay guarantees for every set of accounts, every number of   *)
(* groups and any number of racing registrations.  The argument rests on   *)
(* one inductive invariant, in two parts: what the tables satisfy on the   *)
(* connection and on disk (TablesInv), and what the frame of the handler   *)
(* on the event loop knows about them (FrameInv).                          *)
(***************************************************************************)
EXTENDS GroupRelay, TLAPS

\* Foreign keys of group_members, and AUTOINCREMENT ids handed out in order.
Sound(d) ==
    /\ \A g \in Gids : g >= d.next => d.owner[g] = NoUser
    /\ \A g \in Gids, u \in Users :
          d.joined[g][u] # 0 => d.owner[g] # NoUser /\ u \in d.users

TablesInv ==
    /\ db \in Tables /\ disk \in Tables
    /\ open \in BOOLEAN
    /\ now \in 1..MaxNow
    /\ Sound(db) /\ Sound(disk)
    /\ ~open => db = disk
    /\ disk.next <= db.next
    /\ OnlyFailedCreatesUncommitted

FrameInv ==
    /\ loop \in Frames
    /\ loop.pc = "filter" => db.next <= MaxGid /\ loop.me \in loop.roster
    /\ loop.pc = "member" => loop.op \in {"add", "remove", "send"}
    /\ loop.pc \in {"remove", "succ", "hand", "drop"} => loop.op = "remove"
    /\ loop.op \in {"add", "remove", "send"} => loop.gid \in Gids
    /\ loop.op \in {"add", "remove"} => loop.target \in Users
    /\ loop.pc = "hand" => loop.succ \in Users
    /\ loop.pc = "drop" => Members(db, loop.gid) = {}

PoolInv ==
    /\ deleting \subseteq Users
    /\ registering \in [RegThreads -> Names]

IndInv == TablesInv /\ FrameInv /\ PoolInv

-----------------------------------------------------------------------------
(* What the table operations preserve.                                     *)

LEMMA WithGroupSound ==
    ASSUME NEW d \in Tables, Sound(d), d.next <= MaxGid, now \in 1..MaxNow,
           NEW o \in Users, NEW m, m \subseteq d.users
    PROVE  /\ WithGroup(d, o, m) \in Tables
           /\ Sound(WithGroup(d, o, m))
           /\ WithGroup(d, o, m).users = d.users
           /\ WithGroup(d, o, m).next = d.next + 1
           /\ \A g \in Live(d) : /\ WithGroup(d, o, m).owner[g] = d.owner[g]
                                 /\ WithGroup(d, o, m).joined[g] = d.joined[g]
  <1> DEFINE w == WithGroup(d, o, m)
             row == [u \in Users |-> IF u \in m THEN now ELSE 0]
  <1>1. /\ w.users = d.users /\ w.next = d.next + 1
        /\ w.owner = [d.owner EXCEPT ![d.next] = o]
        /\ w.joined = [d.joined EXCEPT ![d.next] = row]
        /\ w = [users |-> w.users, owner |-> w.owner, joined |-> w.joined, next |-> w.next]
    BY DEF WithGroup
  <1>2. /\ d.users \subseteq Users /\ d.owner \in [Gids -> Names]
        /\ d.joined \in [Gids -> [Users -> 0..MaxNow]] /\ d.next \in Gids
    BY BoundsAssumption DEF Tables, Gids
  <1>3. row \in [Users -> 0..MaxNow]
    BY BoundsAssumption
  <1>4. w.users \subseteq Users /\ w.next \in 1..(MaxGid + 1)
    BY <1>1, <1>2, BoundsAssumption DEF Gids
  <1>5. w.owner \in [Gids -> Names] /\ w.joined \in [Gids -> [Users -> 0..MaxNow]]
    BY <1>1, <1>2, <1>3 DEF Names
  <1>6. w \in Tables
    BY <1>1, <1>4, <1>5 DEF Tables
  <1>7. \A g \in Gids : g # d.next => w.owner[g] = d.owner[g] /\ w.joined[g] = d.joined[g]
    BY <1>1, <1>2
  <1>8. w.owner[d.next] = o /\ w.joined[d.next] = row /\ o # NoUser
    BY <1>1, <1>2, UsersAssumption DEF NoUser
  <1> HIDE DEF w, row
  <1>9. Sound(w)
    <2>1. ASSUME NEW g \in Gids, g >= w.next PROVE w.owner[g] = NoUser
      BY <1>1, <1>2, <1>7, <2>1, BoundsAssumption DEF Sound, Gids
    <2>2. ASSUME NEW g \in Gids, NEW u \in Users, w.joined[g][u] # 0
          PROVE  w.owner[g] # NoUser /\ u \in w.users
      <3>1. CASE g = d.next
        BY <1>1, <1>8, <2>2, <3>1 DEF row
      <3>2. CASE g # d.next
        BY <1>1, <1>7, <2>2, <3>2 DEF Sound
      <3> QED
        BY <3>1, <3>2
    <2> QED
      BY <2>1, <2>2 DEF Sound
  <1>10. \A g \in Live(d) : g \in Gids /\ g # d.next
    BY <1>2 DEF Sound, Live, Gids
  <1> QED
    BY <1>1, <1>6, <1>7, <1>9, <1>10 DEF w

LEMMA WithOwnerSound ==
    ASSUME NEW d \in Tables, Sound(d), NEW g \in Live(d), NEW o \in Users
    PROVE  WithOwner(d, g, o) \in Tables /\ Sound(WithOwner(d, g, o))
  <1> DEFINE w == WithOwner(d, g, o)
  <1>1. w = [d EXCEPT !.owner = [d.owner EXCEPT ![g] = o]]
    BY DEF WithOwner
  <1>2. /\ g \in Gids /\ d.owner \in [Gids -> Names] /\ d.owner[g] # NoUser /\ o # NoUser
    BY UsersAssumption DEF Tables, Live, NoUser
  <1>3. w.users = d.users /\ w.joined = d.joined /\ w.next = d.next
    BY <1>1 DEF Tables
  <1>4. w.owner = [d.owner EXCEPT ![g] = o]
    BY <1>1 DEF Tables
  <1>5. w.owner \in [Gids -> Names] /\ w \in Tables
    BY <1>1, <1>2, <1>4 DEF Tables, Names
  <1>6. \A h \in Gids : w.owner[h] = NoUser <=> d.owner[h] = NoUser
    BY <1>2, <1>4
  <1> QED
    BY <1>3, <1>5, <1>6 DEF Sound

LEMMA WithJoinedSound ==
    ASSUME NEW d \in Tables, Sound(d), NEW g \in Gids, NEW u \in Users,
           NEW t \in 0..MaxNow, t # 0 => g \in Live(d) /\ u \in d.users
    PROVE  WithJoined(d, g, u, t) \in Tables /\ Sound(WithJoined(d, g, u, t))
  <1> DEFINE w == WithJoined(d, g, u, t)
             j == [d.joined EXCEPT ![g] = [d.joined[g] EXCEPT ![u] = t]]
  <1>1. w = [d EXCEPT !.joined = j]
    BY DEF WithJoined
  <1>2. d.joined \in [Gids -> [Users -> 0..MaxNow]]
    BY DEF Tables
  <1>3. [d.joined[g] EXCEPT ![u] = t] \in [Users -> 0..MaxNow]
    BY <1>2
  <1>4. j \in [Gids -> [Users -> 0..MaxNow]]
    BY <1>2, <1>3
  <1>5. w \in Tables /\ w.users = d.users /\ w.owner = d.owner /\ w.next = d.next
        /\ w.joined = j
    BY <1>1, <1>4 DEF Tables
  <1>6. \A h \in Gids, v \in Users :
            j[h][v] = IF h = g /\ v = u THEN t ELSE d.joined[h][v]
    BY <1>2
  <1> HIDE DEF j
  <1>7. \A h \in Gids, v \in Users :
            w.joined[h][v] # 0 => w.owner[h] # NoUser /\ v \in w.users
    BY <1>5, <1>6 DEF Sound, Live
  <1> QED
    BY <1>5, <1>7 DEF Sound

LEMMA WithoutGroupSound ==
    ASSUME NEW d \in Tables, Sound(d), NEW g \in Gids
    PROVE  WithoutGroup(d, g) \in Tables /\ Sound(WithoutGroup(d, g))
  <1> DEFINE w == WithoutGroup(d, g)
             o == [d.owner EXCEPT ![g] = NoUser]
             j == [d.joined EXCEPT ![g] = [u \in Users |-> 0]]
  <1>1. w = [d EXCEPT !.owner = o, !.joined = j]
    BY DEF WithoutGroup
  <1>2. d.joined \in [Gids -> [Users -> 0..MaxNow]] /\ d.owner \in [Gids -> Names]
    BY DEF Tables
  <1>3. [u \in Users |-> 0] \in [Users -> 0..MaxNow]
    BY BoundsAssumption
  <1>4. o \in [Gids -> Names] /\ j \in [Gids -> [Users -> 0..MaxNow]]
    BY <1>2, <1>3 DEF Names
  <1>5. w \in Tables /\ w.users = d.users /\ w.owner = o /\ w.next = d.next /\ w.joined = j
    BY <1>1, <1>4 DEF Tables
  <1>6. \A h \in Gids : /\ o[h] = IF h = g THEN NoUser ELSE d.owner[h]
                        /\ j[h] = IF h = g THEN [u \in Users |-> 0] ELSE d.joined[h]
    BY <1>2
  <1> HIDE DEF j, o
  <1> QED
    BY <1>5, <1>6 DEF Sound

LEMMA WithoutUserSound ==
    ASSUME NEW d \in Tables, Sound(d), NEW u \in Users,
           NEW owners \in [Gids -> Names], Inherits(d, u, owners)
    PROVE  /\ WithoutUser(d, u, owners) \in Tables
           /\ Sound(WithoutUser(d, u, owners))
  <1> DEFINE w == WithoutUser(d, u, owners)
  <1>1. d.joined \in [Gids -> [Users -> 0..MaxNow]] /\ d.owner \in [Gids -> Names]
    BY DEF Tables
  <1>2. /\ w.users = d.users \ {u} /\ w.owner = owners /\ w.next = d.next
        /\ w.joined = [g \in Gids |-> [v \in Users |->
                         IF v = u \/ owners[g] = NoUser THEN 0 ELSE d.joined[g][v]]]
        /\ w = [users |-> w.users, owner |-> w.owner, joined |-> w.joined, next |-> w.next]
    BY DEF WithoutUser
  <1>3. w.joined \in [Gids -> [Users -> 0..MaxNow]]
    BY <1>1, <1>2, BoundsAssumption
  <1>4. w \in Tables
    BY <1>2, <1>3 DEF Tables
  <1>5. \A g \in Gids, v \in Users :
            w.joined[g][v] = IF v = u \/ owners[g] = NoUser THEN 0 ELSE d.joined[g][v]
    BY <1>2
  <1>6. ASSUME NEW g \in Gids, g >= d.next PROVE owners[g] = NoUser
    BY <1>6, UsersAssumption DEF Sound, Inherits, NoUser
  <1>7. \A g \in Gids, v \in Users :
            w.joined[g][v] # 0 => w.owner[g] # NoUser /\ v \in w.users
    BY <1>2, <1>5 DEF Sound
  <1> QED
    BY <1>2, <1>4, <1>6, <1>7 DEF Sound

-----------------------------------------------------------------------------
(* How a database function may end, seen from the tables' invariant.       *)

LEMMA CommitKeeps ==
    ASSUME TablesInv, NEW d \in Tables, Sound(d), Commits(d), now' = now
    PROVE  TablesInv'
  <1> USE DEF Commits
  <1>1. db' \in Tables /\ disk' \in Tables /\ open' \in BOOLEAN /\ now' \in 1..MaxNow
    BY DEF TablesInv
  <1>2. Sound(db)' /\ Sound(disk)'
    BY DEF Sound
  <1>3. db' = disk' /\ disk'.next <= db'.next
    BY BoundsAssumption DEF Tables
  <1>4. OnlyFailedCreatesUncommitted'
    BY DEF OnlyFailedCreatesUncommitted
  <1> QED
    BY <1>1, <1>2, <1>3, <1>4 DEF TablesInv

LEMMA RaiseKeeps ==
    ASSUME TablesInv, NEW d \in Tables, Sound(d), Raises(d), now' = now,
           d.users = db.users, d.next >= db.next,
           \A g \in Live(db) : d.owner[g] = db.owner[g] /\ d.joined[g] = db.joined[g]
    PROVE  TablesInv'
  <1> USE DEF Raises
  <1>1. db' \in Tables /\ disk' \in Tables /\ open' \in BOOLEAN /\ now' \in 1..MaxNow
    BY DEF TablesInv
  <1>2. Sound(db)' /\ Sound(disk)'
    BY DEF Sound, TablesInv
  <1>3. disk'.next <= db'.next
    BY BoundsAssumption DEF TablesInv, Tables
  <1>4. Live(disk) \subseteq Live(db)
    BY DEF TablesInv, OnlyFailedCreatesUncommitted, Live
  <1>5. OnlyFailedCreatesUncommitted'
    BY <1>4 DEF TablesInv, OnlyFailedCreatesUncommitted, Live
  <1> QED
    BY <1>1, <1>2, <1>3, <1>5 DEF TablesInv

LEMMA RollbackKeeps ==
    ASSUME TablesInv, RollsBack, now' = now
    PROVE  TablesInv'
  <1>1. Commits(disk) /\ disk \in Tables /\ Sound(disk)
    BY DEF RollsBack, Commits, TablesInv
  <1> QED
    BY <1>1, CommitKeeps

LEMMA QuietKeeps ==
    ASSUME TablesInv, NoDbWrite, now' \in 1..MaxNow
    PROVE  TablesInv'
  BY DEF TablesInv, NoDbWrite, Sound, OnlyFailedCreatesUncommitted, Live

LEMMA InsertKeeps ==
    ASSUME TablesInv, NEW allowed, InsertRow(allowed), now' = now
    PROVE  TablesInv'
  <1>1. db \in Tables /\ Sound(db) /\ db.next >= db.next
    BY BoundsAssumption DEF TablesInv, Tables
  <1>2. CASE Commits(db)
    BY <1>1, <1>2, CommitKeeps
  <1>3. CASE Raises(db)
    BY <1>1, <1>3, RaiseKeeps
  <1> QED
    BY <1>2, <1>3 DEF InsertRow

-----------------------------------------------------------------------------
(* How the frame of the handler changes.                                   *)

LEMMA IdleFrame == ASSUME loop' = Idle PROVE FrameInv'
  BY BoundsAssumption DEF FrameInv, Frames, Idle, Pcs, Ops, Names, NoUser

\* A step of a pool thread leaves the frame as it is.
LEMMA FrameSurvives ==
    ASSUME FrameInv, loop' = loop, db'.next \in Int, db.next \in Int, db'.next <= db.next,
           loop.pc = "drop" => \A u \in Users :
              db.joined[loop.gid][u] = 0 => db'.joined[loop.gid][u] = 0
    PROVE  FrameInv'
  <1>1. loop.pc = "filter" => db'.next <= MaxGid
    BY BoundsAssumption DEF FrameInv
  <1>2. loop.pc = "drop" => Members(db, loop.gid)' = {}
    BY DEF FrameInv, Members
  <1> QED
    BY <1>1, <1>2 DEF FrameInv, Members

\* The handler moves on without touching the tables.
LEMMA FrameMoves ==
    ASSUME IndInv, NoDbWrite, LoopOnly, FrameInv'
    PROVE  IndInv'
  <1>1. TablesInv'
    BY QuietKeeps DEF IndInv, TablesInv, LoopOnly
  <1> QED
    BY <1>1 DEF IndInv, PoolInv, LoopOnly

\* The handler ends with a database call.
LEMMA FrameEnds ==
    ASSUME IndInv, TablesInv', loop' = Idle, LoopOnly
    PROVE  IndInv'
  BY IdleFrame DEF IndInv, PoolInv, LoopOnly

-----------------------------------------------------------------------------
(* The inductive invariant.                                                *)

LEMMA InitInv == ASSUME Init PROVE IndInv
  <1>1. db \in Tables /\ Sound(db) /\ db.next = 1
    <2>1. db = [users  |-> Users,
                owner  |-> [g \in Gids |-> NoUser],
                joined |-> [g \in Gids |-> [u \in Users |-> 0]],
                next   |-> 1]
      BY DEF Init
    <2>2. [u \in Users |-> 0] \in [Users -> 0..MaxNow] /\ 1 \in 1..(MaxGid + 1)
      BY BoundsAssumption
    <2>3. db \in Tables
      BY <2>1, <2>2 DEF Tables, Names
    <2> QED
      BY <2>1, <2>3 DEF Sound
  <1>2. TablesInv
    <2>1. disk = db /\ open = FALSE /\ now = 1
      BY DEF Init
    <2>2. disk \in Tables /\ Sound(disk) /\ disk.next <= db.next
      BY <1>1, <2>1
    <2>3. OnlyFailedCreatesUncommitted
      BY <2>1 DEF OnlyFailedCreatesUncommitted
    <2> QED
      <3>1. now \in 1..MaxNow
        BY <2>1, BoundsAssumption
      <3>2. open \in BOOLEAN
        BY <2>1
      <3> QED
        BY <1>1, <2>1, <2>2, <2>3, <3>1, <3>2 DEF TablesInv
  <1>3. FrameInv
    <2>1. loop \in Frames
      BY BoundsAssumption DEF Init, Frames, Idle, Pcs, Ops, Names
    <2> QED
      BY <2>1 DEF Init, FrameInv, Idle
  <1>4. PoolInv
    BY DEF Init, PoolInv, Names
  <1> QED
    BY <1>2, <1>3, <1>4 DEF IndInv

LEMMA RequestKeeps == ASSUME IndInv, Requests PROVE IndInv'
  <1> USE DEF NoUser
  <1>1. ASSUME NEW me \in Users, NEW members \in SUBSET Users, CreateGroup(me, members)
        PROVE  IndInv'
    <2>1. /\ loop' = [pc |-> "filter", op |-> "create", me |-> me, gid |-> 0,
                      target |-> NoUser, owner |-> NoUser, todo |-> members,
                      roster |-> {me}, succ |-> NoUser]
          /\ db.next <= MaxGid /\ db' = db
      BY <1>1 DEF CreateGroup, Idle, NoDbWrite
    <2>2. loop' \in Frames
      BY <2>1, BoundsAssumption DEF Frames, Pcs, Ops, Names
    <2>3. FrameInv'
      BY <2>1, <2>2 DEF FrameInv
    <2> QED
      BY <1>1, <2>3, FrameMoves DEF CreateGroup
  <1>2. ASSUME NEW op \in {"add", "remove", "send"}, NEW me \in Users, NEW g \in Gids,
               NEW target \in Names, op # "send" => target \in Users,
               OpenGroup(op, me, g, target)
        PROVE  IndInv'
    <2>1. db.owner[g] \in Names
      BY DEF IndInv, TablesInv, Tables
    <2>2. loop' = [pc |-> "member", op |-> op, me |-> me, gid |-> g,
                   target |-> target, owner |-> db.owner[g], todo |-> {},
                   roster |-> {}, succ |-> NoUser]
      BY <1>2 DEF OpenGroup, Idle
    <2>3. loop' \in Frames
      BY <2>1, <2>2, BoundsAssumption DEF Frames, Pcs, Ops, Names, Gids
    <2>4. FrameInv'
      BY <1>2, <2>2, <2>3 DEF FrameInv
    <2> QED
      BY <1>2, <2>4, FrameMoves DEF OpenGroup
  <1>3. ASSUME NEW me \in Users, NEW target \in Users, SendMessage(me, target)
        PROVE  IndInv'
    <2>1. loop' = [pc |-> "exists", op |-> "dm", me |-> me, gid |-> 0,
                   target |-> target, owner |-> NoUser, todo |-> {},
                   roster |-> {}, succ |-> NoUser]
      BY <1>3 DEF SendMessage, Idle
    <2>2. loop' \in Frames
      BY <2>1, BoundsAssumption DEF Frames, Pcs, Ops, Names
    <2>3. FrameInv'
      BY <2>1, <2>2 DEF FrameInv
    <2> QED
      BY <1>3, <2>3, FrameMoves DEF SendMessage
  <1>4. ASSUME NEW me \in Users, StoreFile(me)
        PROVE  IndInv'
    <2>1. TablesInv'
      BY <1>4, InsertKeeps DEF StoreFile, LoopOnly, IndInv
    <2>2. loop' = Idle
      BY <1>4 DEF StoreFile
    <2> QED
      BY <1>4, <2>1, <2>2, FrameEnds DEF StoreFile
  <1>5. ASSUME NEW me \in Users, DeleteAccount(me)
        PROVE  IndInv'
    <2>1. TablesInv'
      BY <1>5, QuietKeeps DEF DeleteAccount, IndInv, TablesInv
    <2>2. FrameInv'
      BY <1>5, IdleFrame DEF DeleteAccount
    <2> QED
      BY <1>5, <2>1, <2>2 DEF DeleteAccount, IndInv, PoolInv
  <1> QED
    BY <1>1, <1>2, <1>3, <1>4, <1>5
       DEF Requests, AddMember, RemoveMember, SendGroup, Names

LEMMA CreateKeeps ==
    ASSUME IndInv, InsertGroup \/ \E u \in Users : FilterMember(u)
    PROVE  IndInv'
  <1>1. ASSUME NEW u \in Users, FilterMember(u)
        PROVE  IndInv'
    <2>1. loop' \in Frames /\ loop'.pc = "filter" /\ loop'.op = loop.op
          /\ loop'.gid = loop.gid /\ loop'.target = loop.target
          /\ loop'.me = loop.me /\ loop.roster \subseteq loop'.roster
      BY <1>1 DEF FilterMember, IndInv, FrameInv, Frames
    <2>2. FrameInv'
      BY <1>1, <2>1 DEF FilterMember, NoDbWrite, IndInv, FrameInv
    <2> QED
      BY <1>1, <2>2, FrameMoves DEF FilterMember
  <1>2. ASSUME InsertGroup
        PROVE  IndInv'
    <2>1. /\ TablesInv /\ db \in Tables /\ Sound(db) /\ now \in 1..MaxNow /\ now' = now
          /\ db.next <= MaxGid /\ loop.me \in loop.roster /\ loop.me \in Names
          /\ db.users \subseteq Users /\ db.next \in Nat /\ db.next >= db.next
      BY <1>2, BoundsAssumption
         DEF InsertGroup, LoopOnly, IndInv, TablesInv, FrameInv, Frames, Tables
    <2>2. ASSUME loop.me \notin db.users /\ Raises(db)
          PROVE  TablesInv'
      BY <2>1, <2>2, RaiseKeeps
    <2>3. ASSUME loop.roster \subseteq db.users /\ Commits(WithGroup(db, loop.me, loop.roster))
          PROVE  TablesInv'
      <3> DEFINE w == WithGroup(db, loop.me, loop.roster)
      <3>1. w \in Tables /\ Sound(w)
        BY <2>1, <2>3, WithGroupSound
      <3>2. Commits(w)
        BY <2>3
      <3> HIDE DEF w
      <3> QED
        BY <2>1, <3>1, <3>2, CommitKeeps
    <2>4. ASSUME loop.me \in db.users, NEW inserted \in SUBSET (loop.roster \cap db.users),
                 Raises(WithGroup(db, loop.me, inserted))
          PROVE  TablesInv'
      <3> DEFINE w == WithGroup(db, loop.me, inserted)
      <3>1. /\ w \in Tables /\ Sound(w) /\ w.users = db.users /\ w.next = db.next + 1
            /\ \A g \in Live(db) : w.owner[g] = db.owner[g] /\ w.joined[g] = db.joined[g]
        BY <2>1, <2>4, WithGroupSound
      <3>2. Raises(w)
        BY <2>4
      <3> HIDE DEF w
      <3> QED
        BY <2>1, <3>1, <3>2, RaiseKeeps
    <2>5. TablesInv'
      <3>1. \/ loop.me \notin db.users /\ Raises(db)
            \/ loop.roster \subseteq db.users /\ Commits(WithGroup(db, loop.me, loop.roster))
            \/ /\ loop.me \in db.users
               /\ \E inserted \in SUBSET (loop.roster \cap db.users) :
                     Raises(WithGroup(db, loop.me, inserted))
        BY <1>2 DEF InsertGroup
      <3> QED
        BY <2>2, <2>3, <2>4, <3>1
    <2> QED
      BY <1>2, <2>5, FrameEnds DEF InsertGroup
  <1> QED
    BY <1>1, <1>2

LEMMA MemberStepKeeps ==
    ASSUME IndInv, RequireMember \/ UserExists \/ AddGroupMember \/ StoreEnvelope
    PROVE  IndInv'
  <1>1. CASE RequireMember
    <2>1. FrameInv' \/ loop' = Idle
      <3>1. loop.pc = "member" /\ loop \in Frames
        BY <1>1 DEF RequireMember, IndInv, FrameInv
      <3>2. CASE loop' = [loop EXCEPT !.pc = FirstCall]
        <4>1. FirstCall \in {"exists", "remove", "insert"} /\ (FirstCall = "remove" => loop.op = "remove")
          BY DEF FirstCall
        <4>2. loop' \in Frames /\ loop'.pc = FirstCall /\ loop'.op = loop.op
              /\ loop'.gid = loop.gid /\ loop'.target = loop.target
          BY <3>1, <3>2, <4>1 DEF Frames, Pcs
        <4> QED
          BY <3>1, <4>1, <4>2 DEF IndInv, FrameInv
      <3> QED
        BY <1>1, <3>2 DEF RequireMember
    <2> QED
      BY <1>1, <2>1, IdleFrame, FrameMoves DEF RequireMember
  <1>2. CASE UserExists
    <2>1. FrameInv' \/ loop' = Idle
      <3>1. loop.pc = "exists" /\ loop \in Frames
        BY <1>2 DEF UserExists, IndInv, FrameInv
      <3>2. CASE loop' = [loop EXCEPT !.pc = "insert"]
        <4>1. loop' \in Frames /\ loop'.pc = "insert" /\ loop'.op = loop.op
              /\ loop'.gid = loop.gid /\ loop'.target = loop.target
          BY <3>1, <3>2 DEF Frames, Pcs
        <4> QED
          BY <3>1, <4>1 DEF IndInv, FrameInv
      <3> QED
        BY <1>2, <3>2 DEF UserExists
    <2> QED
      BY <1>2, <2>1, IdleFrame, FrameMoves DEF UserExists
  <1>3. CASE AddGroupMember
    <2>1. /\ TablesInv /\ db \in Tables /\ Sound(db) /\ now \in 0..MaxNow /\ now # 0
          /\ now' = now /\ loop.gid \in Gids /\ loop.target \in Users
          /\ db.next \in Nat /\ db.next >= db.next
      BY <1>3, BoundsAssumption DEF AddGroupMember, LoopOnly, IndInv, TablesInv, FrameInv, Tables
    <2>2. ASSUME loop.gid \in Live(db) /\ loop.target \in db.users
          PROVE  TablesInv'
      <3> DEFINE w == WithJoined(db, loop.gid, loop.target, now)
      <3>1. w \in Tables /\ Sound(w)
        BY <2>1, <2>2, WithJoinedSound
      <3>2. Commits(db) \/ Commits(w)
        BY <1>3, <2>2 DEF AddGroupMember
      <3> HIDE DEF w
      <3> QED
        BY <2>1, <3>1, <3>2, CommitKeeps
    <2>3. ASSUME ~(loop.gid \in Live(db) /\ loop.target \in db.users)
          PROVE  TablesInv'
      BY <1>3, <2>1, <2>3, RaiseKeeps DEF AddGroupMember
    <2> QED
      BY <1>3, <2>2, <2>3, FrameEnds DEF AddGroupMember
  <1>4. CASE StoreEnvelope
    <2>1. TablesInv'
      BY <1>4, InsertKeeps DEF StoreEnvelope, LoopOnly, IndInv
    <2> QED
      BY <1>4, <2>1, FrameEnds DEF StoreEnvelope
  <1> QED
    BY <1>1, <1>2, <1>3, <1>4

LEMMA RemovalKeeps ==
    ASSUME IndInv, RemoveGroupMember \/ OldestGroupMember \/ SetGroupOwner \/ DeleteGroup
    PROVE  IndInv'
  <1>1. /\ TablesInv /\ db \in Tables /\ Sound(db) /\ db.next \in Nat /\ db.next >= db.next
        /\ loop \in Frames /\ FrameInv
    BY BoundsAssumption DEF IndInv, TablesInv, FrameInv, Tables
  <1>2. CASE RemoveGroupMember
    <2>1. loop.pc = "remove" /\ loop.gid \in Gids /\ loop.target \in Users /\ loop.op = "remove"
      BY <1>1, <1>2 DEF RemoveGroupMember, FrameInv
    <2>2. Commits(WithJoined(db, loop.gid, loop.target, 0)) /\ LoopOnly
          /\ loop' = IF loop.target = loop.owner THEN [loop EXCEPT !.pc = "succ"] ELSE Idle
      BY <1>2 DEF RemoveGroupMember
    <2>3. TablesInv'
      <3> DEFINE w == WithJoined(db, loop.gid, loop.target, 0)
      <3>1. w \in Tables /\ Sound(w)
        BY <1>1, <2>1, WithJoinedSound, BoundsAssumption
      <3>2. Commits(w) /\ now' = now
        BY <2>2 DEF LoopOnly
      <3> HIDE DEF w
      <3> QED
        BY <1>1, <3>1, <3>2, CommitKeeps
    <2>4. CASE loop' = [loop EXCEPT !.pc = "succ"]
      <3>1. loop' \in Frames /\ loop'.pc = "succ" /\ loop'.op = loop.op
            /\ loop'.gid = loop.gid /\ loop'.target = loop.target
        BY <1>1, <2>4 DEF Frames, Pcs
      <3>2. FrameInv'
        BY <2>1, <3>1 DEF FrameInv
      <3> QED
        BY <2>2, <2>3, <3>2 DEF IndInv, PoolInv, LoopOnly
    <2> QED
      BY <2>2, <2>3, <2>4, FrameEnds
  <1>3. CASE OldestGroupMember
    <2>1. PICK s \in Names :
             /\ IsSuccessor(db, loop.gid, Members(db, loop.gid), s)
             /\ loop' = [loop EXCEPT !.succ = s, !.pc = IF s = NoUser THEN "drop" ELSE "hand"]
      BY <1>3 DEF OldestGroupMember
    <2>2. loop.pc = "succ" /\ NoDbWrite /\ LoopOnly /\ loop.op = "remove"
      BY <1>1, <1>3 DEF OldestGroupMember, FrameInv
    <2>3. /\ loop' \in Frames /\ loop'.pc = (IF s = NoUser THEN "drop" ELSE "hand")
          /\ loop'.succ = s /\ loop'.op = "remove" /\ loop'.gid = loop.gid
          /\ loop'.target = loop.target
      BY <1>1, <2>1, <2>2 DEF Frames, Pcs
    <2>4. s = NoUser => Members(db, loop.gid) = {}
      BY <2>1, UsersAssumption DEF IsSuccessor, Members, NoUser
    <2>5. db' = db
      BY <2>2 DEF NoDbWrite
    <2>6. FrameInv'
      <3>1. s # NoUser => s \in Users
        BY DEF Names
      <3> QED
        BY <1>1, <2>2, <2>3, <2>4, <2>5, <3>1 DEF FrameInv
    <2> QED
      BY <2>2, <2>6, FrameMoves
  <1>4. CASE SetGroupOwner
    <2>1. now' = now /\ loop.succ \in Users /\ loop.gid \in Gids
      BY <1>1, <1>4 DEF SetGroupOwner, FrameInv, LoopOnly
    <2>2. ASSUME loop.gid \in Live(db), Commits(WithOwner(db, loop.gid, loop.succ))
          PROVE  TablesInv'
      <3> DEFINE w == WithOwner(db, loop.gid, loop.succ)
      <3>1. w \in Tables /\ Sound(w) /\ Commits(w)
        BY <1>1, <2>1, <2>2, WithOwnerSound
      <3> HIDE DEF w
      <3> QED
        BY <1>1, <2>1, <3>1, CommitKeeps
    <2>3. ASSUME Commits(db) PROVE TablesInv'
      BY <1>1, <2>1, <2>3, CommitKeeps
    <2>4. ASSUME Raises(db) PROVE TablesInv'
      BY <1>1, <2>1, <2>4, RaiseKeeps
    <2>5. TablesInv'
      <3>1. \/ Commits(db) \/ Raises(db)
            \/ loop.gid \in Live(db) /\ Commits(WithOwner(db, loop.gid, loop.succ))
        BY <1>4 DEF SetGroupOwner
      <3> QED
        BY <2>2, <2>3, <2>4, <3>1
    <2> QED
      BY <1>4, <2>5, FrameEnds DEF SetGroupOwner
  <1>5. CASE DeleteGroup
    <2>1. loop.gid \in Gids /\ now' = now /\ Commits(WithoutGroup(db, loop.gid))
      BY <1>1, <1>5 DEF DeleteGroup, FrameInv, LoopOnly
    <2>2. TablesInv'
      <3> DEFINE w == WithoutGroup(db, loop.gid)
      <3>1. w \in Tables /\ Sound(w) /\ Commits(w)
        BY <1>1, <2>1, WithoutGroupSound
      <3> HIDE DEF w
      <3> QED
        BY <1>1, <2>1, <3>1, CommitKeeps
    <2> QED
      BY <1>5, <2>2, FrameEnds DEF DeleteGroup
  <1> QED
    BY <1>2, <1>3, <1>4, <1>5

\* Nothing a pool thread does gives a group the handler sees empty a member.
LEMMA ThreadKeeps == ASSUME IndInv, Threads PROVE IndInv'
  <1>1. /\ TablesInv /\ db \in Tables /\ disk \in Tables /\ Sound(db) /\ Sound(disk)
        /\ FrameInv /\ db.next \in Int /\ disk.next \in Int /\ disk.next <= db.next
        /\ db.next >= db.next
        /\ loop.pc = "drop" => loop.gid \in Gids
    BY BoundsAssumption DEF IndInv, TablesInv, FrameInv, Tables
  <1>2. ASSUME NEW u \in Users, DeleteUser(u) PROVE IndInv'
    <2>1. now' = now /\ loop' = loop /\ PoolInv'
      BY <1>2 DEF DeleteUser, IndInv, PoolInv
    <2>2. CASE RollsBack
      <3>1. TablesInv'
        BY <1>1, <2>1, <2>2, RollbackKeeps
      <3>2. ASSUME loop.pc = "drop", NEW v \in Users, db.joined[loop.gid][v] = 0
            PROVE  disk.joined[loop.gid][v] = 0
        BY <1>1, <3>2 DEF TablesInv, OnlyFailedCreatesUncommitted, Sound, Live
      <3>3. FrameInv'
        BY <1>1, <2>1, <2>2, <3>2, FrameSurvives DEF RollsBack
      <3> QED
        BY <2>1, <3>1, <3>3 DEF IndInv
    <2>3. ASSUME NEW owners \in [Gids -> Names], Inherits(db, u, owners),
                 Commits(WithoutUser(db, u, owners))
          PROVE  IndInv'
      <3> DEFINE w == WithoutUser(db, u, owners)
      <3>1. w \in Tables /\ Sound(w) /\ Commits(w)
        BY <1>1, <2>3, WithoutUserSound
      <3>2. w.next = db.next
            /\ \A g \in Gids, v \in Users : db.joined[g][v] = 0 => w.joined[g][v] = 0
        BY DEF WithoutUser
      <3> HIDE DEF w
      <3>3. TablesInv'
        BY <1>1, <2>1, <3>1, CommitKeeps
      <3>4. FrameInv'
        <4>1. db' = w
          BY <3>1 DEF Commits
        <4> QED
          BY <1>1, <2>1, <3>2, <4>1, FrameSurvives
      <3> QED
        BY <2>1, <3>3, <3>4 DEF IndInv
    <2> QED
      BY <1>2, <2>2, <2>3 DEF DeleteUser
  <1>3. ASSUME NEW t \in RegThreads, NEW u \in Users, RegisterCheck(t, u) PROVE IndInv'
    <2>1. TablesInv'
      BY <1>1, <1>3, QuietKeeps DEF RegisterCheck, TablesInv
    <2>2. FrameInv'
      BY <1>1, <1>3, FrameSurvives DEF RegisterCheck, NoDbWrite
    <2> QED
      BY <1>3, <2>1, <2>2 DEF RegisterCheck, IndInv, PoolInv, Names
  <1>4. ASSUME NEW t \in RegThreads, CreateUser(t) PROVE IndInv'
    <2> DEFINE n == registering[t]
               w == [db EXCEPT !.users = @ \cup {n}]
    <2>1. n \in Users /\ now' = now /\ loop' = loop /\ PoolInv'
      BY <1>4 DEF CreateUser, IndInv, PoolInv, Names
    <2>2. w.joined = db.joined /\ w.owner = db.owner /\ w.next = db.next
          /\ w.users = db.users \cup {n} /\ w \in Tables
      BY <1>1, <2>1 DEF Tables
    <2>3. Raises(db) \/ Commits(w)
      BY <1>4 DEF CreateUser
    <2> HIDE DEF w
    <2>4. Sound(w)
      BY <1>1, <2>2 DEF Sound
    <2>5. TablesInv'
      BY <1>1, <2>1, <2>2, <2>3, <2>4, CommitKeeps, RaiseKeeps
    <2>6. db'.joined = db.joined /\ db'.next = db.next
      BY <2>2, <2>3 DEF Raises, Commits
    <2>7. FrameInv'
      BY <1>1, <2>1, <2>6, FrameSurvives
    <2> QED
      BY <2>1, <2>5, <2>7 DEF IndInv
  <1>5. CASE OtherCommit
    <2>1. Commits(db) /\ now' = now /\ loop' = loop /\ PoolInv'
      BY <1>5 DEF OtherCommit, LoopOnly, IndInv, PoolInv
    <2>2. TablesInv' /\ db' = db
      BY <1>1, <2>1, CommitKeeps DEF Commits
    <2>3. FrameInv'
      BY <1>1, <2>1, <2>2, FrameSurvives
    <2> QED
      BY <2>1, <2>2, <2>3 DEF IndInv
  <1> QED
    BY <1>2, <1>3, <1>4, <1>5 DEF Threads

LEMMA NextKeeps == ASSUME IndInv, [Next]_vars PROVE IndInv'
  <1>1. CASE Crash
    <2>1. TablesInv'
      BY <1>1, RollbackKeeps DEF Crash, IndInv
    <2>2. PoolInv'
      BY <1>1 DEF Crash, PoolInv, Names
    <2> QED
      BY <1>1, <2>1, <2>2, IdleFrame DEF Crash, IndInv
  <1>2. CASE Tick
    <2>1. now' \in 1..MaxNow
      BY <1>2, BoundsAssumption DEF Tick, IndInv, TablesInv
    <2>2. TablesInv'
      BY <1>2, <2>1, QuietKeeps DEF Tick, IndInv
    <2> QED
      BY <1>2, <2>2 DEF Tick, NoDbWrite, IndInv, FrameInv, PoolInv, Members
  <1>3. CASE UNCHANGED vars
    BY <1>3 DEF vars, IndInv, TablesInv, FrameInv, PoolInv, Sound, Members, Live,
       OnlyFailedCreatesUncommitted
  <1> QED
    BY <1>1, <1>2, <1>3, RequestKeeps, CreateKeeps, MemberStepKeeps, RemovalKeeps, ThreadKeeps
       DEF Next, UpNext, HandlerSteps

THEOREM Invariance == Spec => []IndInv
  <1>1. Init => IndInv
    BY InitInv
  <1>2. IndInv /\ [Next]_vars => IndInv'
    BY NextKeeps
  <1> QED
    BY <1>1, <1>2, PTL DEF Spec

\* Every variable stays in its domain, whatever the instance.
THEOREM TypeCorrect == Spec => []TypeOK
  <1>1. IndInv => TypeOK
    BY DEF IndInv, TablesInv, FrameInv, PoolInv, TypeOK
  <1> QED
    BY <1>1, Invariance, PTL

\* A rollback or a restart loses no account and no committed change of a group.
THEOREM NothingCommittedIsLost == Spec => []OnlyFailedCreatesUncommitted
  <1>1. IndInv => OnlyFailedCreatesUncommitted
    BY DEF IndInv, TablesInv
  <1> QED
    BY <1>1, Invariance, PTL

-----------------------------------------------------------------------------
(* DroppedOnlyWhenEmpty.                                                   *)

\* Committed groups are in the tables of the connection too.
LEMMA LiveOnBoth ==
    ASSUME IndInv
    PROVE  /\ Live(disk) \subseteq Live(db)
           /\ \A g \in Live(disk) : Members(disk, g) = Members(db, g)
  BY DEF IndInv, TablesInv, OnlyFailedCreatesUncommitted, Live, Members

KeepsGroups == \A g \in Live(disk) : g \in Live(disk)'

LEMMA NoCommitKeepsGroups == ASSUME disk' = disk PROVE KeepsGroups
  BY DEF KeepsGroups, Live

LEMMA CommitKeepsGroups ==
    ASSUME IndInv, NEW d, Commits(d), \A g \in Live(db) : d.owner[g] # NoUser
    PROVE  KeepsGroups
  BY LiveOnBoth DEF KeepsGroups, Commits, Live

LEMMA HandlerDropsEmpty ==
    ASSUME IndInv, HandlerSteps, NEW g \in Live(disk), g \notin Live(disk)'
    PROVE  Members(disk, g) = {}
  <1>1. /\ db \in Tables /\ Sound(db) /\ FrameInv /\ loop \in Frames /\ now \in 1..MaxNow
        /\ ~KeepsGroups
    BY DEF IndInv, TablesInv, FrameInv, KeepsGroups
  <1>2. CASE InsertGroup
    <2>1. ASSUME loop.roster \subseteq db.users, Commits(WithGroup(db, loop.me, loop.roster))
          PROVE  FALSE
      <3> DEFINE w == WithGroup(db, loop.me, loop.roster)
      <3>1. loop.me \in Users /\ db.next <= MaxGid
        BY <1>1, <1>2, <2>1 DEF InsertGroup, FrameInv, Tables
      <3>2. \A h \in Live(db) : w.owner[h] = db.owner[h] /\ db.owner[h] # NoUser
        BY <1>1, <2>1, <3>1, WithGroupSound DEF Live
      <3>3. Commits(w)
        BY <2>1
      <3> HIDE DEF w
      <3> QED
        BY <1>1, <3>2, <3>3, CommitKeepsGroups
    <2> QED
      BY <1>1, <1>2, <2>1, NoCommitKeepsGroups DEF InsertGroup, Raises
  <1>3. CASE \/ \E u \in Users : FilterMember(u)
             \/ RequireMember \/ UserExists \/ OldestGroupMember
    BY <1>1, <1>3, NoCommitKeepsGroups
       DEF FilterMember, RequireMember, UserExists, OldestGroupMember, NoDbWrite
  <1>4. CASE AddGroupMember \/ StoreEnvelope \/ RemoveGroupMember \/ SetGroupOwner
    <2>1. PICK d : /\ Commits(d) \/ Raises(d)
                   /\ \A h \in Live(db) : d.owner[h] # NoUser
      <3>1. \A h \in Live(db) : db.owner[h] # NoUser
        BY DEF Live
      <3>2. CASE AddGroupMember
        <4>1. WithJoined(db, loop.gid, loop.target, now).owner = db.owner
          BY <1>1 DEF WithJoined, Tables
        <4> QED
          BY <3>1, <3>2, <4>1 DEF AddGroupMember
      <3>3. CASE StoreEnvelope
        BY <3>1, <3>3 DEF StoreEnvelope, InsertRow
      <3>4. CASE RemoveGroupMember
        <4>1. WithJoined(db, loop.gid, loop.target, 0).owner = db.owner
          BY <1>1 DEF WithJoined, Tables
        <4> QED
          BY <3>1, <3>4, <4>1 DEF RemoveGroupMember
      <3>5. CASE SetGroupOwner
        <4>1. loop.succ # NoUser
          BY <1>1, <3>5, UsersAssumption DEF SetGroupOwner, FrameInv, NoUser
        <4>2. WithOwner(db, loop.gid, loop.succ).owner = [db.owner EXCEPT ![loop.gid] = loop.succ]
              /\ db.owner \in [Gids -> Names]
          BY <1>1 DEF WithOwner, Tables
        <4>3. \A h \in Live(db) : WithOwner(db, loop.gid, loop.succ).owner[h] # NoUser
          BY <3>1, <4>1, <4>2 DEF Live
        <4> QED
          BY <3>1, <3>5, <4>3 DEF SetGroupOwner
      <3> QED
        BY <1>4, <3>2, <3>3, <3>4, <3>5
    <2> QED
      BY <1>1, <2>1, CommitKeepsGroups, NoCommitKeepsGroups DEF Raises
  <1>5. CASE DeleteGroup
    <2>1. Members(db, loop.gid) = {} /\ disk' = WithoutGroup(db, loop.gid)
      BY <1>1, <1>5 DEF DeleteGroup, FrameInv, Commits
    <2>2. disk'.owner = [db.owner EXCEPT ![loop.gid] = NoUser] /\ db.owner \in [Gids -> Names]
      BY <1>1, <2>1 DEF WithoutGroup, Tables
    <2>3. g \in Live(db) /\ Members(disk, g) = Members(db, g)
      BY LiveOnBoth
    <2>4. g = loop.gid
      BY <2>2, <2>3 DEF Live
    <2> QED
      BY <2>1, <2>3, <2>4
  <1> QED
    BY <1>2, <1>3, <1>4, <1>5 DEF HandlerSteps

LEMMA ThreadDropsEmpty ==
    ASSUME IndInv, Threads, NEW g \in Live(disk), g \notin Live(disk)'
    PROVE  Members(disk, g) \subseteq disk.users \ disk'.users
  <1>1. /\ db \in Tables /\ Sound(disk) /\ ~KeepsGroups /\ g \in Live(db)
        /\ Members(disk, g) = Members(db, g) /\ disk.users = db.users
    BY LiveOnBoth DEF IndInv, TablesInv, KeepsGroups, OnlyFailedCreatesUncommitted
  <1>2. ASSUME NEW u \in Users, DeleteUser(u)
        PROVE  Members(disk, g) \subseteq disk.users \ disk'.users
    <2>1. CASE RollsBack
      BY <1>1, <2>1, NoCommitKeepsGroups DEF RollsBack
    <2>2. ASSUME NEW owners \in [Gids -> Names], Inherits(db, u, owners),
                 Commits(WithoutUser(db, u, owners))
          PROVE  Members(disk, g) \subseteq disk.users \ disk'.users
      <3>1. disk'.owner = owners /\ disk'.users = db.users \ {u}
        BY <2>2 DEF Commits, WithoutUser
      <3>2. owners[g] = NoUser /\ db.owner[g] # NoUser /\ g \in Gids
        BY <1>1, <3>1 DEF Live
      <3>3. Members(db, g) \ {u} = {}
        BY <2>2, <3>2, UsersAssumption DEF Inherits, IsSuccessor, Members, NoUser
      <3>4. Members(disk, g) \subseteq disk.users
        BY <1>1, <3>2 DEF Sound, Members
      <3> QED
        BY <1>1, <3>1, <3>3, <3>4
    <2> QED
      BY <1>2, <2>1, <2>2 DEF DeleteUser
  <1>3. ASSUME NEW t \in RegThreads, CreateUser(t) PROVE KeepsGroups
    <2> DEFINE w == [db EXCEPT !.users = @ \cup {registering[t]}]
    <2>1. Commits(w) \/ Raises(db)
      BY <1>3 DEF CreateUser
    <2>2. \A h \in Live(db) : w.owner[h] # NoUser
      BY <1>1 DEF Live, Tables
    <2> HIDE DEF w
    <2> QED
      BY <2>1, <2>2, CommitKeepsGroups, NoCommitKeepsGroups DEF Raises
  <1>4. CASE OtherCommit
    BY <1>1, <1>4, CommitKeepsGroups DEF OtherCommit, Live
  <1>5. ASSUME NEW t \in RegThreads, NEW u \in Users, RegisterCheck(t, u) PROVE KeepsGroups
    BY <1>5, NoCommitKeepsGroups DEF RegisterCheck, NoDbWrite
  <1> QED
    BY <1>1, <1>2, <1>3, <1>4, <1>5 DEF Threads

\* No step takes a committed group from members who keep their accounts: the
\* hand-over on account deletion and the drop after the last leave never race
\* into losing a conversation.
THEOREM GroupsOutliveTheirOwners == Spec => DroppedOnlyWhenEmpty
  <1>1. ASSUME IndInv, [Next]_vars, NEW g \in Live(disk), g \notin Live(disk)'
        PROVE  Members(disk, g) \subseteq disk.users \ disk'.users
    <2>1. ~KeepsGroups
      BY <1>1 DEF KeepsGroups
    <2>2. ~(disk' = disk)
      BY <2>1, NoCommitKeepsGroups
    <2>3. CASE Requests
      <3>1. CASE \E me \in Users : StoreFile(me)
        <4>1. Commits(db)
          BY <2>2, <3>1 DEF StoreFile, InsertRow, Raises
        <4> QED
          BY <1>1, <2>1, <4>1, CommitKeepsGroups DEF Live
      <3> QED
        BY <2>2, <2>3, <3>1 DEF Requests, CreateGroup, SendGroup, AddMember, RemoveMember,
           OpenGroup, SendMessage, DeleteAccount, NoDbWrite
    <2>4. CASE HandlerSteps
      BY <1>1, <2>4, HandlerDropsEmpty
    <2>5. CASE Threads
      BY <1>1, <2>5, ThreadDropsEmpty
    <2> QED
      BY <1>1, <2>2, <2>3, <2>4, <2>5 DEF Next, UpNext, Crash, RollsBack, Tick, NoDbWrite, vars
  <1>2. IndInv /\ [Next]_vars =>
          [\A g \in Live(disk) : g \notin Live(disk)' =>
              Members(disk, g) \subseteq disk.users \ disk'.users]_vars
    BY <1>1
  <1> QED
    BY <1>2, Invariance, PTL DEF Spec, DroppedOnlyWhenEmpty

-----------------------------------------------------------------------------
(* StrandedOnlyByATear.                                                    *)

\* A group whose rows stand, and that keeps whoever was about to mend it,
\* fares as before.
LEMMA SameFate ==
    ASSUME NEW g \in Gids, Stranded(g)', UnderRepair(g) => UnderRepair(g)',
           g \in Live(db)' => /\ db'.owner[g] = db.owner[g]
                              /\ Members(db, g)' = Members(db, g)
    PROVE  Stranded(g)
  BY DEF Stranded, Live

\* The rows of all groups stand and the handler has not begun a repair.
LEMMA QuietFate ==
    ASSUME NEW g \in Gids, Stranded(g)', db' = db,
           loop.pc \notin {"succ", "drop", "hand"} \/ loop' = loop
    PROVE  Stranded(g)
  <1>1. Members(db, g)' = Members(db, g)
    BY DEF Members
  <1>2. UnderRepair(g) => UnderRepair(g)'
    BY <1>1 DEF UnderRepair, Members
  <1> QED
    BY <1>1, <1>2, SameFate

LEMMA RequestTearsNothing ==
    ASSUME Requests, NEW g \in Gids, Stranded(g)'
    PROVE  Stranded(g)
  <1>1. loop = Idle /\ db' = db
    BY DEF Requests, CreateGroup, SendGroup, AddMember, RemoveMember, OpenGroup, SendMessage,
       StoreFile, InsertRow, DeleteAccount, NoDbWrite, Commits, Raises
  <1>2. loop.pc = "idle"
    BY <1>1 DEF Idle
  <1> QED
    BY <1>1, <1>2, QuietFate

LEMMA CreateTears ==
    ASSUME IndInv, InsertGroup, NEW g \in Gids, Stranded(g)', ~Stranded(g)
    PROVE  Tears(g)
  <1>a. /\ db \in Tables /\ Sound(db) /\ now \in 1..MaxNow
        /\ loop.pc = "filter" => db.next <= MaxGid /\ loop.me \in loop.roster
    BY DEF IndInv, TablesInv, FrameInv
  <1>b. loop.pc = "filter"
    BY DEF InsertGroup
  <1>c. db.next \in Gids
    <2>1. db.next \in 1..(MaxGid + 1) /\ db.next <= MaxGid
      BY <1>a, <1>b DEF Tables
    <2> QED
      BY <2>1, BoundsAssumption DEF Gids
  <1>1. /\ db \in Tables /\ Sound(db) /\ now \in 1..MaxNow /\ loop.pc = "filter"
        /\ db.next <= MaxGid /\ loop.me \in loop.roster /\ db.next \in Gids
    BY <1>a, <1>b, <1>c
  <1>2. ~UnderRepair(g)
    BY <1>1 DEF UnderRepair
  <1>3. CASE db' = db
    BY <1>1, <1>3, QuietFate
  <1>4. ASSUME NEW m, m \subseteq db.users, db' = WithGroup(db, loop.me, m), g # db.next
        PROVE  FALSE
    <2>1. db'.owner[g] = db.owner[g] /\ db'.joined[g] = db.joined[g]
      BY <1>1, <1>4 DEF WithGroup, Tables
    <2> QED
      BY <1>2, <2>1, SameFate DEF Members
  <1>5. ASSUME loop.roster \subseteq db.users, db' = WithGroup(db, loop.me, loop.roster),
               g = db.next
        PROVE  FALSE
    <2>1. loop.me \in Users /\ now # 0
      BY <1>1, <1>5, BoundsAssumption DEF Tables
    <2>2. db'.owner[g] = loop.me /\ db'.joined[g][loop.me] = now
      BY <1>1, <1>5, <2>1 DEF WithGroup, Tables
    <2> QED
      BY <2>1, <2>2 DEF Stranded, Members
  <1> QED
    BY <1>3, <1>4, <1>5 DEF InsertGroup, Commits, Raises, Tears

LEMMA RemovalTears ==
    ASSUME IndInv, RemoveGroupMember \/ OldestGroupMember \/ SetGroupOwner \/ DeleteGroup,
           NEW g \in Gids, Stranded(g)', ~Stranded(g)
    PROVE  Tears(g)
  <1>1. db \in Tables /\ Sound(db) /\ FrameInv /\ loop \in Frames
    BY DEF IndInv, TablesInv, FrameInv
  <1>2. CASE RemoveGroupMember
    <2>1. /\ loop.pc = "remove" /\ ~UnderRepair(g)
          /\ db' = WithJoined(db, loop.gid, loop.target, 0)
      BY <1>2 DEF RemoveGroupMember, UnderRepair, Commits
    <2>2. db'.owner = db.owner
          /\ db'.joined = [db.joined EXCEPT ![loop.gid] = [db.joined[loop.gid] EXCEPT ![loop.target] = 0]]
      BY <1>1, <2>1 DEF WithJoined, Tables
    <2>3. CASE g # loop.gid
      <3>1. db'.joined[g] = db.joined[g]
        BY <1>1, <2>2, <2>3 DEF Tables
      <3> QED
        BY <2>1, <2>2, <3>1, SameFate DEF Members
    <2>4. CASE g = loop.gid /\ loop.owner = db.owner[g]
      <3>1. loop.target # loop.owner
        <4>1. ASSUME loop.target = loop.owner PROVE UnderRepair(g)'
          <5>1. loop' = [loop EXCEPT !.pc = "succ"]
            BY <1>2, <4>1 DEF RemoveGroupMember
          <5> QED
            BY <1>1, <2>4, <5>1 DEF UnderRepair, Frames
        <4> QED
          BY <4>1 DEF Stranded
      <3>2. db'.owner[g] = db.owner[g] /\ db.owner[g] # loop.target
        BY <2>2, <2>4, <3>1
      <3>3. \A v \in Users : v # loop.target => db'.joined[g][v] = db.joined[g][v]
        BY <1>1, <2>2, <2>4 DEF Tables
      <3> QED
        BY <2>1, <3>2, <3>3 DEF Stranded, Live, Members
    <2> QED
      BY <1>2, <2>3, <2>4 DEF Tears
  <1>3. CASE OldestGroupMember
    <2>1. PICK s \in Names :
             /\ IsSuccessor(db, loop.gid, Members(db, loop.gid), s)
             /\ loop' = [loop EXCEPT !.succ = s, !.pc = IF s = NoUser THEN "drop" ELSE "hand"]
      BY <1>3 DEF OldestGroupMember
    <2>2. db' = db /\ loop.pc = "succ"
      BY <1>3 DEF OldestGroupMember, NoDbWrite
    <2>3. loop'.pc = (IF s = NoUser THEN "drop" ELSE "hand") /\ loop'.succ = s
          /\ loop'.gid = loop.gid
      BY <1>1, <2>1 DEF Frames
    <2>4. s = NoUser \/ s \in Members(db, loop.gid)
      BY <2>1 DEF IsSuccessor
    <2>5. UnderRepair(g) => UnderRepair(g)'
      BY <2>2, <2>3, <2>4 DEF UnderRepair, Members
    <2> QED
      BY <2>2, <2>5, SameFate DEF Members
  <1>4. CASE SetGroupOwner
    <2>1. loop.pc = "hand" /\ loop.succ \in Users
      BY <1>1, <1>4 DEF SetGroupOwner, FrameInv
    <2>2. \/ db' = db
          \/ loop.gid \in Live(db) /\ db' = WithOwner(db, loop.gid, loop.succ)
      BY <1>4 DEF SetGroupOwner, Commits, Raises
    <2>3. db'.joined = db.joined /\ (g # loop.gid => db'.owner[g] = db.owner[g])
          /\ Members(db, g)' = Members(db, g)
      BY <1>1, <2>2 DEF WithOwner, Tables, Members
    <2>4. CASE g # loop.gid
      BY <2>3, <2>4, SameFate DEF UnderRepair
    <2>5. CASE g = loop.gid /\ loop.succ \in Members(db, g)
      <3>1. g \in Live(db) /\ loop.succ \in db.users
        BY <1>1, <2>5 DEF Sound, Members, Live
      <3>2. db' = WithOwner(db, g, loop.succ)
        BY <1>4, <2>5, <3>1 DEF SetGroupOwner, Commits
      <3>3. db'.owner[g] = loop.succ
        BY <1>1, <3>2 DEF WithOwner, Tables
      <3> QED
        BY <2>3, <2>5, <3>3 DEF Stranded
    <2> QED
      BY <1>4, <2>4, <2>5 DEF Tears
  <1>5. CASE DeleteGroup
    <2>1. loop.pc = "drop" /\ db' = WithoutGroup(db, loop.gid)
      BY <1>5 DEF DeleteGroup, Commits
    <2>2. /\ db'.owner = [db.owner EXCEPT ![loop.gid] = NoUser]
          /\ db'.joined = [db.joined EXCEPT ![loop.gid] = [u \in Users |-> 0]]
      BY <1>1, <2>1 DEF WithoutGroup, Tables
    <2>3. CASE g = loop.gid
      BY <1>1, <2>2, <2>3 DEF Stranded, Live, Tables
    <2>4. CASE g # loop.gid
      <3>1. db'.owner[g] = db.owner[g] /\ db'.joined[g] = db.joined[g]
        BY <1>1, <2>2, <2>4 DEF Tables
      <3> QED
        BY <2>4, <3>1, SameFate DEF UnderRepair, Members
    <2> QED
      BY <2>3, <2>4
  <1> QED
    BY <1>2, <1>3, <1>4, <1>5

LEMMA HandlerTears ==
    ASSUME IndInv, HandlerSteps, NEW g \in Gids, Stranded(g)', ~Stranded(g)
    PROVE  Tears(g)
  <1>1. db \in Tables /\ FrameInv /\ loop \in Frames /\ now # 0 /\ Sound(db)
    BY BoundsAssumption DEF IndInv, TablesInv, FrameInv
  <1>2. CASE (\E u \in Users : FilterMember(u)) \/ RequireMember \/ UserExists
    BY <1>2, QuietFate DEF FilterMember, RequireMember, UserExists, NoDbWrite
  <1>3. CASE AddGroupMember
    <2>1. loop.pc = "insert" /\ ~UnderRepair(g) /\ loop.gid \in Gids /\ loop.target \in Users
      BY <1>1, <1>3 DEF AddGroupMember, UnderRepair, FrameInv
    <2>2. CASE db' = WithJoined(db, loop.gid, loop.target, now)
      <3>1. db'.owner = db.owner
        BY <1>1, <2>2 DEF WithJoined, Tables
      <3>2. db'.joined =
              [db.joined EXCEPT ![loop.gid] = [db.joined[loop.gid] EXCEPT ![loop.target] = now]]
        BY <1>1, <2>2 DEF WithJoined, Tables
      <3>3. \A v \in Users : db.joined[g][v] # 0 => db'.joined[g][v] # 0
        BY <1>1, <2>1, <3>2 DEF Tables
      <3> QED
        BY <2>1, <3>1, <3>3 DEF Stranded, Live, Members
    <2>3. db' = db \/ db' = WithJoined(db, loop.gid, loop.target, now)
      BY <1>3 DEF AddGroupMember, Commits, Raises
    <2> QED
      BY <2>1, <2>2, <2>3, QuietFate
  <1>4. CASE StoreEnvelope
    <2>1. loop.pc = "insert" /\ db' = db
      BY <1>4 DEF StoreEnvelope, InsertRow, Commits, Raises
    <2> QED
      BY <2>1, QuietFate
  <1> QED
    BY <1>2, <1>3, <1>4, CreateTears, RemovalTears DEF HandlerSteps

LEMMA ThreadTears ==
    ASSUME IndInv, Threads, NEW g \in Gids, Stranded(g)', ~Stranded(g)
    PROVE  Tears(g)
  <1>1. db \in Tables /\ Sound(db)
    BY DEF IndInv, TablesInv
  <1>2. ASSUME NEW u \in Users, DeleteUser(u) PROVE Tears(g)
    <2>1. loop' = loop
      BY <1>2 DEF DeleteUser
    <2>2. CASE RollsBack
      <3>1. g \in Live(disk) => db'.owner[g] = db.owner[g] /\ Members(db, g)' = Members(db, g)
        BY <2>2 DEF RollsBack, IndInv, TablesInv, OnlyFailedCreatesUncommitted, Members
      <3>2. g \in Live(disk)
        BY <2>2 DEF RollsBack, Stranded, Live
      <3>3. UnderRepair(g) => UnderRepair(g)'
        BY <2>1, <3>1, <3>2 DEF UnderRepair, Members
      <3> QED
        BY <3>1, <3>2, <3>3, SameFate
    <2>3. ASSUME NEW owners \in [Gids -> Names], Inherits(db, u, owners),
                 Commits(WithoutUser(db, u, owners))
          PROVE  Tears(g)
      <3>1. /\ db'.owner = owners
            /\ db'.joined = [h \in Gids |-> [v \in Users |->
                               IF v = u \/ owners[h] = NoUser THEN 0 ELSE db.joined[h][v]]]
        BY <2>3 DEF Commits, WithoutUser
      <3>2. owners[g] # NoUser
        BY <3>1 DEF Stranded, Live
      <3>3. Members(db, g)' = Members(db, g) \ {u}
        BY <3>1, <3>2 DEF Members
      <3>4. CASE db.owner[g] = u
        <4>1. owners[g] \in Members(db, g) \ {u}
          BY <2>3, <3>2, <3>4 DEF Inherits, IsSuccessor
        <4> QED
          BY <3>1, <3>3, <4>1 DEF Stranded
      <3>5. CASE db.owner[g] # u
        <4>1. db'.owner[g] = db.owner[g]
          BY <2>3, <3>1, <3>5 DEF Inherits
        <4>2. UnderRepair(g) /\ ~UnderRepair(g)'
          BY <3>2, <3>1, <3>3, <3>5, <4>1 DEF Stranded, Live
        <4>3. loop.pc = "hand" /\ loop.gid = g /\ loop.succ = u
          BY <2>1, <3>3, <4>2 DEF UnderRepair, Members
        <4> QED
          BY <1>2, <4>3 DEF Tears
      <3> QED
        BY <3>4, <3>5
    <2> QED
      BY <1>2, <2>2, <2>3 DEF DeleteUser
  <1>3. ASSUME NEW t \in RegThreads, CreateUser(t) PROVE FALSE
    <2>1. loop' = loop /\ db'.owner = db.owner /\ db'.joined = db.joined
      BY <1>1, <1>3 DEF CreateUser, Commits, Raises, Tables
    <2>2. Members(db, g)' = Members(db, g)
      BY <2>1 DEF Members
    <2>3. UnderRepair(g) => UnderRepair(g)'
      BY <2>1, <2>2 DEF UnderRepair, Members
    <2> QED
      BY <2>1, <2>2, <2>3, SameFate
  <1>4. ASSUME OtherCommit \/ \E t \in RegThreads, u \in Users : RegisterCheck(t, u)
        PROVE  FALSE
    BY <1>4, QuietFate DEF OtherCommit, Commits, RegisterCheck, NoDbWrite
  <1> QED
    BY <1>2, <1>3, <1>4 DEF Threads

\* The ways to leave a group without an owner among its members are exactly the
\* ones Tears lists: every other step, in every interleaving, keeps or restores it.
THEOREM TearsAreComplete == Spec => StrandedOnlyByATear
  <1>1. ASSUME IndInv, [Next]_vars, NEW g \in Gids, Stranded(g)', ~Stranded(g)
        PROVE  Tears(g)
    <2>1. CASE Crash
      <3>1. g \in Live(disk)
        BY <1>1, <2>1 DEF Crash, RollsBack, Stranded, Live
      <3>2. db.owner[g] = disk.owner[g] /\ Members(db, g)' = Members(db, g)
        BY <1>1, <2>1, <3>1
           DEF Crash, RollsBack, IndInv, TablesInv, OnlyFailedCreatesUncommitted, Members
      <3>3. db'.owner[g] = db.owner[g] /\ g \in Live(db)
        BY <2>1, <3>1, <3>2 DEF Crash, RollsBack, Live
      <3>4. db.owner[g] \notin Members(db, g)
        BY <1>1, <3>2, <3>3 DEF Stranded
      <3> QED
        BY <1>1, <2>1, <3>3, <3>4 DEF Stranded, Tears
    <2>2. CASE Tick \/ UNCHANGED vars
      BY <1>1, <2>2, QuietFate DEF Tick, NoDbWrite, vars
    <2> QED
      BY <1>1, <2>1, <2>2, RequestTearsNothing, HandlerTears, ThreadTears DEF Next, UpNext
  <1>2. IndInv /\ [Next]_vars =>
          [\A g \in Gids : Stranded(g)' /\ ~Stranded(g) => Tears(g)]_vars
    BY <1>1
  <1> QED
    BY <1>2, Invariance, PTL DEF Spec, StrandedOnlyByATear

-----------------------------------------------------------------------------
(* What the tables and the frame know beyond IndInv, for GroupService.     *)

\* Nobody joined later than now.
Stamps(d, t) == \A g \in Gids, u \in Users : d.joined[g][u] <= t

Stamped == Stamps(db, now) /\ Stamps(disk, now)

Eldest(d, g, u) == u \in Members(d, g) /\ \A v \in Members(d, g) : Before(d, g, u, v)

\* Where an owner who leaves has read that it is the owner, or not yet taken
\* out: another owner can only have inherited the group meanwhile, as its eldest.
OwnerKnown ==
    (loop.pc \in {"member", "remove", "succ"} /\ loop.op = "remove" /\ loop.target = loop.owner) =>
       db.owner[loop.gid] \in {loop.owner, NoUser} \/ Eldest(db, loop.gid, db.owner[loop.gid])

\* The owner has left when its successor is looked for; and a successor who is
\* still in the group is the eldest, with no other owner in it.
SuccessorKnown ==
    /\ loop.pc = "succ" => loop.target = loop.owner /\ loop.owner \notin Members(db, loop.gid)
    /\ loop.pc = "hand" /\ loop.succ \in Members(db, loop.gid) =>
          /\ Eldest(db, loop.gid, loop.succ)
          /\ db.owner[loop.gid] \notin Members(db, loop.gid) \ {loop.succ}

ServiceInv == IndInv /\ Stamped /\ OwnerKnown /\ SuccessorKnown

\* Each step writes to no table, takes back, or keeps or leaves open what it did.
LEMMA Writes ==
    ASSUME IndInv, [Next]_vars
    PROVE  /\ disk' = disk \/ disk' = db'
           /\ now' \in Nat /\ now \in Nat /\ now <= now'
  <1>1. now \in 1..MaxNow
    BY DEF IndInv, TablesInv
  <1>2. now' = now \/ now' = now + 1
    BY DEF Next, UpNext, Requests, HandlerSteps, Threads, Tick, Crash, CreateGroup, SendGroup,
       AddMember, RemoveMember, OpenGroup, SendMessage, StoreFile, DeleteAccount, FilterMember,
       InsertGroup, RequireMember, UserExists, AddGroupMember, StoreEnvelope, RemoveGroupMember,
       OldestGroupMember, SetGroupOwner, DeleteGroup, DeleteUser, RegisterCheck, CreateUser,
       OtherCommit, LoopOnly, vars
  <1>3. disk' = disk \/ disk' = db'
    BY DEF Next, UpNext, Requests, HandlerSteps, Threads, Tick, Crash, CreateGroup, SendGroup,
       AddMember, RemoveMember, OpenGroup, SendMessage, StoreFile, DeleteAccount, FilterMember,
       InsertGroup, RequireMember, UserExists, AddGroupMember, StoreEnvelope, RemoveGroupMember,
       OldestGroupMember, SetGroupOwner, DeleteGroup, DeleteUser, RegisterCheck, CreateUser,
       OtherCommit, NoDbWrite, Commits, Raises, RollsBack, InsertRow, vars
  <1> QED
    BY <1>1, <1>2, <1>3, BoundsAssumption

\* The steps that write to no row, but for those of transactions and accounts
Rowless ==
    \/ Requests \/ Tick \/ OtherCommit \/ RequireMember \/ UserExists \/ StoreEnvelope
    \/ OldestGroupMember
    \/ \E u \in Users : FilterMember(u)
    \/ \E t \in RegThreads, u \in Users : RegisterCheck(t, u)

LEMMA RowlessKeeps ==
    ASSUME Rowless
    PROVE  db' = db /\ (disk' = disk \/ disk' = db)
  BY DEF Rowless, Requests, Tick, OtherCommit, RequireMember, UserExists, StoreEnvelope,
     OldestGroupMember, FilterMember, RegisterCheck, CreateGroup, SendGroup, AddMember,
     RemoveMember, OpenGroup, SendMessage, StoreFile, DeleteAccount, NoDbWrite, InsertRow,
     Commits, Raises

\* What the writing operations make of the rows.
Rows(d, users, owner, joined) == d.users = users /\ d.owner = owner /\ d.joined = joined

EmptyRow == [u \in Users |-> 0]

LEMMA WithGroupRows ==
    ASSUME NEW d \in Tables, NEW o, NEW m
    PROVE  Rows(WithGroup(d, o, m), d.users, [d.owner EXCEPT ![d.next] = o],
                [d.joined EXCEPT ![d.next] = [u \in Users |-> IF u \in m THEN now ELSE 0]])
  BY DEF WithGroup, Rows

LEMMA WithJoinedRows ==
    ASSUME NEW d \in Tables, NEW g, NEW u, NEW t
    PROVE  Rows(WithJoined(d, g, u, t), d.users, d.owner,
                [d.joined EXCEPT ![g] = [d.joined[g] EXCEPT ![u] = t]])
  <1> DEFINE all == [d.joined EXCEPT ![g] = [d.joined[g] EXCEPT ![u] = t]]
             w == WithJoined(d, g, u, t)
  <1>1. w = [d EXCEPT !.joined = all]
    BY DEF WithJoined
  <1> HIDE DEF all
  <1>2. w.users = d.users /\ w.owner = d.owner /\ w.joined = all
    BY <1>1 DEF Tables
  <1> QED
    BY <1>2 DEF Rows, all

LEMMA WithoutGroupRows ==
    ASSUME NEW d \in Tables, NEW g
    PROVE  Rows(WithoutGroup(d, g), d.users, [d.owner EXCEPT ![g] = NoUser],
                [d.joined EXCEPT ![g] = EmptyRow])
  <1> DEFINE w == WithoutGroup(d, g)
             all == [d.joined EXCEPT ![g] = EmptyRow]
             own == [d.owner EXCEPT ![g] = NoUser]
  <1>1. w = [d EXCEPT !.owner = own, !.joined = all]
    BY DEF WithoutGroup, EmptyRow
  <1> HIDE DEF all, own
  <1>2. w.users = d.users /\ w.owner = own /\ w.joined = all
    BY <1>1 DEF Tables
  <1> QED
    BY <1>2 DEF Rows, all, own

LEMMA WithOwnerRows ==
    ASSUME NEW d \in Tables, NEW g, NEW o
    PROVE  Rows(WithOwner(d, g, o), d.users, [d.owner EXCEPT ![g] = o], d.joined)
  BY DEF WithOwner, Tables, Rows

\* Stamps of one member changed
LEMMA RowChanged ==
    ASSUME NEW f \in [Gids -> [Users -> 0..MaxNow]], NEW g, NEW u, NEW t,
           NEW h \in Gids, NEW v \in Users
    PROVE  [f EXCEPT ![g] = [f[g] EXCEPT ![u] = t]][h][v] =
              IF h = g /\ v = u THEN t ELSE f[h][v]
  OBVIOUS

\* Whatever a step does to the rows, a stamp is one that was there, or now.
LEMMA StampsOf ==
    ASSUME IndInv, [Next]_vars, NEW g \in Gids, NEW u \in Users
    PROVE  db'.joined[g][u] \in {0, now, db.joined[g][u], disk.joined[g][u]}
  <1>1. /\ db \in Tables /\ db.next \in Nat /\ FrameInv /\ Sound(db)
        /\ db.joined[g] \in [Users -> 0..MaxNow] /\ db.joined \in [Gids -> [Users -> 0..MaxNow]]
    BY BoundsAssumption DEF IndInv, TablesInv, Tables
  <1>2. CASE Rowless \/ UNCHANGED vars \/ SetGroupOwner
    <2>1. Rows(WithOwner(db, loop.gid, loop.succ), db.users,
               [db.owner EXCEPT ![loop.gid] = loop.succ], db.joined)
      BY <1>1, WithOwnerRows
    <2>2. \/ db' = db
          \/ SetGroupOwner /\ db' = WithOwner(db, loop.gid, loop.succ)
      BY <1>2, RowlessKeeps DEF vars, SetGroupOwner, Commits, Raises
    <2>3. db'.joined = db.joined
      BY <2>1, <2>2 DEF Rows
    <2> QED
      BY <2>3
  <1>3. CASE Crash \/ \E v \in Users : DeleteUser(v)
    <2>1. db' = disk \/ \E v \in Users : \E owners : db' = WithoutUser(db, v, owners)
      BY <1>3 DEF Crash, DeleteUser, RollsBack, Commits
    <2> QED
      BY <2>1 DEF WithoutUser
  <1>4. CASE InsertGroup
    <2>1. \/ db' = db
          \/ \E m : db' = WithGroup(db, loop.me, m)
      BY <1>4 DEF InsertGroup, Commits, Raises
    <2>2. db.next \in Gids
      BY <1>1, <1>4, BoundsAssumption DEF InsertGroup, FrameInv, IndInv, TablesInv, Tables, Gids
    <2>3. ASSUME NEW m, db' = WithGroup(db, loop.me, m)
          PROVE  db'.joined[g][u] \in {0, now, db.joined[g][u]}
      <3> DEFINE row == [v \in Users |-> IF v \in m THEN now ELSE 0]
      <3>1. Rows(WithGroup(db, loop.me, m), db.users, [db.owner EXCEPT ![db.next] = loop.me],
                 [db.joined EXCEPT ![db.next] = row])
        BY <1>1, WithGroupRows
      <3>2. row[u] \in {0, now}
        OBVIOUS
      <3>3. db'.joined[g] = IF g = db.next THEN row ELSE db.joined[g]
        BY <1>1, <2>2, <2>3, <3>1 DEF Rows
      <3> HIDE DEF row
      <3> QED
        BY <3>2, <3>3
    <2> QED
      BY <2>1, <2>3
  <1>5. CASE AddGroupMember \/ RemoveGroupMember
    <2>1. loop.gid \in Gids /\ loop.target \in Users
      BY <1>1, <1>5 DEF AddGroupMember, RemoveGroupMember, FrameInv
    <2>2. db' = db \/ \E t \in {0, now} : db' = WithJoined(db, loop.gid, loop.target, t)
      BY <1>5 DEF AddGroupMember, RemoveGroupMember, Commits, Raises
    <2>3. ASSUME NEW t \in {0, now}, db' = WithJoined(db, loop.gid, loop.target, t)
          PROVE  db'.joined[g][u] \in {0, now, db.joined[g][u]}
      <3> DEFINE all == [db.joined EXCEPT ![loop.gid] = [db.joined[loop.gid] EXCEPT ![loop.target] = t]]
      <3>1. Rows(WithJoined(db, loop.gid, loop.target, t), db.users, db.owner, all)
        BY <1>1, WithJoinedRows
      <3>2. all[g][u] = IF g = loop.gid /\ u = loop.target THEN t ELSE db.joined[g][u]
        BY <1>1, RowChanged
      <3> HIDE DEF all
      <3> QED
        BY <2>3, <3>1, <3>2 DEF Rows
    <2> QED
      BY <2>2, <2>3
  <1>6. CASE DeleteGroup
    <2>1. loop.gid \in Gids /\ db' = WithoutGroup(db, loop.gid)
      BY <1>1, <1>6 DEF DeleteGroup, FrameInv, Commits
    <2>2. Rows(WithoutGroup(db, loop.gid), db.users, [db.owner EXCEPT ![loop.gid] = NoUser],
               [db.joined EXCEPT ![loop.gid] = EmptyRow])
      BY <1>1, WithoutGroupRows
    <2>3. db'.joined[g] = IF g = loop.gid THEN EmptyRow ELSE db.joined[g]
      BY <1>1, <2>1, <2>2 DEF Rows
    <2> QED
      BY <2>3 DEF EmptyRow
  <1>7. ASSUME NEW t \in RegThreads, CreateUser(t)
        PROVE  db'.joined[g][u] = db.joined[g][u]
    <2>1. db' = db \/ db' = [db EXCEPT !.users = @ \cup {registering[t]}]
      BY <1>7 DEF CreateUser, Commits, Raises
    <2> QED
      BY <1>1, <2>1 DEF Tables
  <1> QED
    BY <1>2, <1>3, <1>4, <1>5, <1>6, <1>7 DEF Next, UpNext, HandlerSteps, Threads, Rowless

LEMMA StampedKeeps ==
    ASSUME IndInv, Stamped, [Next]_vars
    PROVE  Stamped'
  <1>1. /\ now' \in Nat /\ now \in Nat /\ now <= now'
        /\ disk' = disk \/ disk' = db'
    BY Writes
  <1>2. /\ db.joined \in [Gids -> [Users -> 0..MaxNow]] /\ disk.joined \in [Gids -> [Users -> 0..MaxNow]]
    BY DEF IndInv, TablesInv, Tables
  <1>3. ASSUME NEW g \in Gids, NEW u \in Users
        PROVE  db'.joined[g][u] <= now' /\ disk.joined[g][u] <= now'
    <2>1. db.joined[g][u] \in 0..MaxNow /\ disk.joined[g][u] \in 0..MaxNow
      BY <1>2
    <2>2. db.joined[g][u] <= now /\ disk.joined[g][u] <= now
      BY DEF Stamped, Stamps
    <2>3. db'.joined[g][u] \in {0, now, db.joined[g][u], disk.joined[g][u]}
      BY StampsOf
    <2> QED
      BY <1>1, <2>1, <2>2, <2>3, BoundsAssumption
  <1> QED
    BY <1>1, <1>3 DEF Stamped, Stamps

-----------------------------------------------------------------------------
(* Succession.                                                             *)

LEMMA EldestIs ==
    ASSUME NEW d \in Tables, NEW g \in Gids, NEW u, NEW v, Eldest(d, g, u), Eldest(d, g, v)
    PROVE  u = v
  <1>1. u \in Users /\ v \in Users /\ u \in Nat /\ v \in Nat
    BY UsersAssumption DEF Eldest, Members
  <1>2. d.joined[g][u] \in Nat /\ d.joined[g][v] \in Nat
    BY <1>1, BoundsAssumption DEF Tables
  <1>3. Before(d, g, u, v) /\ Before(d, g, v, u)
    BY DEF Eldest
  <1> QED
    BY <1>1, <1>2, <1>3 DEF Before

\* What a step that is not the handler's own may do to the group it is about
Fate(g) ==
    \/ db'.owner[g] = db.owner[g] /\ db'.joined[g] = db.joined[g]
    \/ db'.owner[g] = NoUser /\ Members(db, g)' = {}
    \/ /\ Members(db, g)' \subseteq Members(db, g)
       /\ \A v \in Members(db, g)' : db'.joined[g][v] = db.joined[g][v]
       /\ \/ /\ db'.owner[g] = db.owner[g]
             /\ db.owner[g] \in Members(db, g) => db.owner[g] \in Members(db, g)'
          \/ Eldest(db', g, db'.owner[g])

LEMMA FateKeeps ==
    ASSUME IndInv, TypeOK', OwnerKnown, SuccessorKnown, loop' = loop,
           loop.gid \in Gids => Fate(loop.gid)
    PROVE  OwnerKnown' /\ SuccessorKnown'
  <1> DEFINE g == loop.gid
  <1>1. CASE g \notin Gids
    BY <1>1 DEF OwnerKnown, SuccessorKnown, IndInv, FrameInv
  <1>2. CASE g \in Gids
    <2>1. /\ loop.owner \in Names /\ loop.succ \in Names /\ db \in Tables /\ NoUser \notin Users
          /\ db' \in Tables
      BY UsersAssumption DEF IndInv, TablesInv, FrameInv, Frames, NoUser, TypeOK
    <2>2. CASE db'.owner[g] = db.owner[g] /\ db'.joined[g] = db.joined[g]
      <3>1. Members(db, g)' = Members(db, g)
        BY <2>2 DEF Members
      <3>2. \A u : Eldest(db, g, u) => Eldest(db', g, u)
        BY <2>2, <3>1 DEF Eldest, Before, Members
      <3> QED
        BY <2>2, <3>1, <3>2 DEF OwnerKnown, SuccessorKnown
    <2>3. CASE db'.owner[g] = NoUser /\ Members(db, g)' = {}
      BY <2>3 DEF OwnerKnown, SuccessorKnown
    <2>4. CASE /\ Members(db, g)' \subseteq Members(db, g)
               /\ \A v \in Members(db, g)' : db'.joined[g][v] = db.joined[g][v]
               /\ \/ /\ db'.owner[g] = db.owner[g]
                     /\ db.owner[g] \in Members(db, g) => db.owner[g] \in Members(db, g)'
                  \/ Eldest(db', g, db'.owner[g])
      <3>1. ASSUME NEW u, Eldest(db, g, u), u \in Members(db, g)'
            PROVE  Eldest(db', g, u)
        <4>1. u \in Members(db', g) /\ Members(db', g) = Members(db, g)'
          BY <3>1 DEF Members
        <4>2. ASSUME NEW v \in Members(db', g)
              PROVE  Before(db', g, u, v)
          <5>1. Before(db, g, u, v) /\ db'.joined[g][v] = db.joined[g][v]
                /\ db'.joined[g][u] = db.joined[g][u]
            BY <2>4, <3>1, <4>1, <4>2 DEF Eldest
          <5> QED
            BY <5>1 DEF Before
        <4> QED
          BY <4>1, <4>2 DEF Eldest
      <3>2. OwnerKnown'
        <4> SUFFICES ASSUME loop.pc \in {"member", "remove", "succ"}, loop.op = "remove",
                            loop.target = loop.owner
                     PROVE  db'.owner[g] \in {loop.owner, NoUser} \/ Eldest(db', g, db'.owner[g])
          BY DEF OwnerKnown
        <4>1. db.owner[g] \in {loop.owner, NoUser} \/ Eldest(db, g, db.owner[g])
          BY DEF OwnerKnown
        <4>2. Eldest(db, g, db.owner[g]) => db.owner[g] \in Members(db, g)
          BY DEF Eldest
        <4> QED
          BY <2>4, <3>1, <4>1, <4>2
      <3>3. loop.pc = "succ" => loop.target = loop.owner /\ loop.owner \notin Members(db, g)'
        BY <2>4 DEF SuccessorKnown
      <3>4. ASSUME loop.pc = "hand", loop.succ \in Members(db, g)'
            PROVE  /\ Eldest(db', g, loop.succ)
                   /\ db'.owner[g] \notin Members(db, g)' \ {loop.succ}
        <4>1. Eldest(db, g, loop.succ) /\ db.owner[g] \notin Members(db, g) \ {loop.succ}
          BY <2>4, <3>4 DEF SuccessorKnown
        <4>2. Eldest(db', g, loop.succ)
          BY <3>1, <3>4, <4>1
        <4>3. Eldest(db', g, db'.owner[g]) => db'.owner[g] = loop.succ
          BY <1>2, <2>1, <4>2, EldestIs
        <4> QED
          BY <2>4, <4>1, <4>2, <4>3
      <3> QED
        BY <3>2, <3>3, <3>4 DEF SuccessorKnown, Members
    <2> QED
      BY <1>2, <2>2, <2>3, <2>4 DEF Fate
  <1> QED
    BY <1>1, <1>2

LEMMA ThreadFate ==
    ASSUME IndInv, Threads, NEW g \in Gids
    PROVE  Fate(g)
  <1>1. /\ db \in Tables /\ disk \in Tables /\ Sound(disk) /\ OnlyFailedCreatesUncommitted
        /\ db.joined \in [Gids -> [Users -> 0..MaxNow]]
    BY DEF IndInv, TablesInv, Tables
  <1>2. CASE RollsBack
    <2>1. db' = disk
      BY <1>2 DEF RollsBack
    <2>2. CASE g \in Live(disk)
      BY <1>1, <2>1, <2>2 DEF OnlyFailedCreatesUncommitted, Fate
    <2>3. CASE g \notin Live(disk)
      <3>1. db'.owner[g] = NoUser /\ \A v \in Users : db'.joined[g][v] = 0
        BY <1>1, <2>1, <2>3 DEF Live, Sound
      <3> QED
        BY <3>1 DEF Fate, Members
    <2> QED
      BY <2>2, <2>3
  <1>3. ASSUME NEW u \in Users, NEW owners \in [Gids -> Names], Inherits(db, u, owners),
               db' = WithoutUser(db, u, owners)
        PROVE  Fate(g)
    <2>1. db'.owner[g] = owners[g]
      BY <1>3 DEF WithoutUser
    <2>2. \A v \in Users : db'.joined[g][v] = IF v = u \/ owners[g] = NoUser THEN 0 ELSE db.joined[g][v]
      BY <1>3 DEF WithoutUser
    <2>3. CASE owners[g] = NoUser
      BY <2>1, <2>2, <2>3 DEF Fate, Members
    <2>4. CASE owners[g] # NoUser
      <3>1. Members(db, g)' = Members(db, g) \ {u}
        BY <2>2, <2>4 DEF Members
      <3>2. \A v \in Members(db, g)' : db'.joined[g][v] = db.joined[g][v]
        BY <2>2, <2>4 DEF Members
      <3>3. CASE db.owner[g] = u
        <4>1. IsSuccessor(db, g, Members(db, g) \ {u}, owners[g])
          BY <1>3, <3>3 DEF Inherits
        <4>2. /\ owners[g] \in Members(db, g) \ {u}
              /\ \A v \in Members(db, g) \ {u} : Before(db, g, owners[g], v)
          BY <2>4, <4>1 DEF IsSuccessor
        <4>3. Members(db', g) = Members(db, g) \ {u}
          BY <3>1 DEF Members
        <4>4. \A v \in Members(db', g) : Before(db', g, owners[g], v)
          BY <3>1, <3>2, <4>2, <4>3 DEF Before
        <4>5. Eldest(db', g, db'.owner[g])
          BY <2>1, <4>2, <4>3, <4>4 DEF Eldest
        <4> QED
          BY <3>1, <3>2, <4>5 DEF Fate
      <3>4. CASE db.owner[g] # u
        <4>1. db'.owner[g] = db.owner[g]
          BY <1>3, <2>1, <3>4 DEF Inherits
        <4> QED
          BY <3>1, <3>2, <3>4, <4>1 DEF Fate
      <3> QED
        BY <3>3, <3>4
    <2> QED
      BY <2>3, <2>4
  <1>4. ASSUME NEW t \in RegThreads, CreateUser(t)
        PROVE  Fate(g)
    <2>1. db' = db \/ db' = [db EXCEPT !.users = @ \cup {registering[t]}]
      BY <1>4 DEF CreateUser, Commits, Raises
    <2>2. db'.owner = db.owner /\ db'.joined = db.joined
      BY <1>1, <2>1 DEF Tables
    <2> QED
      BY <2>2 DEF Fate
  <1>5. CASE Rowless
    BY <1>5, RowlessKeeps DEF Fate
  <1>6. ASSUME NEW u \in Users, DeleteUser(u)
        PROVE  Fate(g)
    <2>1. \/ RollsBack
          \/ \E owners \in [Gids -> Names] : Inherits(db, u, owners) /\ db' = WithoutUser(db, u, owners)
      BY <1>6 DEF DeleteUser, Commits
    <2> QED
      BY <1>2, <1>3, <2>1
  <1> QED
    BY <1>4, <1>5, <1>6 DEF Threads, Rowless

LEMMA IdleKnows == ASSUME loop' = Idle PROVE OwnerKnown' /\ SuccessorKnown'
  BY DEF OwnerKnown, SuccessorKnown, Idle

LEMMA RequestKnows ==
    ASSUME IndInv, Requests
    PROVE  OwnerKnown' /\ SuccessorKnown'
  <1>1. ASSUME NEW op, NEW me, NEW g \in Gids, NEW target, OpenGroup(op, me, g, target)
        PROVE  OwnerKnown' /\ SuccessorKnown'
    <2>1. loop' = [pc |-> "member", op |-> op, me |-> me, gid |-> g,
                   target |-> target, owner |-> db.owner[g], todo |-> {},
                   roster |-> {}, succ |-> NoUser]
      BY <1>1 DEF OpenGroup, Idle
    <2>2. db' = db
      BY <1>1 DEF OpenGroup, NoDbWrite
    <2> QED
      BY <2>1, <2>2 DEF OwnerKnown, SuccessorKnown
  <1>2. ASSUME NEW me, NEW members, CreateGroup(me, members)
        PROVE  OwnerKnown' /\ SuccessorKnown'
    <2>1. loop' = [pc |-> "filter", op |-> "create", me |-> me, gid |-> 0,
                   target |-> NoUser, owner |-> NoUser, todo |-> members,
                   roster |-> {me}, succ |-> NoUser]
      BY <1>2 DEF CreateGroup, Idle
    <2> QED
      BY <2>1 DEF OwnerKnown, SuccessorKnown
  <1>3. ASSUME NEW me, NEW target, SendMessage(me, target)
        PROVE  OwnerKnown' /\ SuccessorKnown'
    <2>1. loop' = [pc |-> "exists", op |-> "dm", me |-> me, gid |-> 0,
                   target |-> target, owner |-> NoUser, todo |-> {},
                   roster |-> {}, succ |-> NoUser]
      BY <1>3 DEF SendMessage, Idle
    <2> QED
      BY <2>1 DEF OwnerKnown, SuccessorKnown
  <1>4. ASSUME NEW me, StoreFile(me) \/ DeleteAccount(me)
        PROVE  loop' = Idle
    BY <1>4 DEF StoreFile, DeleteAccount
  <1> QED
    BY <1>1, <1>2, <1>3, <1>4, IdleKnows DEF Requests, AddMember, RemoveMember, SendGroup

LEMMA HandlerKnows ==
    ASSUME IndInv, OwnerKnown, SuccessorKnown, HandlerSteps
    PROVE  OwnerKnown' /\ SuccessorKnown'
  <1>1. /\ db \in Tables /\ FrameInv /\ loop \in Frames /\ NoUser \notin Users
        /\ db.joined \in [Gids -> [Users -> 0..MaxNow]]
    BY UsersAssumption DEF IndInv, TablesInv, FrameInv, Tables, NoUser
  <1>2. CASE InsertGroup \/ AddGroupMember \/ StoreEnvelope \/ SetGroupOwner \/ DeleteGroup
    BY <1>2, IdleKnows DEF InsertGroup, AddGroupMember, StoreEnvelope, SetGroupOwner, DeleteGroup
  <1>3. CASE (\E u \in Users : FilterMember(u)) \/ UserExists
    <2>1. loop' = Idle \/ loop'.pc \in {"filter", "insert"}
      BY <1>1, <1>3 DEF FilterMember, UserExists, Frames
    <2> QED
      BY <2>1, IdleKnows DEF OwnerKnown, SuccessorKnown
  <1>4. CASE RequireMember
    <2>1. CASE loop' = [loop EXCEPT !.pc = FirstCall]
      <3>1. /\ loop.pc = "member" /\ db' = db
            /\ loop'.pc \in {"exists", "remove", "insert"} /\ loop'.op = loop.op
            /\ loop'.gid = loop.gid /\ loop'.target = loop.target /\ loop'.owner = loop.owner
        BY <1>1, <1>4, <2>1 DEF RequireMember, NoDbWrite, Frames, FirstCall
      <3> QED
        BY <3>1 DEF OwnerKnown, SuccessorKnown
    <2> QED
      BY <1>4, <2>1, IdleKnows DEF RequireMember
  <1>5. CASE RemoveGroupMember
    <2> DEFINE g == loop.gid
               all == [db.joined EXCEPT ![g] = [db.joined[g] EXCEPT ![loop.target] = 0]]
    <2>1. /\ loop.pc = "remove" /\ loop.op = "remove" /\ g \in Gids /\ loop.target \in Users
          /\ db' = WithJoined(db, g, loop.target, 0)
      BY <1>1, <1>5 DEF RemoveGroupMember, FrameInv, Commits
    <2>2. Rows(WithJoined(db, g, loop.target, 0), db.users, db.owner, all)
      BY <1>1, WithJoinedRows
    <2>3. \A v \in Users : all[g][v] = IF v = loop.target THEN 0 ELSE db.joined[g][v]
      BY <1>1, <2>1, RowChanged
    <2> HIDE DEF all
    <2>4. db'.owner = db.owner /\ \A v \in Users : db'.joined[g][v] = IF v = loop.target THEN 0 ELSE db.joined[g][v]
      BY <2>1, <2>2, <2>3 DEF Rows
    <2>5. CASE loop.target = loop.owner
      <3>1. /\ loop'.pc = "succ" /\ loop'.op = "remove" /\ loop'.gid = g
            /\ loop'.target = loop.target /\ loop'.owner = loop.owner
        BY <1>1, <1>5, <2>1, <2>5 DEF RemoveGroupMember, Frames
      <3>2. Members(db', g) = Members(db, g) \ {loop.target}
        BY <2>4 DEF Members
      <3>3. SuccessorKnown'
        BY <2>5, <3>1, <3>2 DEF SuccessorKnown, Members
      <3>4. db.owner[g] \in {loop.owner, NoUser} \/ Eldest(db, g, db.owner[g])
        BY <2>1, <2>5 DEF OwnerKnown
      <3>5. ASSUME Eldest(db, g, db.owner[g]), db.owner[g] # loop.owner
            PROVE  Eldest(db', g, db.owner[g])
        <4>1. db.owner[g] \in Members(db', g)
          BY <2>5, <3>2, <3>5 DEF Eldest
        <4>2. \A v \in Members(db', g) : Before(db, g, db.owner[g], v) /\ db'.joined[g][v] = db.joined[g][v]
          BY <2>4, <3>2, <3>5 DEF Eldest, Members
        <4> QED
          BY <4>1, <4>2 DEF Eldest, Before
      <3>6. OwnerKnown'
        BY <2>4, <3>1, <3>4, <3>5 DEF OwnerKnown
      <3> QED
        BY <3>3, <3>6
    <2> QED
      BY <1>5, <2>5, IdleKnows DEF RemoveGroupMember
  <1>6. CASE OldestGroupMember
    <2>1. PICK s \in Names :
             /\ IsSuccessor(db, loop.gid, Members(db, loop.gid), s)
             /\ loop' = [loop EXCEPT !.succ = s, !.pc = IF s = NoUser THEN "drop" ELSE "hand"]
      BY <1>6 DEF OldestGroupMember
    <2>2. /\ loop'.pc = (IF s = NoUser THEN "drop" ELSE "hand") /\ loop'.succ = s
          /\ loop'.gid = loop.gid /\ db' = db /\ loop.pc = "succ"
          /\ loop.op = "remove" /\ loop.gid \in Gids
      BY <1>1, <1>6, <2>1 DEF Frames, OldestGroupMember, NoDbWrite, FrameInv
    <2>3. OwnerKnown'
      BY <2>2 DEF OwnerKnown
    <2>4. ASSUME s \in Members(db, loop.gid)
          PROVE  /\ Eldest(db, loop.gid, s)
                 /\ db.owner[loop.gid] \notin Members(db, loop.gid) \ {s}
      <3>1. Eldest(db, loop.gid, s)
        BY <2>1, <2>4 DEF IsSuccessor, Eldest
      <3>2. /\ loop.owner \notin Members(db, loop.gid) /\ NoUser \notin Members(db, loop.gid)
            /\ db.owner[loop.gid] \in {loop.owner, NoUser} \/ Eldest(db, loop.gid, db.owner[loop.gid])
        BY <1>1, <2>2 DEF SuccessorKnown, OwnerKnown, Members
      <3>3. Eldest(db, loop.gid, db.owner[loop.gid]) => db.owner[loop.gid] = s
        BY <1>1, <2>2, <3>1, EldestIs
      <3> QED
        BY <3>1, <3>2, <3>3
    <2>5. SuccessorKnown'
      BY <2>2, <2>4 DEF SuccessorKnown
    <2> QED
      BY <2>3, <2>5
  <1> QED
    BY <1>2, <1>3, <1>4, <1>5, <1>6 DEF HandlerSteps

LEMMA ServiceInvKeeps == ASSUME ServiceInv, [Next]_vars PROVE ServiceInv'
  <1>1. IndInv /\ Stamped /\ OwnerKnown /\ SuccessorKnown
    BY DEF ServiceInv
  <1>2. IndInv' /\ Stamped'
    BY <1>1, NextKeeps, StampedKeeps
  <1>3. TypeOK'
    BY <1>2 DEF IndInv, TablesInv, FrameInv, PoolInv, TypeOK
  <1>4. CASE Threads
    <2>1. loop' = loop
      BY <1>4 DEF Threads, DeleteUser, RegisterCheck, CreateUser, OtherCommit
    <2> QED
      BY <1>1, <1>2, <1>3, <1>4, <2>1, ThreadFate, FateKeeps DEF ServiceInv
  <1>5. CASE Tick \/ UNCHANGED vars
    <2>1. loop' = loop /\ db' = db
      BY <1>5 DEF Tick, NoDbWrite, vars
    <2> QED
      BY <1>1, <1>2, <1>3, <2>1, FateKeeps DEF ServiceInv, Fate
  <1>6. CASE Crash
    BY <1>2, <1>6, IdleKnows DEF Crash, ServiceInv
  <1> QED
    BY <1>1, <1>2, <1>4, <1>5, <1>6, RequestKnows, HandlerKnows DEF ServiceInv, Next, UpNext

LEMMA ServiceInvariance == Spec => []ServiceInv
  <1>1. Init => ServiceInv
    <2> SUFFICES ASSUME Init PROVE ServiceInv
      OBVIOUS
    <2>1. Stamped
      BY BoundsAssumption DEF Init, Stamped, Stamps
    <2>2. OwnerKnown /\ SuccessorKnown
      BY DEF Init, OwnerKnown, SuccessorKnown, Idle
    <2> QED
      BY <2>1, <2>2, InitInv DEF ServiceInv
  <1>2. ServiceInv /\ [Next]_vars => ServiceInv'
    BY ServiceInvKeeps
  <1> QED
    BY <1>1, <1>2, PTL DEF Spec

-----------------------------------------------------------------------------
(* GroupService.                                                           *)

Served == Service!Next \/ UNCHANGED Service!tables

\* A commit makes durable all there is, and one that changes no row settles it.
LEMMA CommitsLast ==
    ASSUME NEW d, Commits(d)
    PROVE  db' = d /\ Service!Durable
  BY DEF Commits, Service!Durable, Service!There, Live

LEMMA InsertServed ==
    ASSUME NEW allowed, InsertRow(allowed)
    PROVE  Served
  <1>1. CASE Commits(db)
    <2>1. db' = db /\ Service!Durable
      BY <1>1, CommitsLast
    <2>2. Service!Settle
      BY <2>1 DEF Service!Settle
    <2> QED
      BY <2>2 DEF Served, Service!Next
  <1>2. CASE Raises(db)
    BY <1>2 DEF Raises, Served, Service!tables
  <1> QED
    BY <1>1, <1>2 DEF InsertRow

LEMMA RowlessServed ==
    ASSUME Rowless
    PROVE  Served
  <1>1. CASE \E me \in Users : StoreFile(me)
    BY <1>1, InsertServed DEF StoreFile
  <1>2. CASE StoreEnvelope
    BY <1>2, InsertServed DEF StoreEnvelope
  <1>3. CASE OtherCommit
    BY <1>3, InsertServed DEF OtherCommit, InsertRow
  <1>4. CASE NoDbWrite
    BY <1>4 DEF NoDbWrite, Served, Service!tables
  <1> QED
    BY <1>1, <1>2, <1>3, <1>4
    DEF Rowless, Requests, Tick, RequireMember, UserExists, OldestGroupMember, FilterMember,
        RegisterCheck, CreateGroup, SendGroup, AddMember, RemoveMember, OpenGroup, SendMessage,
        DeleteAccount

\* What is not on disk goes, and nothing else.
LEMMA RollbackServed ==
    ASSUME IndInv, RollsBack
    PROVE  Served
  <1>1. /\ disk \in Tables /\ Sound(disk) /\ OnlyFailedCreatesUncommitted
        /\ db' = disk /\ disk' = disk
    BY DEF RollsBack, IndInv, TablesInv
  <1>2. disk.owner \in [Gids -> Names] /\ disk.joined \in [Gids -> [Users -> 0..MaxNow]]
    BY <1>1 DEF Tables
  <1>3. ASSUME NEW g \in Gids
        PROVE  /\ disk.owner[g] = IF g \in Live(disk) THEN db.owner[g] ELSE NoUser
               /\ disk.joined[g] = IF g \in Live(disk) THEN db.joined[g] ELSE EmptyRow
    <2>1. CASE g \in Live(disk)
      BY <1>1, <2>1 DEF OnlyFailedCreatesUncommitted
    <2>2. CASE g \notin Live(disk)
      <3>1. disk.owner[g] = NoUser /\ \A u \in Users : disk.joined[g][u] = 0
        BY <1>1, <2>2 DEF Live, Sound
      <3>2. disk.joined[g] = EmptyRow
        BY <1>2, <3>1 DEF EmptyRow
      <3> QED
        BY <2>2, <3>1, <3>2
    <2> QED
      BY <2>1, <2>2
  <1>4. db'.owner = [g \in Gids |-> IF g \in Live(disk) THEN db.owner[g] ELSE NoUser]
    BY <1>1, <1>2, <1>3
  <1>5. db'.joined = [g \in Gids |-> IF g \in Live(disk) THEN db.joined[g] ELSE EmptyRow]
    BY <1>1, <1>2, <1>3
  <1>6. db'.users = db.users /\ Live(disk)' = Live(disk)
    BY <1>1 DEF OnlyFailedCreatesUncommitted, Live
  <1>7. Service!Forget
    BY <1>4, <1>5, <1>6 DEF Service!Forget, EmptyRow
  <1> QED
    BY <1>7 DEF Served, Service!Next

LEMMA CreateServed ==
    ASSUME IndInv, InsertGroup
    PROVE  Served
  <1> DEFINE g == db.next
             row(ms) == [u \in Users |-> IF u \in ms THEN now ELSE 0]
  <1>0. loop.pc = "filter"
    BY DEF InsertGroup
  <1>1. /\ db \in Tables /\ Sound(db) /\ now \in 1..MaxNow /\ g \in Gids /\ loop.me \in loop.roster
        /\ db.users \subseteq Users /\ g >= db.next
    <2>1. /\ db \in Tables /\ Sound(db) /\ now \in 1..MaxNow
          /\ db.next <= MaxGid /\ loop.me \in loop.roster
      BY <1>0 DEF IndInv, TablesInv, FrameInv
    <2>2. db.next \in 1..(MaxGid + 1) /\ db.users \subseteq Users
      BY <2>1 DEF Tables
    <2> QED
      BY <2>1, <2>2, BoundsAssumption DEF Gids
  <1>2. g \notin Service!There
    BY <1>1 DEF Sound, Service!There
  <1>3. ASSUME NEW ms, loop.me \in db.users, ms \subseteq db.users,
               db' = WithGroup(db, loop.me, ms),
               (loop.me \in ms /\ Service!Durable) \/ UNCHANGED Live(disk)
        PROVE  Served
    <2>1. Rows(WithGroup(db, loop.me, ms), db.users, [db.owner EXCEPT ![g] = loop.me],
               [db.joined EXCEPT ![g] = row(ms)])
      BY <1>1, WithGroupRows
    <2>2. /\ db'.users = db.users /\ db'.owner = [db.owner EXCEPT ![g] = loop.me]
          /\ db'.joined = [db.joined EXCEPT ![g] = row(ms)]
      BY <1>3, <2>1 DEF Rows
    <2>3. Service!Form(g, loop.me)
      BY <1>1, <1>2, <1>3, <2>2 DEF Service!Form
    <2> QED
      BY <1>1, <1>3, <2>3 DEF Served, Service!Next
  <1>4. CASE loop.roster \subseteq db.users /\ Commits(WithGroup(db, loop.me, loop.roster))
    <2>1. db' = WithGroup(db, loop.me, loop.roster) /\ Service!Durable
      BY <1>4, CommitsLast
    <2> QED
      BY <1>1, <1>3, <1>4, <2>1
  <1>5. ASSUME loop.me \in db.users, NEW inserted \in SUBSET (loop.roster \cap db.users),
               Raises(WithGroup(db, loop.me, inserted))
        PROVE  Served
    <2>1. db' = WithGroup(db, loop.me, inserted) /\ UNCHANGED Live(disk)
      BY <1>5 DEF Raises, Live
    <2> QED
      BY <1>3, <1>5, <2>1
  <1>6. CASE Raises(db)
    BY <1>6 DEF Raises, Served, Service!tables
  <1> QED
    BY <1>4, <1>5, <1>6 DEF InsertGroup

LEMMA JoinServed ==
    ASSUME IndInv, Stamped, AddGroupMember
    PROVE  Served
  <1> DEFINE g == loop.gid
             u == loop.target
  <1>1. /\ db \in Tables /\ now \in 1..MaxNow /\ g \in Gids /\ u \in Users
    BY DEF AddGroupMember, IndInv, TablesInv, FrameInv
  <1>2. CASE Commits(db) \/ Raises(db)
    BY <1>2, InsertServed DEF InsertRow
  <1>3. CASE /\ g \in Live(db) /\ u \in db.users /\ u \notin Members(db, g)
             /\ Commits(WithJoined(db, g, u, now))
    <2>1. Rows(WithJoined(db, g, u, now), db.users, db.owner,
               [db.joined EXCEPT ![g] = [db.joined[g] EXCEPT ![u] = now]])
      BY <1>1, WithJoinedRows
    <2>2. db' = WithJoined(db, g, u, now) /\ Service!Durable
      BY <1>3, CommitsLast
    <2>3. /\ db'.users = db.users /\ db'.owner = db.owner
          /\ db'.joined = [db.joined EXCEPT ![g] = [db.joined[g] EXCEPT ![u] = now]]
      BY <2>1, <2>2 DEF Rows
    <2>4. \A v \in Users : db.joined[g][v] <= now
      BY <1>1 DEF Stamped, Stamps
    <2>5. g \in Service!There /\ u \in db.users \ Service!Members(g)
      BY <1>1, <1>3 DEF Service!There, Service!Members, Live, Members
    <2>6. Service!Join(g, u)
      BY <1>1, <2>2, <2>3, <2>4, <2>5 DEF Service!Join
    <2> QED
      BY <1>1, <2>6 DEF Served, Service!Next
  <1> QED
    BY <1>2, <1>3 DEF AddGroupMember

LEMMA PartServed ==
    ASSUME IndInv, RemoveGroupMember
    PROVE  Served
  <1> DEFINE g == loop.gid
             u == loop.target
  <1>1. /\ db \in Tables /\ g \in Gids /\ u \in Users
        /\ Commits(WithJoined(db, g, u, 0))
    BY DEF RemoveGroupMember, IndInv, TablesInv, FrameInv
  <1>2. Rows(WithJoined(db, g, u, 0), db.users, db.owner,
             [db.joined EXCEPT ![g] = [db.joined[g] EXCEPT ![u] = 0]])
    BY <1>1, WithJoinedRows
  <1>3. db' = WithJoined(db, g, u, 0) /\ Service!Durable
    BY <1>1, CommitsLast
  <1>4. Service!Part(g, u)
    BY <1>2, <1>3 DEF Rows, Service!Part
  <1> QED
    BY <1>1, <1>4 DEF Served, Service!Next

LEMMA HandOverServed ==
    ASSUME IndInv, SuccessorKnown, SetGroupOwner
    PROVE  Served
  <1> DEFINE g == loop.gid
             o == loop.succ
  <1>1. db \in Tables /\ g \in Gids /\ o \in Users /\ loop.pc = "hand"
    BY DEF SetGroupOwner, IndInv, TablesInv, FrameInv
  <1>2. CASE Commits(db) \/ Raises(db)
    BY <1>2, InsertServed DEF InsertRow
  <1>3. CASE g \in Live(db) /\ o \in db.users /\ Commits(WithOwner(db, g, o))
    <2>1. Rows(WithOwner(db, g, o), db.users, [db.owner EXCEPT ![g] = o], db.joined)
      BY <1>1, WithOwnerRows
    <2>2. db' = WithOwner(db, g, o) /\ Service!Durable
      BY <1>3, CommitsLast
    <2>3. g \in Service!There /\ Service!Members(g) = Members(db, g)
      BY <1>3 DEF Service!There, Service!Members, Live, Members
    <2>4. o \in Members(db, g) =>
             Service!IsEldest(g, Members(db, g), o) /\ db.owner[g] \notin Members(db, g) \ {o}
      BY <1>1 DEF SuccessorKnown, Eldest, Before, Service!IsEldest
    <2>5. Service!HandOver(g, o)
      BY <1>3, <2>1, <2>2, <2>3, <2>4 DEF Rows, Service!HandOver
    <2> QED
      BY <1>1, <2>5 DEF Served, Service!Next
  <1> QED
    BY <1>2, <1>3 DEF SetGroupOwner

LEMMA DissolveServed ==
    ASSUME IndInv, DeleteGroup
    PROVE  Served
  <1> DEFINE g == loop.gid
  <1>1. /\ db \in Tables /\ g \in Gids /\ Members(db, g) = {} /\ Commits(WithoutGroup(db, g))
    BY DEF DeleteGroup, IndInv, TablesInv, FrameInv
  <1>2. Rows(WithoutGroup(db, g), db.users, [db.owner EXCEPT ![g] = NoUser],
             [db.joined EXCEPT ![g] = EmptyRow])
    BY <1>1, WithoutGroupRows
  <1>3. db.joined \in [Gids -> [Users -> 0..MaxNow]]
    BY <1>1 DEF Tables
  <1>4. db.joined[g] = EmptyRow
    BY <1>1, <1>3 DEF Members, EmptyRow
  <1>5. [db.joined EXCEPT ![g] = EmptyRow] = db.joined
    BY <1>3, <1>4
  <1>6. db' = WithoutGroup(db, g) /\ Service!Durable
    BY <1>1, CommitsLast
  <1>7. Service!Members(g) = {}
    BY <1>1 DEF Service!Members, Members
  <1>8. Service!Dissolve(g)
    BY <1>2, <1>5, <1>6, <1>7 DEF Rows, Service!Dissolve
  <1> QED
    BY <1>1, <1>8 DEF Served, Service!Next

LEMMA CloseServed ==
    ASSUME IndInv, NEW u \in Users, DeleteUser(u)
    PROVE  Served
  <1>1. CASE RollsBack
    BY <1>1, RollbackServed
  <1>2. ASSUME NEW owners \in [Gids -> Names], Inherits(db, u, owners),
               Commits(WithoutUser(db, u, owners))
        PROVE  Served
    <2>1. db' = WithoutUser(db, u, owners) /\ Service!Durable
      BY <1>2, CommitsLast
    <2>2. db'.users = db.users \ {u}
      BY <2>1 DEF WithoutUser
    <2>3. ASSUME NEW g \in Gids
          PROVE  /\ IF db.owner[g] # u THEN db'.owner[g] = db.owner[g]
                    ELSE IF Members(db, g) \subseteq {u} THEN db'.owner[g] = NoUser
                    ELSE Service!IsEldest(g, Members(db, g) \ {u}, db'.owner[g])
                 /\ \A v \in Users : db'.joined[g][v] = IF v = u THEN 0 ELSE db.joined[g][v]
      <3>1. db'.owner[g] = owners[g]
        BY <2>1 DEF WithoutUser
      <3>2. \A v \in Users : db'.joined[g][v] = IF v = u \/ owners[g] = NoUser THEN 0 ELSE db.joined[g][v]
        BY <2>1 DEF WithoutUser
      <3>3. /\ Sound(db) /\ NoUser \notin Users /\ db \in Tables
        BY UsersAssumption DEF IndInv, TablesInv, NoUser
      <3>4. CASE db.owner[g] # u
        <4>1. owners[g] = db.owner[g]
          BY <1>2, <3>4 DEF Inherits
        <4>2. owners[g] = NoUser => \A v \in Users : db.joined[g][v] = 0
          BY <3>3, <4>1 DEF Sound
        <4> QED
          BY <3>1, <3>2, <3>4, <4>1, <4>2
      <3>5. CASE db.owner[g] = u
        <4>1. IsSuccessor(db, g, Members(db, g) \ {u}, owners[g])
          BY <1>2, <3>5 DEF Inherits
        <4>2. CASE Members(db, g) \subseteq {u}
          <5>1. Members(db, g) \ {u} = {} /\ \A v \in Users \ {u} : db.joined[g][v] = 0
            BY <4>2 DEF Members
          <5>2. owners[g] = NoUser
            BY <4>1, <5>1 DEF IsSuccessor
          <5> QED
            BY <3>1, <3>2, <3>5, <4>2, <5>1, <5>2
        <4>3. CASE ~(Members(db, g) \subseteq {u})
          <5>1. /\ owners[g] \in Members(db, g) \ {u}
                /\ \A v \in Members(db, g) \ {u} : Before(db, g, owners[g], v)
            BY <4>1, <4>3 DEF IsSuccessor
          <5>2. owners[g] # NoUser
            BY <3>3, <5>1 DEF Members
          <5>3. Service!IsEldest(g, Members(db, g) \ {u}, owners[g])
            BY <5>1 DEF Service!IsEldest, Before
          <5> QED
            BY <3>1, <3>2, <3>5, <4>3, <5>2, <5>3
        <4> QED
          BY <4>2, <4>3
      <3> QED
        BY <3>4, <3>5
    <2>4. \A g : Service!Members(g) = Members(db, g)
      BY DEF Service!Members, Members
    <2>5. db'.owner \in [Gids -> Users \cup {NoUser}]
      <3>1. owners \in [Gids -> Users \cup {NoUser}]
        BY <1>2 DEF Names
      <3>2. db'.owner = owners
        BY <2>1 DEF WithoutUser
      <3> QED
        BY <3>1, <3>2
    <2>6. db'.joined = [g \in Gids |-> [db.joined[g] EXCEPT ![u] = 0]]
      <3>1. db.joined \in [Gids -> [Users -> 0..MaxNow]]
        BY DEF IndInv, TablesInv, Tables
      <3>2. db'.joined = [g \in Gids |-> [v \in Users |-> IF v = u \/ owners[g] = NoUser THEN 0 ELSE db.joined[g][v]]]
        BY <2>1 DEF WithoutUser
      <3>3. \A g \in Gids : [v \in Users |-> IF v = u \/ owners[g] = NoUser THEN 0 ELSE db.joined[g][v]]
                            = [db.joined[g] EXCEPT ![u] = 0]
        <4> SUFFICES ASSUME NEW g \in Gids
                     PROVE  [v \in Users |-> IF v = u \/ owners[g] = NoUser THEN 0 ELSE db.joined[g][v]]
                            = [db.joined[g] EXCEPT ![u] = 0]
          OBVIOUS
        <4>1. db'.joined[g] = [v \in Users |-> IF v = u \/ owners[g] = NoUser THEN 0 ELSE db.joined[g][v]]
          BY <3>2
        <4>2. \A v \in Users : db'.joined[g][v] = IF v = u THEN 0 ELSE db.joined[g][v]
          BY <2>3
        <4>3. \A v \in Users : (IF v = u \/ owners[g] = NoUser THEN 0 ELSE db.joined[g][v])
                               = IF v = u THEN 0 ELSE db.joined[g][v]
          BY <4>1, <4>2
        <4>4. db.joined[g] \in [Users -> 0..MaxNow]
          BY <3>1
        <4> QED
          BY <4>3, <4>4
      <3> QED
        BY <3>2, <3>3
    <2>7. Service!Close(u)
      BY <2>1, <2>2, <2>3, <2>4, <2>5, <2>6 DEF Service!Close
    <2> QED
      BY <2>7 DEF Served, Service!Next
  <1> QED
    BY <1>1, <1>2 DEF DeleteUser

LEMMA RegisterServed ==
    ASSUME IndInv, NEW t \in RegThreads, CreateUser(t)
    PROVE  Served
  <1> DEFINE n == registering[t]
             w == [db EXCEPT !.users = @ \cup {n}]
  <1>1. db \in Tables /\ n \in Users
    BY DEF CreateUser, IndInv, TablesInv, PoolInv, Names
  <1>2. CASE Raises(db)
    BY <1>2, InsertServed DEF InsertRow
  <1>3. CASE n \notin db.users /\ Commits(w)
    <2>1. db' = w /\ Service!Durable
      BY <1>3, CommitsLast
    <2>2. w.users = db.users \cup {n} /\ w.owner = db.owner /\ w.joined = db.joined
      BY <1>1 DEF Tables
    <2>3. Service!Register(n)
      BY <1>3, <2>1, <2>2 DEF Service!Register
    <2> QED
      BY <1>1, <2>3 DEF Served, Service!Next
  <1> QED
    BY <1>2, <1>3 DEF CreateUser

LEMMA StepServed == ASSUME ServiceInv, [Next]_vars PROVE [Service!Next]_(Service!tables)
  <1>1. IndInv /\ Stamped /\ SuccessorKnown
    BY DEF ServiceInv
  <1>2. CASE Crash
    BY <1>1, <1>2, RollbackServed DEF Crash, Served
  <1>3. CASE UNCHANGED vars
    BY <1>3 DEF vars, Service!tables
  <1>4. Rowless => Served
    BY RowlessServed
  <1> QED
    BY <1>1, <1>2, <1>3, <1>4, CreateServed, JoinServed, PartServed, HandOverServed, DissolveServed,
       CloseServed, RegisterServed
    DEF Served, Next, UpNext, HandlerSteps, Threads, Rowless

LEMMA InitServed == Init => Service!Init
  <1> SUFFICES ASSUME Init PROVE Service!Init
    OBVIOUS
  <1>1. db = [users  |-> Users,
              owner  |-> [g \in Gids |-> NoUser],
              joined |-> [g \in Gids |-> [u \in Users |-> 0]],
              next   |-> 1]
    BY DEF Init
  <1>2. disk = db
    BY DEF Init
  <1> QED
    BY <1>1, <1>2 DEF Service!Init, Live

(* The relay implements GroupService: with any threads, failed statements,   *)
(* rollbacks and restarts in between, each database call of its handlers is  *)
(* on the tables one whole, durable operation (database.py); a hand-over     *)
(* never takes a group from an owner who is in it, and goes to the eldest    *)
(* member, unless that one has left; a newcomer gets in behind the others.   *)
THEOREM Implements == Spec => ImplementsService
  BY InitServed, StepServed, ServiceInvariance, PTL DEF Spec, ImplementsService, Service!Spec
=============================================================================
