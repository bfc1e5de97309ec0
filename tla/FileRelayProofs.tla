--------------------------- MODULE FileRelayProofs --------------------------
(***************************************************************************)
(* Proofs about FileRelay, for all sets of names and file ids and any       *)
(* number of messages.  That a message names only a blob of its sender is   *)
(* inductive with the like fact about the handler that is about to store    *)
(* one: a file id keeps its owner until its row goes, and never returns.    *)
(***************************************************************************)
EXTENDS FileRelay, TLAPS

\* What the handler at a database call knows.
FrameKnown == loop.pc # "idle" =>
    /\ loop.me \in Users /\ loop.file \in Files \ fresh /\ loop.to \in Users \cup {Group}
    /\ next <= MaxEnv
    /\ loop.pc = "store" /\ loop.file \in Blobs => owner[loop.file] = loop.me

EnvsUsed == \A e \in envs : e.file \notin fresh

IndInv == TypeOK /\ FrameKnown /\ EnvsUsed /\ SenderOwnsBlob

\* A step that adds no message, gives no used file id an owner, and leaves the
\* handler as it is or idle.
Takes == /\ envs' \subseteq envs /\ fresh' = fresh /\ next' = next
         /\ \A f \in Files : owner'[f] \in {owner[f], NoUser}
         /\ loop' \in {loop, Idle}

LEMMA InitInd == Init => IndInv
  BY FileAssumption
  DEF Init, IndInv, TypeOK, FrameKnown, EnvsUsed, SenderOwnsBlob, Blobs, Frames, Idle

LEMMA IdleIsFrame == Idle \in Frames /\ Idle.pc = "idle"
  BY DEF Idle, Frames

LEMMA TakesInd ==
    ASSUME IndInv, Takes, TypeOK'
    PROVE  IndInv'
  <1>1. \A f \in Files : owner'[f] # NoUser => owner'[f] = owner[f] /\ owner[f] # NoUser
    BY DEF Takes
  <1>2. \A e \in envs : e.file \in Files
    BY DEF IndInv, TypeOK, Envs
  <1>3. SenderOwnsBlob' /\ EnvsUsed'
    BY <1>1, <1>2 DEF IndInv, SenderOwnsBlob, EnvsUsed, Blobs, Takes
  <1>4. FrameKnown'
    BY <1>1, IdleIsFrame DEF IndInv, FrameKnown, Blobs, Takes
  <1> QED
    BY <1>3, <1>4 DEF IndInv

-----------------------------------------------------------------------------
(* Handlers.                                                               *)

LEMMA UploadInd ==
    ASSUME IndInv, NEW me \in Users, NEW f \in Files, Upload(me, f)
    PROVE  IndInv'
  <1>1. /\ loop = Idle /\ f \in fresh /\ fresh' = fresh \ {f}
        /\ owner' = IF me \in users THEN [owner EXCEPT ![f] = me] ELSE owner
        /\ UNCHANGED <<users, members, deleting, old, envs, next, due, loop, sweep>>
    BY DEF Upload, accountVars, envVars
  <1>2. owner \in [Files -> users \cup {NoUser}]
    BY DEF IndInv, TypeOK
  <1>3. owner' \in [Files -> users \cup {NoUser}]
    BY <1>1, <1>2
  <1>4. \A g \in Files \ {f} : owner'[g] = owner[g]
    BY <1>1, <1>2
  <1>5. TypeOK'
    BY <1>1, <1>3, <1>4 DEF IndInv, TypeOK, Blobs
  <1>6. FrameKnown'
    BY <1>1, IdleIsFrame DEF FrameKnown
  <1>7. \A e \in envs : e.file \in Files \ {f}
    BY <1>1 DEF IndInv, TypeOK, EnvsUsed, Envs
  <1>8. EnvsUsed' /\ SenderOwnsBlob'
    BY <1>1, <1>4, <1>7 DEF IndInv, EnvsUsed, SenderOwnsBlob, Blobs
  <1> QED
    BY <1>5, <1>6, <1>8 DEF IndInv

LEMMA SendFileInd ==
    ASSUME IndInv, NEW me \in Users, NEW f \in Files, NEW to \in Users \cup {Group},
           NEW ttl \in BOOLEAN, SendFile(me, f, to, ttl)
    PROVE  IndInv'
  <1> DEFINE pc == IF to = Group THEN "member" ELSE "recipient"
  <1>1. /\ f \notin fresh /\ next <= MaxEnv
        /\ loop' = [pc |-> pc, me |-> me, file |-> f, to |-> to, ttl |-> ttl]
        /\ UNCHANGED <<users, members, deleting, owner, fresh, old, envs, next, due, sweep>>
    BY DEF SendFile, accountVars, fileVars, envVars
  <1>2. pc \in {"member", "recipient"}
    OBVIOUS
  <1> HIDE DEF pc
  <1>3. loop' \in Frames
    BY <1>1, <1>2 DEF Frames
  <1>4. TypeOK'
    BY <1>1, <1>3 DEF IndInv, TypeOK, Blobs
  <1>5. FrameKnown'
    BY <1>1, <1>2 DEF FrameKnown
  <1> QED
    BY <1>1, <1>4, <1>5 DEF IndInv, EnvsUsed, SenderOwnsBlob, Blobs

LEMMA CheckInd ==
    ASSUME IndInv, UserExists \/ GroupMember \/ FileOwnedBy
    PROVE  IndInv'
  <1>1. UNCHANGED <<users, members, deleting, owner, fresh, old, envs, next, due, sweep>>
    BY DEF UserExists, GroupMember, FileOwnedBy, Check, accountVars, fileVars, envVars
  <1>2. loop \in Frames
    BY DEF IndInv, TypeOK
  <1>3. loop.pc # "idle"
    BY DEF UserExists, GroupMember, FileOwnedBy, Check
  <1>4. \/ loop' = Idle
        \/ loop' = [loop EXCEPT !.pc = "owns"]
        \/ loop' = [loop EXCEPT !.pc = "store"] /\ (loop.file \in Blobs => owner[loop.file] = loop.me)
    BY DEF UserExists, GroupMember, FileOwnedBy, Check
  <1>5. loop' \in Frames
    BY <1>2, <1>4, IdleIsFrame DEF Frames
  <1>6. TypeOK'
    BY <1>1, <1>5 DEF IndInv, TypeOK, Blobs
  <1>7. FrameKnown'
    <2>1. CASE loop' = Idle
      BY <2>1, IdleIsFrame DEF FrameKnown
    <2>2. CASE loop' # Idle
      <3>1. loop'.me = loop.me /\ loop'.file = loop.file /\ loop'.to = loop.to
        BY <1>2, <1>4, <2>2 DEF Frames
      <3>2. loop'.pc = "store" => (loop.file \in Blobs => owner[loop.file] = loop.me)
        BY <1>2, <1>4, <2>2 DEF Frames
      <3> QED
        BY <1>1, <1>3, <3>1, <3>2 DEF IndInv, FrameKnown, Blobs
    <2> QED
      BY <2>1, <2>2
  <1> QED
    BY <1>1, <1>6, <1>7 DEF IndInv, EnvsUsed, SenderOwnsBlob, Blobs

LEMMA StoreEnvelopeInd ==
    ASSUME IndInv, StoreEnvelope
    PROVE  IndInv'
  <1> DEFINE e == [id |-> next, file |-> loop.file, from |-> loop.me, to |-> loop.to,
                   ttl |-> loop.ttl]
  <1>1. /\ loop.pc = "store" /\ loop' = Idle
        /\ UNCHANGED <<users, members, deleting, owner, fresh, old, due, sweep>>
    BY DEF StoreEnvelope, accountVars, fileVars
  <1>2. CASE UNCHANGED <<envs, next>>
    <2>1. Takes
      BY <1>1, <1>2 DEF Takes
    <2>2. TypeOK'
      BY <1>1, <1>2, IdleIsFrame DEF IndInv, TypeOK, Blobs
    <2> QED
      BY <2>1, <2>2, TakesInd
  <1>3. CASE ~UNCHANGED <<envs, next>>
    <2>1. envs' = envs \cup {e} /\ next' = next + 1
      BY <1>3 DEF StoreEnvelope
    <2>2. /\ loop.me \in Users /\ loop.file \in Files \ fresh /\ loop.to \in Users \cup {Group}
          /\ loop.ttl \in BOOLEAN /\ (loop.file \in Blobs => owner[loop.file] = loop.me)
      BY <1>1 DEF IndInv, FrameKnown, TypeOK, Frames
    <2>3. /\ next \in 1..MaxEnv /\ MaxEnv \in Nat
      BY <1>1, FileAssumption DEF IndInv, TypeOK, FrameKnown
    <2>4. e \in Envs /\ e.id = next /\ e.file = loop.file /\ e.from = loop.me
      BY <2>2, <2>3 DEF Envs, EnvIds
    <2> HIDE DEF e
    <2>5. \A d \in envs : d.id \in Nat /\ d.id < next
      BY DEF IndInv, TypeOK, Envs, EnvIds
    <2>6. \A d \in envs' : d.id < next' /\ \A c \in envs' : c.id = d.id => c = d
      BY <2>1, <2>3, <2>4, <2>5 DEF IndInv, TypeOK
    <2>7. next' \in 1..(MaxEnv + 1) /\ due' \subseteq 1..(next' - 1)
      BY <1>1, <2>1, <2>3 DEF IndInv, TypeOK
    <2>8. TypeOK'
      BY <1>1, <2>1, <2>4, <2>6, <2>7, IdleIsFrame DEF IndInv, TypeOK, Blobs
    <2>9. EnvsUsed' /\ SenderOwnsBlob'
      BY <1>1, <2>1, <2>2, <2>4 DEF IndInv, EnvsUsed, SenderOwnsBlob, Blobs
    <2>10. FrameKnown'
      BY <1>1, IdleIsFrame DEF FrameKnown
    <2> QED
      BY <2>8, <2>9, <2>10 DEF IndInv
  <1> QED
    BY <1>2, <1>3

LEMMA MembershipInd ==
    ASSUME IndInv, NEW u \in Users, Leave(u) \/ Join(u) \/ DeleteAccount(u)
    PROVE  IndInv'
  <1>1. /\ envs' \subseteq envs /\ loop' = loop
        /\ members' \subseteq users /\ deleting' \subseteq Users
        /\ UNCHANGED <<users, owner, fresh, old, next, due, sweep>>
    BY DEF Leave, Join, DeleteAccount, fileVars, envVars, IndInv, TypeOK
  <1>2. TypeOK'
    BY <1>1 DEF IndInv, TypeOK, Blobs
  <1>3. Takes
    BY <1>1 DEF Takes
  <1> QED
    BY <1>2, <1>3, TakesInd

-----------------------------------------------------------------------------
(* Pool threads, time and restarts.                                        *)

\* Rows of table files that are deleted.
LEMMA WithoutTakes ==
    ASSUME TypeOK, NEW gone
    PROVE  /\ Without(gone) \in [Files -> users \cup {NoUser}]
           /\ \A f \in Files : Without(gone)[f] = IF f \in gone THEN NoUser ELSE owner[f]
  BY DEF TypeOK, Without

LEMMA DeleteUserInd ==
    ASSUME IndInv, NEW u \in Users, DeleteUser(u)
    PROVE  IndInv'
  <1> DEFINE gone == {f \in Files : owner[f] = u}
  <1>1. /\ deleting' = deleting \ {u} /\ users' = users \ {u} /\ members' = members \ {u}
        /\ owner' = Without(gone) /\ envs' \subseteq envs
        /\ UNCHANGED <<fresh, old, next, due, loop, sweep>>
    BY DEF DeleteUser
  <1>2. /\ owner' \in [Files -> users \cup {NoUser}]
        /\ \A f \in Files : owner'[f] = IF f \in gone THEN NoUser ELSE owner[f]
    BY <1>1, WithoutTakes DEF IndInv
  <1>3. \A f \in Files : owner'[f] # u
    BY <1>2, FileAssumption
  <1>4. owner' \in [Files -> users' \cup {NoUser}]
    BY <1>1, <1>2, <1>3
  <1>5. TypeOK'
    BY <1>1, <1>2, <1>4 DEF IndInv, TypeOK, Blobs
  <1>6. Takes
    BY <1>1, <1>2 DEF Takes
  <1> QED
    BY <1>5, <1>6, TakesInd

LEMMA RegisterInd ==
    ASSUME IndInv, NEW u \in Users, Register(u)
    PROVE  IndInv'
  <1>1. /\ users' = users \cup {u}
        /\ UNCHANGED <<members, deleting, owner, fresh, old, envs, next, due, loop, sweep>>
    BY DEF Register, fileVars, envVars
  <1>2. owner' \in [Files -> users' \cup {NoUser}]
    BY <1>1 DEF IndInv, TypeOK
  <1>3. TypeOK'
    BY <1>1, <1>2 DEF IndInv, TypeOK, Blobs
  <1>4. Takes
    BY <1>1 DEF Takes
  <1> QED
    BY <1>3, <1>4, TakesInd

LEMMA SweepInd ==
    ASSUME IndInv, DeleteExpired \/ DeleteOrphanFiles
    PROVE  IndInv'
  <1>1. /\ envs' \subseteq envs /\ sweep' \in {"expired", "orphans"}
        /\ \E gone : owner' = Without(gone)
        /\ UNCHANGED <<users, members, deleting, fresh, old, next, due, loop>>
    BY DEF DeleteExpired, DeleteOrphanFiles, accountVars, envVars
  <1>2. PICK gone : owner' = Without(gone)
    BY <1>1
  <1>3. /\ owner' \in [Files -> users \cup {NoUser}]
        /\ \A f \in Files : owner'[f] \in {owner[f], NoUser}
    BY <1>2, WithoutTakes DEF IndInv
  <1>4. TypeOK'
    BY <1>1, <1>3 DEF IndInv, TypeOK, Blobs
  <1>5. Takes
    BY <1>1, <1>3 DEF Takes
  <1> QED
    BY <1>4, <1>5, TakesInd

LEMMA TimeInd ==
    ASSUME IndInv, Time \/ Restart
    PROVE  IndInv'
  <1>1. CASE Restart
    <2>1. TypeOK' /\ Takes
      BY <1>1, IdleIsFrame
      DEF Restart, fileVars, envVars, IndInv, TypeOK, Takes, Blobs
    <2> QED
      BY <2>1, TakesInd
  <1>2. CASE Time
    <2>1. /\ old' \subseteq old \cup Blobs
          /\ due' \subseteq due \cup {e.id : e \in envs}
          /\ UNCHANGED <<users, members, deleting, owner, fresh, envs, next, loop, sweep>>
      BY <1>2 DEF Time, ComesDue, GrowsOld, accountVars, fileVars, envVars
    <2>2. \A e \in envs : e.id \in 1..(next - 1)
      BY DEF IndInv, TypeOK, Envs, EnvIds
    <2>3. due' \subseteq 1..(next' - 1)
      <3>1. due \subseteq 1..(next - 1) /\ next' = next
        BY <2>1 DEF IndInv, TypeOK
      <3>2. \A d \in due' : d \in due \/ \E e \in envs : d = e.id
        BY <2>1
      <3> QED
        BY <2>2, <3>1, <3>2
    <2>4. TypeOK'
      BY <2>1, <2>3 DEF IndInv, TypeOK, Blobs
    <2>5. Takes
      BY <2>1 DEF Takes
    <2> QED
      BY <2>4, <2>5, TakesInd
  <1> QED
    BY <1>1, <1>2

-----------------------------------------------------------------------------
LEMMA NextInd ==
    ASSUME IndInv, [Next]_vars
    PROVE  IndInv'
  <1>1. CASE Requests
    BY <1>1, UploadInd, SendFileInd, MembershipInd DEF Requests
  <1>2. CASE HandlerSteps
    BY <1>2, CheckInd, StoreEnvelopeInd DEF HandlerSteps
  <1>3. CASE Threads
    BY <1>3, DeleteUserInd, RegisterInd, SweepInd DEF Threads
  <1>4. CASE Time \/ Restart
    BY <1>4, TimeInd
  <1>5. CASE UNCHANGED vars
    BY <1>5 DEF vars, IndInv, TypeOK, FrameKnown, EnvsUsed, SenderOwnsBlob, Blobs
  <1> QED
    BY <1>1, <1>2, <1>3, <1>4, <1>5 DEF Next, UpNext

(* The inductive invariant of the blobs and the messages that name them.   *)
THEOREM Invariance == Spec => []IndInv
  <1> QED
    BY InitInd, NextInd, PTL DEF Spec

(* Every variable of the blob store stays in its domain; file ids and       *)
(* message ids are used once, and blobs belong to accounts that exist.      *)
THEOREM TypeCorrect == Spec => []TypeOK
  <1>1. IndInv => TypeOK
    BY DEF IndInv
  <1> QED
    BY <1>1, Invariance, PTL

(* A stored message names only a blob of its sender, or one that is gone,   *)
(* through any deletions and registrations of names.                        *)
THEOREM MessagesNameOwnBlobs == Spec => []SenderOwnsBlob
  <1>1. IndInv => SenderOwnsBlob
    BY DEF IndInv
  <1> QED
    BY <1>1, Invariance, PTL

-----------------------------------------------------------------------------
(* A message that stays keeps its blob.                                    *)

Keeps == \A e \in envs \cap envs' : e.file \in Blobs => e.file \in Blobs'

LEMMA WithoutNamedKeeps ==
    ASSUME NEW gone, owner' = Without(gone), gone \cap Named(envs') = {}
    PROVE  Keeps
  BY DEF Keeps, Without, Blobs, Named

LEMMA NextKeeps ==
    ASSUME IndInv, [Next]_vars
    PROVE  Keeps
  <1>1. \A e \in envs : e.file \in Files \ fresh
    BY DEF IndInv, TypeOK, EnvsUsed, Envs
  <1>2. ASSUME UNCHANGED owner PROVE Keeps
    BY <1>2 DEF Keeps, Blobs
  <1>3. ASSUME NEW me \in Users, NEW f \in Files, Upload(me, f) PROVE Keeps
    <2>1. f \in fresh /\ owner' = IF me \in users THEN [owner EXCEPT ![f] = me] ELSE owner
      BY <1>3 DEF Upload
    <2>2. owner \in [Files -> users \cup {NoUser}]
      BY DEF IndInv, TypeOK
    <2>3. \A g \in Files \ {f} : owner'[g] = owner[g]
      BY <2>1, <2>2
    <2> QED
      BY <1>1, <2>1, <2>3 DEF Keeps, Blobs
  <1>4. ASSUME NEW u \in Users, DeleteUser(u) PROVE Keeps
    <2>1. /\ owner' = Without({f \in Files : owner[f] = u})
          /\ \A e \in envs' : e.from # u /\ e \in envs
      BY <1>4 DEF DeleteUser
    <2>2. \A e \in envs' : e.file \in Blobs => owner[e.file] # u
      BY <2>1 DEF IndInv, SenderOwnsBlob
    <2> QED
      BY <2>1, <2>2 DEF Keeps, Without, Blobs
  <1>5. ASSUME DeleteExpired PROVE Keeps
    <2>1. PICK gone : owner' = Without(gone \ Named(envs'))
      BY <1>5 DEF DeleteExpired
    <2> QED
      BY <2>1, WithoutNamedKeeps
  <1>6. ASSUME DeleteOrphanFiles PROVE Keeps
    <2>1. owner' = Without(old \ Named(envs')) 
      BY <1>6 DEF DeleteOrphanFiles, envVars
    <2> QED
      BY <2>1, WithoutNamedKeeps
  <1>7. \/ UNCHANGED owner
        \/ \E me \in Users, f \in Files : Upload(me, f)
        \/ \E u \in Users : DeleteUser(u)
        \/ DeleteExpired \/ DeleteOrphanFiles
    BY DEF Next, UpNext, Requests, HandlerSteps, Threads, Time, SendFile, Join, Leave,
       DeleteAccount, UserExists, GroupMember, FileOwnedBy, Check, StoreEnvelope, Register,
       ComesDue, GrowsOld, Restart, fileVars, vars
  <1> QED
    BY <1>2, <1>3, <1>4, <1>5, <1>6, <1>7

(* A stored message keeps its blob as long as it stays, whoever shares the  *)
(* blob, whatever expires and whichever accounts go.                        *)
THEOREM StoredMessagesKeepBlobs == Spec => [][Keeps]_vars
  <1>1. IndInv /\ [Next]_vars => [Keeps]_vars
    BY NextKeeps
  <1> QED
    BY <1>1, Invariance, PTL DEF Spec

-----------------------------------------------------------------------------
(* Attachments.                                                            *)

\* The foreign keys of the messages: both ends are there.
EnvEnds == \A e \in envs : /\ e.from \in users
                           /\ IF e.to = Group THEN members # {} ELSE e.to \in users

LEMMA EndsInd ==
    ASSUME TypeOK, EnvEnds, [Next]_vars
    PROVE  EnvEnds'
  <1>0. /\ members \subseteq users /\ Group \notin Users /\ users \subseteq Users
        /\ \A e \in envs : e.from \in Users
    BY FileAssumption DEF TypeOK, Envs
  <1>1. ASSUME envs' \subseteq envs, UNCHANGED <<users, members>> PROVE EnvEnds'
    BY <1>1 DEF EnvEnds
  <1>2. ASSUME StoreEnvelope PROVE EnvEnds'
    <2>1. UNCHANGED <<users, members>>
      BY <1>2 DEF StoreEnvelope, accountVars
    <2>2. CASE envs' = envs
      BY <2>1, <2>2, <1>1
    <2>3. CASE envs' # envs
      <3>1. /\ loop.me \in users /\ (IF loop.to = Group THEN members # {} ELSE loop.to \in users)
            /\ envs' = envs \cup {[id |-> next, file |-> loop.file, from |-> loop.me,
                                   to |-> loop.to, ttl |-> loop.ttl]}
        BY <1>2, <2>3 DEF StoreEnvelope
      <3> QED BY <2>1, <3>1 DEF EnvEnds
    <2> QED BY <2>2, <2>3
  <1>3. ASSUME NEW u \in Users, Leave(u) PROVE EnvEnds'
    BY <1>3 DEF Leave, EnvEnds, GroupRowsWithout
  <1>4. ASSUME NEW u \in Users, Join(u) \/ Register(u) PROVE EnvEnds'
    BY <1>4 DEF Join, Register, EnvEnds, envVars
  <1>5. ASSUME NEW u \in Users, DeleteUser(u) PROVE EnvEnds'
    BY <1>0, <1>5 DEF DeleteUser, EnvEnds, GroupRowsWithout
  <1>6. \/ envs' \subseteq envs /\ UNCHANGED <<users, members>>
        \/ StoreEnvelope
        \/ \E u \in Users : Leave(u) \/ Join(u) \/ Register(u) \/ DeleteUser(u)
    BY DEF Next, UpNext, Requests, HandlerSteps, Threads, Time, Upload, SendFile, DeleteAccount,
       UserExists, GroupMember, FileOwnedBy, Check, DeleteExpired, DeleteOrphanFiles,
       ComesDue, GrowsOld, Restart, accountVars, envVars, vars
  <1> QED BY <1>1, <1>2, <1>3, <1>4, <1>5, <1>6

\* Steps that the clients do not see
Unseen == UNCHANGED <<users, members, owner, fresh, envs, next, due, old>>

Kept == Promise!Next \/ Unseen

LEMMA UploadKept ==
    ASSUME IndInv, NEW me \in Users, NEW f \in Files, Upload(me, f)
    PROVE  Promise!Next
  <1>1. /\ f \in fresh /\ fresh' = fresh \ {f} /\ fresh \subseteq Files
        /\ owner' = IF me \in users THEN [owner EXCEPT ![f] = me] ELSE owner
        /\ UNCHANGED <<users, members, envs, next, due, old>>
    BY DEF Upload, accountVars, envVars, IndInv, TypeOK
  <1>2. Promise!Put(me, f)
    BY <1>1 DEF Promise!Put, Promise!people, Promise!times
  <1> QED BY <1>2 DEF Promise!Next

LEMMA StoreKept ==
    ASSUME IndInv, StoreEnvelope
    PROVE  Kept
  <1> DEFINE l == [id |-> next, file |-> loop.file, from |-> loop.me, to |-> loop.to, ttl |-> loop.ttl]
  <1>1. UNCHANGED <<users, members, owner, fresh, old, due>> /\ loop.pc = "store"
    BY DEF StoreEnvelope, accountVars, fileVars
  <1>2. CASE UNCHANGED <<envs, next>>
    BY <1>1, <1>2 DEF Kept, Unseen
  <1>3. CASE ~UNCHANGED <<envs, next>>
    <2>1. /\ loop.me \in users /\ (IF loop.to = Group THEN members # {} ELSE loop.to \in users)
          /\ envs' = envs \cup {l} /\ next' = next + 1
      BY <1>3 DEF StoreEnvelope
    <2>2. /\ loop.me \in Users /\ loop.file \in Files \ fresh /\ loop.to \in Users \cup {Group}
          /\ loop.ttl \in BOOLEAN /\ next \in EnvIds
          /\ owner[loop.file] \in {loop.me, NoUser}
      BY <1>1, FileAssumption DEF IndInv, TypeOK, FrameKnown, Frames, Blobs, EnvIds
    <2>3. l \in Envs
      BY <2>2 DEF Envs
    <2>4. Promise!Post(l)
      BY <1>1, <2>1, <2>2 DEF Promise!Post, Promise!people, Promise!times
    <2> QED BY <2>3, <2>4 DEF Kept, Promise!Next
  <1> QED BY <1>2, <1>3

\* Accounts and members come and go.
LEMMA ChangeKept ==
    ASSUME IndInv, EnvEnds, NEW u \in Users, Leave(u) \/ Join(u) \/ Register(u) \/ DeleteUser(u)
    PROVE  Promise!Next
  <1> DEFINE Stays(e) == /\ e.from \in users'
                         /\ IF e.to = Group THEN members' # {} ELSE e.to \in users'
  <1>0. /\ users \subseteq Users /\ members \subseteq users /\ NoUser \notin Users /\ Group \notin Users
        /\ owner \in [Files -> users \cup {NoUser}]
        /\ \A e \in envs : e.from \in Users /\ e.to \in Users \cup {Group}
    BY FileAssumption DEF IndInv, TypeOK, Envs
  <1>1. users' \in SUBSET Users /\ members' \in SUBSET users'
    BY <1>0 DEF Leave, Join, Register, DeleteUser
  <1>2. envs' = {e \in envs : Stays(e)}
    <2>1. CASE Leave(u)
      BY <1>0, <2>1 DEF Leave, GroupRowsWithout, EnvEnds
    <2>2. CASE Join(u) \/ Register(u)
      BY <2>2 DEF Join, Register, EnvEnds, envVars
    <2>3. CASE DeleteUser(u)
      <3>1. /\ users' = users \ {u} /\ members' = members \ {u}
            /\ envs' = {e \in envs : u \notin {e.from, e.to}} \ GroupRowsWithout(members')
        BY <2>3 DEF DeleteUser
      <3>2. ASSUME NEW e \in envs PROVE e \in envs' <=> Stays(e)
        BY <1>0, <3>1 DEF EnvEnds, GroupRowsWithout
      <3>3. envs' \subseteq envs
        BY <3>1
      <3> HIDE DEF Stays
      <3> QED BY <3>2, <3>3
    <2> QED BY <2>1, <2>2, <2>3
  <1>3. owner' = [f \in Files |-> IF owner[f] \in users' THEN owner[f] ELSE NoUser]
    <2>1. CASE Leave(u) \/ Join(u) \/ Register(u)
      <3>1. owner' = owner /\ users \subseteq users' /\ users' \subseteq Users
        BY <1>1, <2>1 DEF Leave, Join, Register, fileVars
      <3> QED BY <1>0, <3>1
    <2>2. CASE DeleteUser(u)
      <3>1. owner' = Without({f \in Files : owner[f] = u}) /\ users' = users \ {u}
        BY <2>2 DEF DeleteUser
      <3> QED BY <1>0, <3>1 DEF Without
    <2> QED BY <2>1, <2>2
  <1>4. UNCHANGED <<fresh, next, due, old>>
    BY DEF Leave, Join, Register, DeleteUser, fileVars, envVars
  <1>5. Promise!Change
    BY <1>1, <1>2, <1>3, <1>4 DEF Promise!Change, Promise!times
  <1> QED BY <1>5 DEF Promise!Next

LEMMA SweepKept ==
    ASSUME IndInv, DeleteExpired \/ DeleteOrphanFiles
    PROVE  Promise!Next
  <1>1. CASE DeleteExpired
    <2> DEFINE gone == {e \in envs : e.id \in due}
    <2>1. /\ envs' = envs \ gone /\ owner' = Without(Named(gone) \ Named(envs'))
          /\ UNCHANGED <<users, members, fresh, next, due, old>>
      BY <1>1 DEF DeleteExpired, accountVars
    <2>2. Promise!Expire(gone)
      BY <2>1 DEF Promise!Expire, Promise!Lose, Promise!Named, Named, Without, Promise!people, Promise!times
    <2> QED BY <2>2 DEF Promise!Next
  <1>2. CASE DeleteOrphanFiles
    <2>1. /\ owner' = Without(old \ Named(envs))
          /\ UNCHANGED <<users, members, fresh, envs, next, due, old>>
      BY <1>2 DEF DeleteOrphanFiles, accountVars, envVars
    <2>2. Promise!Clear
      BY <2>1 DEF Promise!Clear, Promise!Lose, Promise!Named, Named, Without, Promise!people, Promise!times
    <2> QED BY <2>2 DEF Promise!Next
  <1> QED BY <1>1, <1>2

LEMMA TimeKept ==
    ASSUME IndInv, Time
    PROVE  Promise!Next
  <1>1. UNCHANGED <<users, members, owner, fresh, envs, next>>
    BY DEF Time, ComesDue, GrowsOld, accountVars, fileVars, envVars
  <1>2. due \subseteq due' /\ \A i \in due' \ due : \E l \in envs : l.id = i /\ l.ttl
    BY DEF Time, ComesDue, GrowsOld, envVars
  <1>3. old \subseteq old' /\ old' \subseteq Files \ fresh
    BY DEF Time, ComesDue, GrowsOld, fileVars, IndInv, TypeOK
  <1>4. Promise!Pass
    BY <1>1, <1>2, <1>3 DEF Promise!Pass, Promise!people
  <1> QED BY <1>4 DEF Promise!Next

LEMMA StepKept ==
    ASSUME IndInv, EnvEnds, [Next]_vars
    PROVE  [Promise!Next]_(Promise!attached)
  <1>1. ASSUME Unseen PROVE UNCHANGED Promise!attached
    BY <1>1 DEF Unseen, Promise!attached
  <1>2. \/ Unseen
        \/ \E me \in Users, f \in Files : Upload(me, f)
        \/ StoreEnvelope
        \/ \E u \in Users : Leave(u) \/ Join(u) \/ Register(u) \/ DeleteUser(u)
        \/ DeleteExpired \/ DeleteOrphanFiles
        \/ Time
    BY DEF Next, UpNext, Requests, HandlerSteps, Threads, SendFile, DeleteAccount,
       UserExists, GroupMember, FileOwnedBy, Check, Restart, accountVars, fileVars, envVars, vars, Unseen
  <1> QED BY <1>1, <1>2, UploadKept, StoreKept, ChangeKept, SweepKept, TimeKept DEF Kept

LEMMA InitKept == Init => Promise!Init
  BY DEF Init, Promise!Init

(* The relay implements Attachments: what its handlers check in one database *)
(* call still holds when they store in the next; no sweep, deletion of an    *)
(* account or restart takes a message before its time, the blob of a message *)
(* that stays, or a fresh upload (main.py, database.py).                     *)
THEOREM ImplementsAttachments == Spec => KeepsAttachments
  <1>1. Init => EnvEnds
    BY DEF Init, EnvEnds
  <1>2. IndInv => TypeOK
    BY DEF IndInv
  <1> QED
    BY <1>1, <1>2, Invariance, EndsInd, StepKept, InitKept, PTL DEF Spec, KeepsAttachments, Promise!Spec
=============================================================================
