\* Two accounts and a group, one blob that up to two messages may name.  Without
\* symmetry, for the sake of liveness.
CONSTANTS
    Users = {u1, u2}
    Files = {f1}
    MaxEnv = 2
    NoUser = NoUser
    Group = Group
SPECIFICATION FairSpec
INVARIANTS TypeOK SenderOwnsBlob
PROPERTIES KeepsAttachments NothingLingers
