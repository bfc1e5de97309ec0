\* An owner, a successor and a third member of one group; two clock readings,
\* so that joins may tie; two registrations that may race for one name.
CONSTANTS
    Users = {1, 2, 3}
    MaxGid = 1
    MaxNow = 2
    RegThreads = {t1, t2}
SYMMETRY ThreadSymmetry
SPECIFICATION Spec
INVARIANTS TypeOK
PROPERTIES ImplementsService StrandedOnlyByATear
