\* One contact and a group with them, whose keys are three in turn; two tasks.
CONSTANTS
    Contacts = {ann}
    Group = team
    MaxKey = 3
    MaxBusy = 2
SPECIFICATION Spec
INVARIANTS TypeOK KeysInUseAreKnown BannerTells
PROPERTIES TextsAreHeld OnlyTheUserUnverifies
