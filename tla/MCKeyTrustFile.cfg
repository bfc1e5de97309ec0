\* One contact and a group with them, whose key changes once; two tasks.
CONSTANTS
    Contacts = {ann}
    Group = team
    MaxKey = 2
    MaxBusy = 2
SPECIFICATION Spec
PROPERTY FilesAreHeld
