\* A GET and a POST, relays of both generations, any three events from outside.
CONSTANTS
    Calls = {get, post}
    Reads = {get}
    ReadAttempts = 2
    Kinds = {"modern", "legacy"}
    MaxEvents = 3
SPECIFICATION Spec
INVARIANT TypeOK
PROPERTIES KeepsPromise LogoutIsFinal Reconnects CallsEnd
CHECK_DEADLOCK FALSE
