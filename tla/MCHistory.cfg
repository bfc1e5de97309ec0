\* Two relays and two envelopes on each, the first of them disappearing.
CONSTANTS
    Relays = {home, vps}
    MaxId = 2
    Ephemeral <- Disappearing
    MaxReveals = 1
SPECIFICATION Spec
INVARIANTS TypeOK  UrlsGoWithMessages
PROPERTIES RestoreBringsBack
