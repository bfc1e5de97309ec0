\* Two tabs, two relays, the old identity and two new ones.
CONSTANTS
    Tabs = {tab1, tab2}
    Relays = {home, vps}
    Default = home
    MaxIds = 3
SPECIFICATION AccountSpec
SYMMETRY Symmetry
INVARIANTS AccountTypeOK KeysAreSomewhere
